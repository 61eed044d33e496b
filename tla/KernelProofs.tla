---------------------------- MODULE KernelProofs ----------------------------
(***************************************************************************)
(* Proofs about Kernel, for every set of calls, every bound and every      *)
(* number of crashes.                                                      *)
(***************************************************************************)
EXTENDS Kernel, FiniteSetTheorems, TLAPS

Handling == {"batch", "execute", "intent", "ran", "put", "done", "error", "fold"}

\* What the control points say of the locals: `pre' holds the results of a
\* batch, whose calls are the first of `calls' and are all eligible.
Shape ==
  /\ pc \notin Handling => pre = <<>>
  /\ pc # "batch" => pre \in Seq(Outcomes)
  /\ pc = "batch" => pre # <<>>
  /\ Len(pre) <= Len(calls)
  /\ \A i \in 1..Len(pre) : _batch_eligible(calls[i])
  /\ pc = "ran" => out \in Outcomes
  /\ pc = "done" => journal # <<>>

\* What they say of the journal's tail.
TailShape ==
  /\ pc \in {"intent", "ran", "put"} =>
       /\ journal # <<>> /\ journal[Len(journal)].state = "EXEC_INTENT"
       /\ journal[Len(journal)].call = Head(calls)
  /\ pc = "stopping" => Tail_state = "STOPPED"
  /\ pc = "finalized" => Tail_state = "FINALIZE"
  /\ pc = "gate" => Tail_state = "AWAITING_APPROVAL"
  /\ pc = "quarantine" => Tail_state = "FAILED_NEEDS_REVIEW"
  /\ NothingDangles

TypeInv == TypeOK /\ Shape

\* An effect of intent n is one that ToolRun made: the row is there, and
\* while the kernel stands before ToolRun no effect has the tail's number.
Backed ==
  \A i \in DOMAIN effects :
    IF effects[i].seq = 0 THEN _batch_eligible(effects[i].call)
    ELSE /\ effects[i].seq \in 1..Len(journal)
         /\ journal[effects[i].seq].state = "EXEC_INTENT"
         /\ journal[effects[i].seq].call = effects[i].call
EffectsInv ==
  /\ Backed
  /\ pc = "intent" => \A i \in DOMAIN effects : effects[i].seq # Len(journal)
  /\ AtMostOncePerIntent

\* A gated call past the gate is approved, and stays so.
GateInv ==
  /\ pc \in {"execute", "intent"} /\ Head(calls) \in Gated => approvals[Head(calls)] = "approved"
  /\ ApprovalGate

-----------------------------------------------------------------------------
\* The batch _execute_pending takes is a prefix of the calls, and every call
\* in it is eligible.
LEMMA BatchIsEligiblePrefix ==
  ASSUME NEW cs \in Seq(Calls)
  PROVE  /\ BatchLength(cs) \in 0..Len(cs)
         /\ \A i \in 1..BatchLength(cs) : _batch_eligible(cs[i])
<1> DEFINE S == {i \in 1..Len(cs) : \A j \in 1..i : _batch_eligible(cs[j])}
<1>1. Len(cs) \in Nat
  OBVIOUS
<1>2. IsFiniteSet(1..Len(cs)) /\ Cardinality(1..Len(cs)) = Len(cs)
  BY <1>1, FS_Interval, SMTT(90)
<1>3. IsFiniteSet(S) /\ Cardinality(S) <= Len(cs)
  BY <1>2, FS_Subset, Zenon
<1>4. Cardinality(S) \in 0..Len(cs)
  BY <1>1, <1>3, FS_CardinalityType
<1>5. ASSUME NEW i \in 1..Cardinality(S), i \notin S
      PROVE  FALSE
  <2>1. S \subseteq 1..(i - 1)
    BY <1>1, <1>4, <1>5
  <2>2. i - 1 \in Nat
    BY <1>4
  <2>3. IsFiniteSet(1..(i - 1)) /\ Cardinality(1..(i - 1)) = i - 1
    BY <2>2, FS_Interval
  <2>4. Cardinality(S) <= i - 1
    BY <2>1, <2>3, FS_Subset
  <2> QED BY <2>4, <1>4
<1>6. \A i \in 1..Cardinality(S) : _batch_eligible(cs[i])
  BY <1>5, <1>4
<1> QED BY <1>4, <1>6, Zenon DEF BatchLength

\* The fields of the journal's last row.
LEMMA LastRow ==
  ASSUME journal \in Seq(Rows), journal # <<>>
  PROVE  LET row == journal[Len(journal)]
         IN  /\ Len(journal) \in Nat \ {0} /\ row.state \in JournalStates
             /\ row.call \in Calls \cup {NoCall} /\ row.ref \in Nat /\ row.calls \in Seq(Calls)
<1>1. Len(journal) \in Nat \ {0} /\ journal[Len(journal)] \in Rows
  OBVIOUS
<1> QED BY <1>1, Zenon DEF Rows

\* Each step keeps the types and the shape of the locals.
LEMMA TypeInvStep == TypeInv /\ [Next]_vars => TypeInv'
<1> SUFFICES ASSUME TypeInv, [Next]_vars
             PROVE  TypeInv'
  BY Zenon
<1> USE KernelAssumption
<1>1. CASE Assemble
  BY <1>1 DEF Assemble, TypeInv, TypeOK, Shape, Handling, PCs, store, loopvars, execvars, others, env, journal_append, JournalRow, Rows, JournalStates
<1>2. CASE LoopGuard
  <2>1. PICK reason \in StopReasons : pc = "loop" /\ _stop(reason)
    BY <1>2, Zenon DEF LoopGuard, StopReasons
  <2> QED BY <2>1 DEF _stop, Results, TypeInv, TypeOK, Shape, Handling, PCs, store, loopvars, execvars, others, env, journal_append, JournalRow, Rows, JournalStates
<1>3. CASE ModelIntent
  BY <1>3 DEF ModelIntent, TypeInv, TypeOK, Shape, Handling, PCs, store, loopvars, execvars, others, env, journal_append, JournalRow, Rows, JournalStates
<1>4. CASE ModelRetry
  BY <1>4 DEF ModelRetry, TypeInv, TypeOK, Shape, Handling, PCs, store, loopvars, execvars, others, env, ledger_append, EventTypes
<1>5. CASE ModelError
  BY <1>5 DEF ModelError, TypeInv, TypeOK, Shape, Handling, PCs, store, loopvars, execvars, others, env, ledger_append, EventTypes
<1>6. CASE ModelErrorStop
  BY <1>6 DEF ModelErrorStop, TypeInv, TypeOK, Shape, Handling, PCs, store, loopvars, execvars, others, env, _stop, Results, StopReasons, journal_append, JournalRow, Rows, JournalStates
<1>7. CASE ModelDone
  BY <1>7, SMTT(60) DEF ModelDone, TypeInv, TypeOK, Shape, Handling, PCs, store, loopvars, execvars, others, env, journal_append, JournalRow, Rows, JournalStates, Seq_tail
<1>8. CASE LedgerModelCall
  BY <1>8 DEF LedgerModelCall, TypeInv, TypeOK, Shape, Handling, PCs, store, loopvars, execvars, others, env, ledger_append, EventTypes
<1>9. CASE TokenBudget
  BY <1>9 DEF TokenBudget, TypeInv, TypeOK, Shape, Handling, PCs, store, loopvars, execvars, others, env, _stop, Results, StopReasons, journal_append, JournalRow, Rows, JournalStates
<1>10. CASE FinalizeRefused
  BY <1>10 DEF FinalizeRefused, TypeInv, TypeOK, Shape, Handling, PCs, store, loopvars, execvars, others, env, add_message
<1>11. CASE LedgerRefused
  BY <1>11 DEF LedgerRefused, TypeInv, TypeOK, Shape, Handling, PCs, store, loopvars, execvars, others, env, ledger_append, EventTypes
<1>12. CASE AnswerMessage
  BY <1>12 DEF AnswerMessage, TypeInv, TypeOK, Shape, Handling, PCs, store, loopvars, execvars, others, env, add_message
<1>13. CASE Finalize
  BY <1>13 DEF Finalize, TypeInv, TypeOK, Shape, Handling, PCs, store, loopvars, execvars, others, env, journal_append, JournalRow, Rows, JournalStates
<1>14. CASE LedgerFinalize
  BY <1>14 DEF LedgerFinalize, TypeInv, TypeOK, Shape, Handling, PCs, store, loopvars, execvars, others, env, ledger_append, EventTypes, Results
<1>15. CASE CycleCheck
  <2>1. CASE LoopDetected(cycle_history')
    <3>1. pc = "decide" /\ _stop("loop_detected")
      BY <1>15, <2>1, Zenon DEF CycleCheck
    <3> QED BY <3>1, SMTT(60) DEF _stop, Results, StopReasons, TypeInv, TypeOK, Shape, Handling, PCs, store, loopvars, execvars, others, env, journal_append, JournalRow, Rows, JournalStates
  <2>2. CASE ~LoopDetected(cycle_history')
    <3>1. /\ pc = "decide" /\ add_message("assistant", NoCall, "exec")
          /\ UNCHANGED <<iteration, attempt, execvars, result, others>>
      BY <1>15, <2>2, Zenon DEF CycleCheck
    <3> QED BY <3>1 DEF add_message, TypeInv, TypeOK, Shape, Handling, PCs, store, loopvars, execvars, others, env
  <2> QED BY <2>1, <2>2, Zenon
<1>16. CASE EndStop
  BY <1>16 DEF EndStop, TypeInv, TypeOK, Shape, Handling, PCs, store, loopvars, execvars, others, env, ledger_append, EventTypes
<1>17. CASE ExecReturn
  BY <1>17 DEF ExecReturn, TypeInv, TypeOK, Shape, Handling, PCs, store, loopvars, execvars, others, env
<1>18. CASE ExecCancelled
  BY <1>18 DEF ExecCancelled, TypeInv, TypeOK, Shape, Handling, PCs, store, loopvars, execvars, others, env, journal_append, JournalRow, Rows, JournalStates, Next_call
<1>19. CASE BatchStart
  <2>1. BatchLength(calls) \in 0..Len(calls)
    BY BatchIsEligiblePrefix, Zenon DEF TypeInv, TypeOK
  <2>2. \A i \in 1..BatchLength(calls) : _batch_eligible(calls[i])
    BY BatchIsEligiblePrefix, Zenon DEF TypeInv, TypeOK
  <2>3. pre' \in Seq(Outcomes \cup {NoOut}) /\ Len(pre') = BatchLength(calls)
    BY <1>19, <2>1 DEF BatchStart
  <2>4. TypeOK'
    BY <1>19, <2>3, Zenon DEF BatchStart, TypeInv, TypeOK, PCs, store, loopvars, execvars, others, env
  <2>5. pc' = "batch" /\ calls' = calls /\ BatchLength(calls) >= 2
    BY <1>19, Zenon DEF BatchStart, loopvars
  <2>6. Shape'
    <3>1. pre' # <<>> /\ Len(pre') <= Len(calls)
      BY <2>1, <2>3, <2>5, SMTT(60) DEF TypeInv, TypeOK
    <3> QED BY <2>2, <2>3, <2>5, <3>1, Zenon DEF Shape, Handling
  <2> QED BY <2>4, <2>6, Zenon DEF TypeInv
<1>20. CASE BatchRun
  BY <1>20 DEF BatchRun, TypeInv, TypeOK, Shape, Handling, PCs, store, loopvars, execvars, others, env, NoOut
<1>21. CASE BatchJoin
  <2>1. pre \in Seq(Outcomes \cup {NoOut}) /\ \A i \in 1..Len(pre) : pre[i] # NoOut
    BY <1>21, Zenon DEF BatchJoin, TypeInv, TypeOK
  <2>2. pre \in Seq(Outcomes)
    BY <2>1
  <2>3. pc = "batch" /\ calls # <<>>
    BY <1>21, SMTT(60) DEF BatchJoin, TypeInv, Shape
  <2> QED BY <1>21, <2>2, <2>3, Zenon DEF BatchJoin, TypeInv, TypeOK, Shape, Handling, PCs, store, loopvars, execvars, others, env
<1>22. CASE AwaitApproval
  BY <1>22 DEF AwaitApproval, TypeInv, TypeOK, Shape, Handling, PCs, store, loopvars, execvars, others, env, journal_append, JournalRow, Rows, JournalStates, Next_call, Sequential
<1>23. CASE LedgerGate
  BY <1>23, SMTT(60) DEF LedgerGate, TypeInv, TypeOK, Shape, Handling, PCs, store, loopvars, execvars, others, env, ledger_append, EventTypes, Results, Next_call
<1>24. CASE GateDenied
  BY <1>24, SMTT(60) DEF GateDenied, TypeInv, TypeOK, Shape, Handling, PCs, store, loopvars, execvars, others, env, ledger_append, EventTypes, Next_call, Sequential
<1>25. CASE GateApproved
  BY <1>25, SMTT(60) DEF GateApproved, TypeInv, TypeOK, Shape, Handling, PCs, store, loopvars, execvars, others, env, ledger_append, EventTypes, Next_call, Sequential
<1>26. CASE CapDenied
  BY <1>26, SMTT(60) DEF CapDenied, TypeInv, TypeOK, Shape, Handling, PCs, store, loopvars, execvars, others, env, ledger_append, EventTypes, AtExecute, Next_call, Sequential
<1>27. CASE ExecIntent
  BY <1>27 DEF ExecIntent, TypeInv, TypeOK, Shape, Handling, PCs, store, loopvars, execvars, others, env, journal_append, JournalRow, Rows, JournalStates, AtExecute, Next_call, Sequential
<1>28. CASE ToolRun
  <2>1. out' \in Outcomes
    <3>1. CASE tool_result_get(Seq_tail)
      <4> DEFINE r == CHOOSE r \in tool_results : r.key = Seq_tail
      <4>1. r \in tool_results
        BY <3>1, Zenon DEF tool_result_get
      <4> QED BY <1>28, <3>1, <4>1, Zenon DEF ToolRun, TypeInv, TypeOK
    <3> QED BY <1>28, <3>1, Zenon DEF ToolRun
  <2>2. effects' \in Seq([call : Calls, seq : Nat])
    <3>1. Head(calls) \in Calls /\ Len(journal) \in Nat
      BY <1>28 DEF ToolRun, TypeInv, TypeOK
    <3>2. effects' = effects \/ effects' = Append(effects, [call |-> Head(calls), seq |-> Len(journal)])
      BY <1>28, Zenon DEF ToolRun, Next_call, Seq_tail
    <3>3. effects \in Seq([call : Calls, seq : Nat])
      BY Zenon DEF TypeInv, TypeOK
    <3>4. [call |-> Head(calls), seq |-> Len(journal)] \in [call : Calls, seq : Nat]
      BY <3>1, Zenon
    <3>5. CASE effects' = Append(effects, [call |-> Head(calls), seq |-> Len(journal)])
      BY <3>3, <3>4, <3>5
    <3> QED BY <3>2, <3>3, <3>5, Zenon
  <2>3. pc = "intent" /\ pc' \in {"put", "ran"}
    BY <1>28, Zenon DEF ToolRun
  <2> QED BY <1>28, <2>1, <2>2, <2>3, Zenon DEF ToolRun, TypeInv, TypeOK, Shape, Handling, PCs, store, loopvars, execvars, others, env
<1>29. CASE UsePrecomputed
  BY <1>29, SMTT(60) DEF UsePrecomputed, TypeInv, TypeOK, Shape, Handling, PCs, store, loopvars, execvars, others, env
<1>30. CASE PutResult
  BY <1>30 DEF PutResult, TypeInv, TypeOK, Shape, Handling, PCs, store, loopvars, execvars, others, env, tool_result_put, Seq_tail
<1>31. CASE ExecDone
  <2>1. journal' \in Seq(Rows) /\ journal' # <<>>
    <3>1. Head(calls) \in Calls /\ Len(journal) \in Nat /\ journal \in Seq(Rows)
      BY <1>31 DEF ExecDone, TypeInv, TypeOK
    <3>2. JournalRow("EXEC_DONE", Head(calls), Len(journal), <<>>) \in Rows
      BY <3>1, SMTT(90) DEF JournalRow, Rows, JournalStates
    <3> QED BY <1>31, <3>1, <3>2, SMTT(60) DEF ExecDone, journal_append, Next_call, Seq_tail
  <2> QED BY <1>31, <2>1, Zenon DEF ExecDone, journal_append, TypeInv, TypeOK, Shape, Handling, PCs, store, loopvars, execvars, others, env
<1>32. CASE LedgerExec
  <2>1. journal[Len(journal)].ref \in Nat /\ Head(calls) \in Calls
    BY <1>32, LastRow, SMTT(90) DEF LedgerExec, TypeInv, TypeOK, Shape
  <2> QED BY <1>32, <2>1, SMTT(90) DEF LedgerExec, ledger_append, EventTypes, Next_call, Seq_tail, TypeInv, TypeOK, Shape, Handling, PCs, store, loopvars, execvars, others, env
<1>33. CASE _ledger_tool_error
  BY <1>33 DEF _ledger_tool_error, TypeInv, TypeOK, Shape, Handling, PCs, store, loopvars, execvars, others, env, ledger_append, EventTypes, Next_call
<1>34. CASE _add_tool_msg
  <2>1. calls # <<>> /\ pc = "fold" /\ calls \in Seq(Calls) /\ pre \in Seq(Outcomes)
    BY <1>34, Zenon DEF _add_tool_msg, TypeInv, TypeOK, Shape
  <2>2. calls' \in Seq(Calls) /\ Len(calls') = Len(calls) - 1
    BY <1>34, <2>1 DEF _add_tool_msg
  <2>3. pre' \in Seq(Outcomes) /\ Len(pre') <= Len(calls') /\ (Len(pre) <= 1 => pre' = <<>>)
    BY <1>34, <2>1, <2>2 DEF _add_tool_msg, TypeInv, Shape
  <2>4. \A i \in 1..Len(pre') : _batch_eligible(calls'[i])
    BY <1>34, <2>1, <2>2, <2>3, SMTT(60) DEF _add_tool_msg, TypeInv, Shape
  <2>5. Len(pre) > 1 => calls' # <<>>
    BY <1>34, <2>1, <2>2, SMTT(60) DEF TypeInv, Shape
  <2>6. messages' \in Seq([role : {"user", "assistant", "tool"}, call : Calls \cup {NoCall}])
    BY <1>34, <2>1 DEF _add_tool_msg, add_message, Next_call, TypeInv, TypeOK
  <2>7. pc' = IF Len(pre) > 1 THEN "execute" ELSE "exec"
    BY <1>34, Zenon DEF _add_tool_msg, add_message
  <2>8. /\ UNCHANGED <<journal, tool_results, ledger, approvals, session_status, iteration, attempt>>
        /\ UNCHANGED <<result, cancelled, deciding, effects, unrecovered, skipped>>
        /\ UNCHANGED <<entries, decisions, crashes>> /\ out' = NoOut
    BY <1>34, Zenon DEF _add_tool_msg, add_message, loopvars, others, env
  <2>9. pc' \in PCs /\ (pc' = "execute" => calls' # <<>>) /\ pc' \in {"execute", "exec"}
    BY <2>5, <2>7, Zenon DEF PCs
  <2>10. TypeOK'
    BY <2>2, <2>3, <2>6, <2>8, <2>9, SMTT(90) DEF TypeInv, TypeOK
  <2>11. pc' = "exec" => pre' = <<>>
    BY <2>1, <2>3, <2>7
  <2>12. Shape'
    BY <2>3, <2>4, <2>9, <2>11, Zenon DEF Shape, Handling
  <2> QED BY <2>10, <2>12, Zenon DEF TypeInv
<1>35. CASE Quarantine
  <2>1. unrecovered' \in BOOLEAN
    BY <1>35, ZenonT(90) DEF Quarantine
  <2> QED BY <1>35, <2>1, Zenon DEF Quarantine, TypeInv, TypeOK, Shape, Handling, PCs, store, loopvars, execvars, others, env, Results
<1>36. CASE Run
  <2>1. cancelled' \in BOOLEAN
    BY <1>36, Zenon DEF Run
  <2> QED BY <1>36, <2>1 DEF Run, add_message, Enter, Results, TypeInv, TypeOK, Shape, Handling, PCs, store, loopvars, execvars, others, env
<1>37. CASE Resume
  <2>1. cancelled' \in BOOLEAN
    BY <1>37, ZenonT(90) DEF Resume, TypeInv, TypeOK
  <2>2. CASE Tail_state = "AWAITING_APPROVAL"
    <3>1. journal # <<>> /\ journal[Len(journal)] \in Rows
      BY <2>2, SMTT(90) DEF Tail_state, TypeInv, TypeOK
    <3> QED BY <1>37, <2>1, <2>2, <3>1, SMTT(90) DEF Resume, Enter, Results, Seq_tail, Rows, TypeInv, TypeOK, Shape, Handling, PCs, store, loopvars, execvars, others, env
  <2>3. CASE Tail_state # "AWAITING_APPROVAL"
    BY <1>37, <2>1, <2>3, SMTT(90) DEF Resume, Enter, Results, TypeInv, TypeOK, Shape, Handling, PCs, store, loopvars, execvars, others, env
  <2> QED BY <2>2, <2>3, Zenon
<1>38. CASE Recover
  <2>1. unrecovered' \in BOOLEAN
    BY <1>38, ZenonT(90) DEF Recover, Settle, TypeInv, TypeOK
  <2>2. result' \in Results
    BY <1>38, Zenon DEF Recover, Settle, Results, TypeInv, TypeOK
  <2>3. journal' \in Seq(Rows) /\ pc' \in {"idle", "quarantine"}
    <3>1. CASE UNCHANGED <<store, pc>>
      BY <1>38, <3>1, Zenon DEF Recover, store, TypeInv, TypeOK
    <3>2. CASE journal # <<>> /\ \E s \in JournalStates, c \in {NoCall, journal[Len(journal)].call},
                 p \in {"idle", "quarantine"} : journal_append(s, c, Seq_tail, <<>>, p)
      <4>1. journal[Len(journal)].call \in Calls \cup {NoCall}
        BY <3>2, LastRow, Zenon DEF TypeInv, TypeOK
      <4> QED BY <3>2, <4>1, SMTT(90) DEF TypeInv, TypeOK, Seq_tail, journal_append, JournalRow, Rows
    <3> QED BY <1>38, <3>1, <3>2, Zenon DEF Recover, Settle, Tail_state, Seq_tail, JournalStates
  <2>4. UNCHANGED <<tool_results, messages, ledger, approvals, session_status>> /\ pc = "idle"
    BY <1>38, Zenon DEF Recover, Settle, store, journal_append
  <2> QED BY <1>38, <2>1, <2>2, <2>3, <2>4, Zenon DEF Recover, TypeInv, TypeOK, Shape, Handling, PCs, store, loopvars, execvars, others, env
<1>39. CASE Decide
  BY <1>39, SMTT(90) DEF Decide, TypeInv, TypeOK, Shape, Handling, PCs, store, loopvars, execvars, others, env, approval_put
<1>40. CASE LedgerDecision
  <2>1. deciding.call \in Calls /\ deciding.status \in {"approved", "denied"}
    BY <1>40, Zenon DEF LedgerDecision, TypeInv, TypeOK, NoDecision
  <2> QED BY <1>40, <2>1, SMTT(90) DEF LedgerDecision, ledger_append, EventTypes, NoDecision, TypeInv, TypeOK, Shape, Handling, PCs, store, loopvars, execvars, others, env
<1>41. CASE Cancel
  BY <1>41, SMTT(90) DEF Cancel, TypeInv, TypeOK, Shape, Handling, PCs, store, loopvars, execvars, others, env
<1>42. CASE Crash
  <2>1. cancelled' \in BOOLEAN /\ unrecovered' \in BOOLEAN
    BY <1>42, ZenonT(90) DEF Crash
  <2> QED BY <1>42, <2>1 DEF Crash, NoOut, NoDecision, Results, TypeInv, TypeOK, Shape, Handling, PCs, store, loopvars, execvars, others, env
<1>43. CASE UNCHANGED vars
  BY <1>43 DEF vars, TypeInv, TypeOK, Shape, Handling, PCs, store, loopvars, execvars, others, env
<1>44. CASE LoopStep
  BY <1>44, <1>1, <1>2, <1>3, <1>4, <1>5, <1>6, <1>7, <1>8, <1>9, <1>10, <1>11, <1>12, <1>13, <1>14, <1>15, <1>16, Zenon DEF LoopStep
<1>45. CASE ExecStep
  BY <1>45, <1>17, <1>18, <1>19, <1>20, <1>21, <1>22, <1>23, <1>24, <1>25, <1>26, <1>27, <1>28, <1>29, <1>30, <1>31, <1>32, <1>33, <1>34, ZenonT(60) DEF ExecStep
<1> QED
  BY <1>35, <1>36, <1>37, <1>38, <1>39, <1>40, <1>41, <1>42, <1>43, <1>44, <1>45, Zenon DEF Next, Step

\* The row journal_append writes is the tail.
LEMMA AppendedTail ==
  ASSUME journal \in Seq(Rows), NEW s, NEW c, NEW r, NEW cs, NEW next,
         journal_append(s, c, r, cs, next)
  PROVE  /\ Len(journal') = Len(journal) + 1
         /\ journal'[Len(journal')] = JournalRow(s, c, r, cs)
         /\ journal' # <<>> /\ Tail_state' = s
<1>1. journal' = Append(journal, JournalRow(s, c, r, cs))
  BY Zenon DEF journal_append
<1>2. Len(journal') = Len(journal) + 1 /\ journal'[Len(journal) + 1] = JournalRow(s, c, r, cs)
  BY <1>1
<1>3. journal' # <<>>
  BY <1>1
<1>4. journal'[Len(journal')] = JournalRow(s, c, r, cs)
  BY <1>2, Zenon
<1>5. Tail_state' = journal'[Len(journal')].state
  BY <1>3, Zenon DEF Tail_state, Seq_tail
<1>6. JournalRow(s, c, r, cs).state = s
  BY Zenon DEF JournalRow
<1> QED BY <1>2, <1>3, <1>4, <1>5, <1>6, Zenon

\* A step that leaves the journal and the control point alone.
LEMMA TailFrame ==
  ASSUME TailShape, UNCHANGED <<journal, pc, calls, unrecovered>>
  PROVE  TailShape'
BY Zenon DEF TailShape, NothingDangles, Tail_state, Seq_tail

\* Each step keeps what the control points say of the journal's tail.
LEMMA TailStep == TypeInv /\ TailShape /\ [Next]_vars => TailShape'
<1> SUFFICES ASSUME TypeInv, TailShape, [Next]_vars
             PROVE  TailShape'
  BY Zenon
<1>1. CASE Assemble
  <2>1. Tail_state' = "ASSEMBLE" /\ pc' = "loop"
    BY <1>1, AppendedTail, Zenon DEF Assemble, journal_append, TypeInv, TypeOK
  <2> QED BY <2>1, Zenon DEF TailShape, NothingDangles
<1>2. CASE LoopGuard
  <2>1. PICK reason : _stop(reason)
    BY <1>2, Zenon DEF LoopGuard
  <2>2. Tail_state' = "STOPPED" /\ pc' = "stopping"
    BY <2>1, AppendedTail, Zenon DEF _stop, journal_append, TypeInv, TypeOK
  <2> QED BY <2>2, Zenon DEF TailShape, NothingDangles
<1>3. CASE ModelIntent
  <2>1. Tail_state' = "MODEL_CALL_INTENT" /\ pc' = "model"
    BY <1>3, AppendedTail, Zenon DEF ModelIntent, journal_append, TypeInv, TypeOK
  <2> QED BY <2>1, Zenon DEF TailShape, NothingDangles
<1>4. CASE ModelRetry
  BY <1>4, Zenon DEF ModelRetry, TailShape, NothingDangles, Tail_state, Seq_tail, store, execvars, others, env, ledger_append
<1>5. CASE ModelError
  BY <1>5, Zenon DEF ModelError, TailShape, NothingDangles, Tail_state, Seq_tail, store, execvars, others, env, ledger_append
<1>6. CASE ModelErrorStop
  <2>1. Tail_state' = "STOPPED" /\ pc' = "stopping"
    BY <1>6, AppendedTail, Zenon DEF ModelErrorStop, _stop, journal_append, TypeInv, TypeOK
  <2> QED BY <2>1, Zenon DEF TailShape, NothingDangles
<1>7. CASE ModelDone
  <2>1. Tail_state' = "MODEL_CALL_DONE" /\ pc' = "responded"
    BY <1>7, AppendedTail, Zenon DEF ModelDone, journal_append, TypeInv, TypeOK
  <2> QED BY <2>1, Zenon DEF TailShape, NothingDangles
<1>8. CASE LedgerModelCall
  BY <1>8, Zenon DEF LedgerModelCall, TailShape, NothingDangles, Tail_state, Seq_tail, store, execvars, others, env, ledger_append
<1>9. CASE TokenBudget
  <2>1. Tail_state' = "STOPPED" /\ pc' = "stopping"
    BY <1>9, AppendedTail, Zenon DEF TokenBudget, _stop, journal_append, TypeInv, TypeOK
  <2> QED BY <2>1, Zenon DEF TailShape, NothingDangles
<1>10. CASE FinalizeRefused
  BY <1>10, Zenon DEF FinalizeRefused, TailShape, NothingDangles, Tail_state, Seq_tail, store, execvars, others, env, add_message
<1>11. CASE LedgerRefused
  BY <1>11, Zenon DEF LedgerRefused, TailShape, NothingDangles, Tail_state, Seq_tail, store, execvars, others, env, ledger_append
<1>12. CASE AnswerMessage
  BY <1>12, Zenon DEF AnswerMessage, TailShape, NothingDangles, Tail_state, Seq_tail, store, execvars, others, env, add_message
<1>13. CASE Finalize
  <2>1. Tail_state' = "FINALIZE" /\ pc' = "finalized"
    BY <1>13, AppendedTail, Zenon DEF Finalize, journal_append, TypeInv, TypeOK
  <2> QED BY <2>1, Zenon DEF TailShape, NothingDangles
<1>14. CASE LedgerFinalize
  BY <1>14, Zenon DEF LedgerFinalize, TailShape, NothingDangles, Tail_state, Seq_tail, store, execvars, others, env, ledger_append
<1>15. CASE CycleCheck
  <2>1. CASE _stop("loop_detected")
    <3>1. Tail_state' = "STOPPED" /\ pc' = "stopping"
      BY <2>1, AppendedTail, Zenon DEF _stop, journal_append, TypeInv, TypeOK
    <3> QED BY <3>1, Zenon DEF TailShape, NothingDangles
  <2>2. CASE add_message("assistant", NoCall, "exec")
    <3>1. pc' = "exec"
      BY <2>2, Zenon DEF add_message
    <3> QED BY <3>1, Zenon DEF TailShape, NothingDangles
  <2> QED BY <1>15, <2>1, <2>2, Zenon DEF CycleCheck
<1>16. CASE EndStop
  BY <1>16, Zenon DEF EndStop, TailShape, NothingDangles, Tail_state, Seq_tail, store, execvars, others, env, ledger_append
<1>17. CASE ExecReturn
  BY <1>17, Zenon DEF ExecReturn, TailShape, NothingDangles, Tail_state, Seq_tail, store, execvars, others, env
<1>18. CASE ExecCancelled
  <2>1. Tail_state' = "CANCELLED" /\ pc' = "loop"
    BY <1>18, AppendedTail, Zenon DEF ExecCancelled, journal_append, TypeInv, TypeOK
  <2> QED BY <2>1, Zenon DEF TailShape, NothingDangles
<1>19. CASE BatchStart
  BY <1>19, Zenon DEF BatchStart, TailShape, NothingDangles, Tail_state, Seq_tail, store, execvars, others, env
<1>20. CASE BatchRun
  BY <1>20, TailFrame, Zenon DEF BatchRun, store, env
<1>21. CASE BatchJoin
  BY <1>21, Zenon DEF BatchJoin, TailShape, NothingDangles, Tail_state, Seq_tail, store, execvars, others, env
<1>22. CASE AwaitApproval
  <2>1. Tail_state' = "AWAITING_APPROVAL" /\ pc' = "gate"
    BY <1>22, AppendedTail, Zenon DEF AwaitApproval, journal_append, TypeInv, TypeOK
  <2> QED BY <2>1, Zenon DEF TailShape, NothingDangles
<1>23. CASE LedgerGate
  BY <1>23, Zenon DEF LedgerGate, TailShape, NothingDangles, Tail_state, Seq_tail, store, execvars, others, env, ledger_append
<1>24. CASE GateDenied
  BY <1>24, Zenon DEF GateDenied, TailShape, NothingDangles, Tail_state, Seq_tail, store, execvars, others, env, ledger_append, Sequential
<1>25. CASE GateApproved
  BY <1>25, Zenon DEF GateApproved, TailShape, NothingDangles, Tail_state, Seq_tail, store, execvars, others, env, ledger_append, Sequential
<1>26. CASE CapDenied
  BY <1>26, Zenon DEF CapDenied, TailShape, NothingDangles, Tail_state, Seq_tail, store, execvars, others, env, ledger_append
<1>27. CASE ExecIntent
  <2>1. /\ journal' # <<>> /\ pc' = "intent" /\ calls' = calls
        /\ journal'[Len(journal')] = JournalRow("EXEC_INTENT", Head(calls), 0, <<>>)
    <3>1. journal_append("EXEC_INTENT", Head(calls), 0, <<>>, "intent") /\ calls' = calls
      BY <1>27, Zenon DEF ExecIntent, Next_call, execvars
    <3>2. pc' = "intent" /\ journal \in Seq(Rows)
      BY <3>1, Zenon DEF journal_append, TypeInv, TypeOK
    <3> QED BY <3>1, <3>2, AppendedTail, Zenon
  <2> QED BY <2>1 DEF TailShape, NothingDangles, JournalRow
<1>28. CASE ToolRun
  BY <1>28, Zenon DEF ToolRun, TailShape, NothingDangles, Tail_state, Seq_tail, store, execvars, others, env
<1>29. CASE UsePrecomputed
  BY <1>29, Zenon DEF UsePrecomputed, TailShape, NothingDangles, Tail_state, Seq_tail, store, execvars, others, env
<1>30. CASE PutResult
  BY <1>30, Zenon DEF PutResult, TailShape, NothingDangles, Tail_state, Seq_tail, store, execvars, others, env
<1>31. CASE ExecDone
  <2>1. Tail_state' = "EXEC_DONE" /\ pc' = "done"
    BY <1>31, AppendedTail, Zenon DEF ExecDone, journal_append, TypeInv, TypeOK
  <2> QED BY <2>1, Zenon DEF TailShape, NothingDangles
<1>32. CASE LedgerExec
  BY <1>32, Zenon DEF LedgerExec, TailShape, NothingDangles, Tail_state, Seq_tail, store, execvars, others, env, ledger_append
<1>33. CASE _ledger_tool_error
  BY <1>33, Zenon DEF _ledger_tool_error, TailShape, NothingDangles, Tail_state, Seq_tail, store, execvars, others, env, ledger_append
<1>34. CASE _add_tool_msg
  BY <1>34, Zenon DEF _add_tool_msg, TailShape, NothingDangles, Tail_state, Seq_tail, store, execvars, others, env, add_message
<1>35. CASE Quarantine
  BY <1>35, Zenon DEF Quarantine, TailShape, NothingDangles, Tail_state, Seq_tail, store, execvars, others, env
<1>36. CASE Run
  BY <1>36, Zenon DEF Run, TailShape, NothingDangles, Tail_state, Seq_tail, store, execvars, others, env, add_message, Enter
<1>37. CASE Resume
  BY <1>37, Zenon DEF Resume, TailShape, NothingDangles, Tail_state, Seq_tail, store, execvars, others, env, Enter
<1>38. CASE Recover
  BY <1>38 DEF Recover, TailShape, NothingDangles, Tail_state, Seq_tail, store, execvars, others, env, Settle, journal_append, JournalRow
<1>39. CASE Decide
  BY <1>39, TailFrame, Zenon DEF Decide, execvars
<1>40. CASE LedgerDecision
  BY <1>40, TailFrame, Zenon DEF LedgerDecision, execvars, env, ledger_append
<1>41. CASE Cancel
  BY <1>41, TailFrame, Zenon DEF Cancel, store, execvars, env
<1>42. CASE Crash
  BY <1>42, Zenon DEF Crash, TailShape, NothingDangles, Tail_state, Seq_tail, store, execvars, others, env
<1>43. CASE UNCHANGED vars
  BY <1>43, TailFrame, Zenon DEF vars, store, execvars, others, env
<1>44. CASE LoopStep
  BY <1>44, <1>1, <1>2, <1>3, <1>4, <1>5, <1>6, <1>7, <1>8, <1>9, <1>10, <1>11, <1>12, <1>13, <1>14, <1>15, <1>16, Zenon DEF LoopStep
<1>45. CASE ExecStep
  BY <1>45, <1>17, <1>18, <1>19, <1>20, <1>21, <1>22, <1>23, <1>24, <1>25, <1>26, <1>27, <1>28, <1>29, <1>30, <1>31, <1>32, <1>33, <1>34, ZenonT(60) DEF ExecStep
<1> QED
  BY <1>35, <1>36, <1>37, <1>38, <1>39, <1>40, <1>41, <1>42, <1>43, <1>44, <1>45, Zenon DEF Next, Step

\* What a step may do to the variables the effects depend on.
Frame ==
  /\ journal' = journal \/ \E row : journal' = Append(journal, row)
  /\ effects' = effects \/ ToolRun \/ BatchRun
  /\ pc' = "intent" => ExecIntent \/ (pc = "intent" /\ UNCHANGED <<journal, calls>>)
  /\ pc' = "execute" =>
       \/ GateApproved \/ BatchJoin \/ _add_tool_msg
       \/ (pc = "execute" /\ UNCHANGED calls)
  /\ approvals' = approvals \/ Decide

\* Every step of the kernel, and every decision, cancel and crash, keeps
\* within Frame: journal and effects only grow, and only where it says.
LEMMA FrameStep == [Next]_vars => Frame
<1> SUFFICES ASSUME [Next]_vars
             PROVE  Frame
  BY Zenon
<1>1. CASE Assemble
  BY <1>1, Zenon DEF Assemble, Frame, store, execvars, others, env, journal_append
<1>2. CASE LoopGuard
  BY <1>2, Zenon DEF LoopGuard, Frame, store, execvars, others, env, _stop, journal_append
<1>3. CASE ModelIntent
  BY <1>3, Zenon DEF ModelIntent, Frame, store, execvars, others, env, journal_append
<1>4. CASE ModelRetry
  BY <1>4, Zenon DEF ModelRetry, Frame, store, execvars, others, env, ledger_append
<1>5. CASE ModelError
  BY <1>5, Zenon DEF ModelError, Frame, store, execvars, others, env, ledger_append
<1>6. CASE ModelErrorStop
  BY <1>6, Zenon DEF ModelErrorStop, Frame, store, execvars, others, env, _stop, journal_append
<1>7. CASE ModelDone
  BY <1>7, Zenon DEF ModelDone, Frame, store, execvars, others, env, journal_append
<1>8. CASE LedgerModelCall
  BY <1>8, Zenon DEF LedgerModelCall, Frame, store, execvars, others, env, ledger_append
<1>9. CASE TokenBudget
  BY <1>9, Zenon DEF TokenBudget, Frame, store, execvars, others, env, _stop, journal_append
<1>10. CASE FinalizeRefused
  BY <1>10, Zenon DEF FinalizeRefused, Frame, store, execvars, others, env, add_message
<1>11. CASE LedgerRefused
  BY <1>11, Zenon DEF LedgerRefused, Frame, store, execvars, others, env, ledger_append
<1>12. CASE AnswerMessage
  BY <1>12, Zenon DEF AnswerMessage, Frame, store, execvars, others, env, add_message
<1>13. CASE Finalize
  BY <1>13, Zenon DEF Finalize, Frame, store, execvars, others, env, journal_append
<1>14. CASE LedgerFinalize
  BY <1>14, Zenon DEF LedgerFinalize, Frame, store, execvars, others, env, ledger_append
<1>15. CASE CycleCheck
  BY <1>15, Zenon DEF CycleCheck, Frame, store, execvars, others, env, add_message, _stop, journal_append
<1>16. CASE EndStop
  BY <1>16, Zenon DEF EndStop, Frame, store, execvars, others, env, ledger_append
<1>17. CASE ExecReturn
  BY <1>17, Zenon DEF ExecReturn, Frame, store, execvars, others, env
<1>18. CASE ExecCancelled
  BY <1>18, Zenon DEF ExecCancelled, Frame, store, execvars, others, env, journal_append
<1>19. CASE BatchStart
  BY <1>19, Zenon DEF BatchStart, Frame, store, execvars, others, env
<1>20. CASE BatchRun
  BY <1>20, ZenonT(90) DEF BatchRun, Frame, store, execvars, others, env
<1>21. CASE BatchJoin
  BY <1>21, Zenon DEF BatchJoin, Frame, store, execvars, others, env
<1>22. CASE AwaitApproval
  BY <1>22, Zenon DEF AwaitApproval, Frame, store, execvars, others, env, journal_append, Sequential
<1>23. CASE LedgerGate
  BY <1>23, Zenon DEF LedgerGate, Frame, store, execvars, others, env, ledger_append
<1>24. CASE GateDenied
  BY <1>24, Zenon DEF GateDenied, Frame, store, execvars, others, env, ledger_append, Sequential
<1>25. CASE GateApproved
  BY <1>25, Zenon DEF GateApproved, Frame, store, execvars, others, env, ledger_append, Sequential
<1>26. CASE CapDenied
  BY <1>26, Zenon DEF CapDenied, Frame, store, execvars, others, env, ledger_append
<1>27. CASE ExecIntent
  BY <1>27, Zenon DEF ExecIntent, Frame, store, execvars, others, env, journal_append, AtExecute, Next_call, Sequential
<1>28. CASE ToolRun
  BY <1>28, Zenon DEF ToolRun, Frame, store, execvars, others, env
<1>29. CASE UsePrecomputed
  BY <1>29, Zenon DEF UsePrecomputed, Frame, store, execvars, others, env
<1>30. CASE PutResult
  BY <1>30, Zenon DEF PutResult, Frame, store, execvars, others, env
<1>31. CASE ExecDone
  BY <1>31, Zenon DEF ExecDone, Frame, store, execvars, others, env, journal_append
<1>32. CASE LedgerExec
  BY <1>32, Zenon DEF LedgerExec, Frame, store, execvars, others, env, ledger_append
<1>33. CASE _ledger_tool_error
  BY <1>33, Zenon DEF _ledger_tool_error, Frame, store, execvars, others, env, ledger_append
<1>34. CASE _add_tool_msg
  BY <1>34, Zenon DEF _add_tool_msg, Frame, store, execvars, others, env, add_message
<1>35. CASE Quarantine
  BY <1>35, Zenon DEF Quarantine, Frame, store, execvars, others, env
<1>36. CASE Run
  BY <1>36, Zenon DEF Run, Frame, store, execvars, others, env, add_message, Enter
<1>37. CASE Resume
  BY <1>37, Zenon DEF Resume, Frame, store, execvars, others, env, Enter
<1>38. CASE Recover
  BY <1>38, Zenon DEF Recover, Frame, store, execvars, others, env, Settle, journal_append
<1>39. CASE Decide
  BY <1>39, Zenon DEF Decide, Frame, store, execvars, others, env
<1>40. CASE LedgerDecision
  BY <1>40, Zenon DEF LedgerDecision, Frame, store, execvars, others, env, ledger_append
<1>41. CASE Cancel
  BY <1>41, Zenon DEF Cancel, Frame, store, execvars, others, env
<1>42. CASE Crash
  BY <1>42, Zenon DEF Crash, Frame, store, execvars, others, env
<1>43. CASE UNCHANGED vars
  BY <1>43, Zenon DEF vars, Frame, store, execvars, others, env
<1>44. CASE LoopStep
  BY <1>44, <1>1, <1>2, <1>3, <1>4, <1>5, <1>6, <1>7, <1>8, <1>9, <1>10, <1>11, <1>12, <1>13, <1>14, <1>15, <1>16, ZenonT(60) DEF LoopStep
<1>45. CASE ExecStep
  BY <1>45, <1>17, <1>18, <1>19, <1>20, <1>21, <1>22, <1>23, <1>24, <1>25, <1>26, <1>27, <1>28, <1>29, <1>30, <1>31, <1>32, <1>33, <1>34, ZenonT(60) DEF ExecStep
<1> QED
  BY <1>35, <1>36, <1>37, <1>38, <1>39, <1>40, <1>41, <1>42, <1>43, <1>44, <1>45, Zenon DEF Next, Step

-----------------------------------------------------------------------------
\* The journal only grows.
LEMMA Prefix ==
  ASSUME TypeInv, Frame
  PROVE  /\ Len(journal) \in Nat /\ Len(journal') \in Nat /\ Len(journal) <= Len(journal')
         /\ \A n \in 1..Len(journal) : journal'[n] = journal[n]
<1>1. journal \in Seq(Rows)
  BY Zenon DEF TypeInv, TypeOK
<1>2. CASE journal' = journal
  BY <1>1, <1>2
<1>3. CASE \E row : journal' = Append(journal, row)
  BY <1>1, <1>3, SMTT(90)
<1> QED BY <1>2, <1>3, Zenon DEF Frame

\* The effects after one more: the old ones, and the new one last.
LEMMA Appended ==
  ASSUME effects \in Seq([call : Calls, seq : Nat]), NEW c, NEW n,
         effects' = Append(effects, [call |-> c, seq |-> n])
  PROVE  \A i \in DOMAIN effects' :
           \/ i \in DOMAIN effects /\ effects'[i] = effects[i]
           \/ i \notin DOMAIN effects /\ i = Len(effects) + 1
              /\ effects'[i].call = c /\ effects'[i].seq = n
<1>1. DOMAIN effects = 1..Len(effects) /\ DOMAIN effects' = 1..(Len(effects) + 1) /\ Len(effects) \in Nat
  BY SMTT(90)
<1>2. \A i \in 1..Len(effects) : effects'[i] = effects[i]
  BY SMTT(90)
<1>3. effects'[Len(effects) + 1] = [call |-> c, seq |-> n]
  OBVIOUS
<1> QED BY <1>1, <1>2, <1>3, SMTT(90)

\* A run under an intent of its own, or under none, keeps the intents apart.
LEMMA OnceMore ==
  ASSUME effects \in Seq([call : Calls, seq : Nat]), NEW c, NEW n,
         effects' = Append(effects, [call |-> c, seq |-> n]),
         AtMostOncePerIntent,
         n = 0 \/ \A i \in DOMAIN effects : effects[i].seq # n
  PROVE  AtMostOncePerIntent'
<1> SUFFICES ASSUME NEW i \in DOMAIN effects', NEW j \in DOMAIN effects',
                    effects'[i].seq = effects'[j].seq, effects'[i].seq # 0
             PROVE  i = j
  BY Zenon DEF AtMostOncePerIntent
<1>1. \A k \in DOMAIN effects' :
        \/ k \in DOMAIN effects /\ effects'[k].seq = effects[k].seq
        \/ k = Len(effects) + 1 /\ effects'[k].seq = n
  BY Appended, SMTT(90)
<1>2. CASE i \in DOMAIN effects /\ effects'[i].seq = effects[i].seq
           /\ j \in DOMAIN effects /\ effects'[j].seq = effects[j].seq
  BY <1>2, Zenon DEF AtMostOncePerIntent
<1> QED BY <1>1, <1>2, ZenonT(90)

\* A run whose intent is in the journal, or of a batch, is backed.
LEMMA BackedMore ==
  ASSUME effects \in Seq([call : Calls, seq : Nat]), NEW c, NEW n,
         effects' = Append(effects, [call |-> c, seq |-> n]),
         Backed, journal' = journal,
         IF n = 0 THEN _batch_eligible(c)
         ELSE /\ n \in 1..Len(journal) /\ journal[n].state = "EXEC_INTENT"
              /\ journal[n].call = c
  PROVE  Backed'
<1> SUFFICES ASSUME NEW i \in DOMAIN effects'
             PROVE  IF effects'[i].seq = 0 THEN _batch_eligible(effects'[i].call)
                    ELSE /\ effects'[i].seq \in 1..Len(journal)
                         /\ journal[effects'[i].seq].state = "EXEC_INTENT"
                         /\ journal[effects'[i].seq].call = effects'[i].call
  BY Zenon DEF Backed, _batch_eligible
<1>1. CASE i \in DOMAIN effects /\ effects'[i] = effects[i]
  BY <1>1, ZenonT(90) DEF Backed
<1>2. CASE effects'[i].call = c /\ effects'[i].seq = n
  BY <1>2, Zenon
<1>3. \/ i \in DOMAIN effects /\ effects'[i] = effects[i]
      \/ effects'[i].call = c /\ effects'[i].seq = n
  BY Appended, SMTT(90)
<1> QED BY <1>1, <1>2, <1>3, Zenon

\* Each step keeps what is known of the effects.
LEMMA EffectsStep == TypeInv /\ TailShape /\ EffectsInv /\ [Next]_vars => EffectsInv'
<1> SUFFICES ASSUME TypeInv, TailShape, EffectsInv, [Next]_vars
             PROVE  EffectsInv'
  BY Zenon
<1>1. Frame
  BY FrameStep, Zenon
<1>2. /\ Len(journal) \in Nat /\ Len(journal') \in Nat /\ Len(journal) <= Len(journal')
      /\ \A n \in 1..Len(journal) : journal'[n] = journal[n]
  BY <1>1, Prefix, Zenon
<1>3. effects \in Seq([call : Calls, seq : Nat])
  BY Zenon DEF TypeInv, TypeOK
<1>4. CASE effects' = effects
  <2>1. pc' = "intent" => \A i \in DOMAIN effects : effects[i].seq # Len(journal')
    <3>1. CASE ExecIntent
      <4>1. Len(journal') = Len(journal) + 1
        BY <3>1, AppendedTail, Zenon DEF ExecIntent, TypeInv, TypeOK
      <4> QED BY <4>1, <1>2, <1>3, SMTT(90) DEF EffectsInv, Backed
    <3>2. CASE pc = "intent" /\ UNCHANGED <<journal, calls>>
      BY <3>2, Zenon DEF EffectsInv
    <3> QED BY <1>1, <3>1, <3>2, Zenon DEF Frame
  <2>2. Backed'
    BY <1>2, <1>3, <1>4, SMTT(90) DEF EffectsInv, Backed
  <2>3. AtMostOncePerIntent'
    BY <1>4, Zenon DEF EffectsInv, AtMostOncePerIntent
  <2> QED BY <1>4, <2>1, <2>2, <2>3, Zenon DEF EffectsInv
<1>5. CASE ToolRun /\ effects' # effects
  <2>1. /\ pc = "intent" /\ pc' = "ran" /\ journal' = journal
        /\ effects' = Append(effects, [call |-> Head(calls), seq |-> Len(journal)])
    BY <1>5, Zenon DEF ToolRun, Next_call, Seq_tail, store
  <2>2. /\ Len(journal) \in 1..Len(journal)
        /\ journal[Len(journal)].state = "EXEC_INTENT"
        /\ journal[Len(journal)].call = Head(calls)
    BY <2>1, LastRow DEF TailShape, TypeInv, TypeOK
  <2>3. \A i \in DOMAIN effects : effects[i].seq # Len(journal)
    BY <2>1, Zenon DEF EffectsInv
  <2>4. Backed'
    <3>1. Len(journal) # 0
      BY <2>2, SMTT(90)
    <3> QED BY <1>3, <2>1, <2>2, <3>1, BackedMore, Zenon DEF EffectsInv
  <2>5. AtMostOncePerIntent'
    BY <1>3, <2>1, <2>3, OnceMore, Zenon DEF EffectsInv
  <2> QED BY <2>1, <2>4, <2>5, Zenon DEF EffectsInv
<1>6. CASE BatchRun
  <2>1. PICK k \in 1..Len(pre) : effects' = Append(effects, [call |-> calls[k], seq |-> 0])
    BY <1>6, Zenon DEF BatchRun
  <2>2. pc' = "batch" /\ journal' = journal /\ _batch_eligible(calls[k])
    BY <1>6, Zenon DEF BatchRun, store, TypeInv, Shape
  <2>3. Backed'
    BY <1>3, <2>1, <2>2, BackedMore, Zenon DEF EffectsInv
  <2>4. AtMostOncePerIntent'
    BY <1>3, <2>1, OnceMore, Zenon DEF EffectsInv
  <2> QED BY <2>2, <2>3, <2>4, Zenon DEF EffectsInv
<1> QED BY <1>1, <1>4, <1>5, <1>6, Zenon DEF Frame

\* Each step keeps what is known of approvals.
LEMMA GateStep == TypeInv /\ GateInv /\ [Next]_vars => GateInv'
<1> SUFFICES ASSUME TypeInv, GateInv, [Next]_vars
             PROVE  GateInv'
  BY Zenon
<1>1. Frame
  BY FrameStep, Zenon
<1>2. \A c \in Gated : approvals[c] = "approved" => approvals'[c] = "approved"
  <2>1. CASE approvals' = approvals
    BY <2>1, Zenon
  <2>2. CASE Decide
    BY <2>2, Zenon DEF Decide, approval_put, TypeInv, TypeOK
  <2> QED BY <1>1, <2>1, <2>2, Zenon DEF Frame
<1>3. pc' \in {"execute", "intent"} /\ Head(calls') \in Gated => approvals'[Head(calls')] = "approved"
  <2>1. CASE pc' = "intent"
    <3>1. CASE ExecIntent
      BY <3>1, <1>2, Zenon DEF ExecIntent, AtExecute, Sequential, Next_call, execvars, GateInv
    <3>2. CASE pc = "intent" /\ UNCHANGED <<journal, calls>>
      BY <3>2, <1>2, Zenon DEF GateInv
    <3> QED BY <1>1, <2>1, <3>1, <3>2, Zenon DEF Frame
  <2>2. CASE pc' = "execute"
    <3>1. CASE GateApproved
      BY <3>1, <1>2, Zenon DEF GateApproved, Next_call, execvars
    <3>2. CASE BatchJoin
      <4>1. calls' = calls /\ calls \in Seq(Calls) /\ 1 \in 1..Len(pre)
        BY <3>2 DEF BatchJoin, execvars, TypeInv, TypeOK, Shape
      <4> QED BY <4>1, SMTT(90) DEF TypeInv, Shape, _batch_eligible
    <3>3. CASE _add_tool_msg
      <4>1. /\ calls' = Tail(calls) /\ calls \in Seq(Calls) /\ Len(pre) \in Nat
            /\ Len(pre) > 1 /\ Len(pre) <= Len(calls)
        BY <2>2, <3>3 DEF _add_tool_msg, add_message, TypeInv, TypeOK, Shape
      <4>2. Head(calls') = calls[2] /\ 2 \in 1..Len(pre)
        BY <4>1, SMTT(90)
      <4> QED BY <4>2, Zenon DEF TypeInv, Shape, _batch_eligible
    <3>4. CASE pc = "execute" /\ UNCHANGED calls
      BY <3>4, <1>2, Zenon DEF GateInv
    <3> QED BY <1>1, <2>2, <3>1, <3>2, <3>3, <3>4, Zenon DEF Frame
  <2> QED BY <2>1, <2>2, Zenon
<1>4. ApprovalGate'
  <2>1. effects \in Seq([call : Calls, seq : Nat])
    BY Zenon DEF TypeInv, TypeOK
  <2>2. CASE effects' = effects
    BY <1>2, <2>1, <2>2, Zenon DEF GateInv, ApprovalGate
  <2>3. CASE ToolRun /\ effects' # effects
    <3>1. /\ pc = "intent"
          /\ effects' = Append(effects, [call |-> Head(calls), seq |-> Len(journal)])
      BY <2>3, Zenon DEF ToolRun, Next_call, Seq_tail
    <3> QED BY <1>2, <2>1, <3>1, SMTT(90) DEF GateInv, ApprovalGate
  <2>4. CASE BatchRun
    <3>1. PICK k \in 1..Len(pre) : effects' = Append(effects, [call |-> calls[k], seq |-> 0])
      BY <2>4, Zenon DEF BatchRun
    <3>2. calls[k] \notin Gated
      BY Zenon DEF TypeInv, Shape, _batch_eligible
    <3> QED BY <1>2, <2>1, <3>1, <3>2, SMTT(90) DEF GateInv, ApprovalGate
  <2> QED BY <1>1, <2>2, <2>3, <2>4, Zenon DEF Frame
<1> QED BY <1>3, <1>4, Zenon DEF GateInv

-----------------------------------------------------------------------------
\* The inductive invariant.
IInv == TypeInv /\ TailShape /\ EffectsInv /\ GateInv

\* A session that create_session has just made satisfies the invariant.
LEMMA IInvInit == Init => IInv
<1> SUFFICES ASSUME Init
             PROVE  IInv
  BY Zenon
<1> USE KernelAssumption DEF Init
<1>1. cancelled \in BOOLEAN /\ unrecovered \in BOOLEAN
  BY ZenonT(90)
<1>2. TypeOK
  <2>1. pc \in PCs /\ result \in Results /\ deciding = NoDecision /\ out = NoOut /\ pc = "idle"
    BY Zenon DEF PCs, Results
  <2>2. approvals \in [Gated -> {"none", "approved", "denied"}]
    BY Zenon
  <2>3. /\ journal = <<>> /\ messages = <<>> /\ ledger = <<>> /\ calls = <<>> /\ pre = <<>> /\ effects = <<>>
        /\ tool_results = {} /\ session_status = "open"
        /\ iteration = 0 /\ attempt = 0 /\ skipped = 0 /\ entries = 0 /\ decisions = 0 /\ crashes = 0
    BY Zenon
  <2> HIDE DEF Init
  <2> QED BY <1>1, <2>1, <2>2, <2>3, SMTT(90) DEF TypeOK
<1>3. Shape
  BY SMTT(90) DEF Shape, Handling
<1>4. TailShape
  BY Zenon DEF TailShape, NothingDangles, Tail_state
<1>5. EffectsInv /\ GateInv
  BY DEF EffectsInv, Backed, AtMostOncePerIntent, GateInv, ApprovalGate
<1> QED BY <1>2, <1>3, <1>4, <1>5, Zenon DEF IInv, TypeInv

\* The inductive invariant holds throughout, whatever crashes and returns.
LEMMA Invariance == Spec => []IInv
<1>1. IInv /\ [Next]_vars => IInv'
  BY TypeInvStep, TailStep, EffectsStep, GateStep, Zenon DEF IInv
<1> QED BY IInvInit, <1>1, PTL DEF Spec

\* The variables of the kernel and its store keep their types.
THEOREM TypeCorrect == Spec => []TypeOK
<1>1. IInv => TypeOK
  BY Zenon DEF IInv, TypeInv
<1> QED BY Invariance, <1>1, PTL

\* No crash, recovery, resume or cancellation makes the kernel run the tool
\* of one EXEC_INTENT row twice.
THEOREM NoIntentRunsTwice == Spec => []AtMostOncePerIntent
<1>1. IInv => AtMostOncePerIntent
  BY Zenon DEF IInv, EffectsInv
<1> QED BY Invariance, <1>1, PTL

\* A tool with side effects runs only after its EXEC_INTENT row is written.
THEOREM SideEffectsAreJournaledFirst == Spec => []WriteAhead
<1>1. IInv => EffectsInv /\ journal \in Seq(Rows)
  BY Zenon DEF IInv, TypeInv, TypeOK
<1>2. EffectsInv /\ journal \in Seq(Rows) => WriteAhead
  <2> SUFFICES ASSUME EffectsInv, journal \in Seq(Rows), NEW i \in DOMAIN effects,
                      effects[i].call \notin Idempotent
               PROVE  /\ effects[i].seq \in DOMAIN journal
                      /\ journal[effects[i].seq].state = "EXEC_INTENT"
                      /\ journal[effects[i].seq].call = effects[i].call
    BY Zenon DEF WriteAhead
  <2>1. effects[i].seq # 0
    BY Zenon DEF EffectsInv, Backed, _batch_eligible
  <2>2. DOMAIN journal = 1..Len(journal)
    OBVIOUS
  <2> QED BY <2>1, <2>2, Zenon DEF EffectsInv, Backed
<1>3. IInv => WriteAhead
  BY <1>1, <1>2, Zenon
<1> QED BY Invariance, <1>3, PTL

\* A gated tool has run only if its approval stands.
THEOREM GatedRunsAreApproved == Spec => []ApprovalGate
<1>1. IInv => ApprovalGate
  BY Zenon DEF IInv, GateInv
<1> QED BY Invariance, <1>1, PTL

\* A process that has not died since the last recover() leaves no dangling
\* intent when a call of the kernel returns.
THEOREM ReturnsSettled == Spec => []NothingDangles
<1>1. IInv => NothingDangles
  BY Zenon DEF IInv, TailShape
<1> QED BY Invariance, <1>1, PTL

-----------------------------------------------------------------------------
(***************************************************************************)
(* Proof that Kernel implements ExecLog, for every set of calls, every     *)
(* bound and every number of crashes: each step of the kernel, the store   *)
(* and the outside world is a step of the log of intents, or leaves it as  *)
(* it is.                                                                  *)
(***************************************************************************)
\* Where no intent is open.
Settled == {"responded", "decide", "exec", "batch", "execute", "done", "error", "fold"}

\* What a step may do to the variables the log depends on.
StoreFrame ==
  /\ tool_results' = tool_results \/ PutResult
  /\ \/ journal' = journal \/ ExecIntent \/ ExecDone \/ Recover
     \/ \E s \in {"ASSEMBLE", "MODEL_CALL_INTENT", "MODEL_CALL_DONE", "FINALIZE", "STOPPED",
                  "CANCELLED", "AWAITING_APPROVAL"} :
          \E c, r, cs, next : journal_append(s, c, r, cs, next)
  /\ pc' = "put" => PutResult \/ ToolRun \/ (pc = "put" /\ journal' = journal)
  /\ pc' = "ran" => ToolRun \/ UsePrecomputed \/ (pc = "ran" /\ UNCHANGED <<journal, pre>>)
  /\ pc' \in Settled => ModelDone \/ ExecDone \/ Resume \/ (pc \in Settled /\ journal' = journal)
  /\ UNCHANGED <<pre, calls>> \/ BatchStart \/ BatchRun \/ _add_tool_msg \/ pc' \notin Handling
  /\ pc = "batch" => pc' = "batch" \/ BatchJoin \/ Crash

\* Every step keeps within StoreFrame: who may touch journal and results.
LEMMA StoreFrameStep == [Next]_vars => StoreFrame
<1> SUFFICES ASSUME [Next]_vars
             PROVE  StoreFrame
  BY Zenon
<1>1. CASE Assemble
  BY <1>1, Zenon DEF Assemble, StoreFrame, Settled, Handling, store, execvars, others, env, journal_append
<1>2. CASE LoopGuard
  BY <1>2, Zenon DEF LoopGuard, StoreFrame, Settled, Handling, store, execvars, others, env, _stop, journal_append
<1>3. CASE ModelIntent
  BY <1>3, Zenon DEF ModelIntent, StoreFrame, Settled, Handling, store, execvars, others, env, journal_append
<1>4. CASE ModelRetry
  BY <1>4, Zenon DEF ModelRetry, StoreFrame, Settled, Handling, store, execvars, others, env, ledger_append
<1>5. CASE ModelError
  BY <1>5, Zenon DEF ModelError, StoreFrame, Settled, Handling, store, execvars, others, env, ledger_append
<1>6. CASE ModelErrorStop
  BY <1>6, Zenon DEF ModelErrorStop, StoreFrame, Settled, Handling, store, execvars, others, env, _stop, journal_append
<1>7. CASE ModelDone
  BY <1>7, Zenon DEF ModelDone, StoreFrame, Settled, Handling, store, execvars, others, env, journal_append
<1>8. CASE LedgerModelCall
  BY <1>8, Zenon DEF LedgerModelCall, StoreFrame, Settled, Handling, store, execvars, others, env, ledger_append
<1>9. CASE TokenBudget
  BY <1>9, Zenon DEF TokenBudget, StoreFrame, Settled, Handling, store, execvars, others, env, _stop, journal_append
<1>10. CASE FinalizeRefused
  BY <1>10, Zenon DEF FinalizeRefused, StoreFrame, Settled, Handling, store, execvars, others, env, add_message
<1>11. CASE LedgerRefused
  BY <1>11, Zenon DEF LedgerRefused, StoreFrame, Settled, Handling, store, execvars, others, env, ledger_append
<1>12. CASE AnswerMessage
  BY <1>12, Zenon DEF AnswerMessage, StoreFrame, Settled, Handling, store, execvars, others, env, add_message
<1>13. CASE Finalize
  BY <1>13, Zenon DEF Finalize, StoreFrame, Settled, Handling, store, execvars, others, env, journal_append
<1>14. CASE LedgerFinalize
  BY <1>14, Zenon DEF LedgerFinalize, StoreFrame, Settled, Handling, store, execvars, others, env, ledger_append
<1>15. CASE CycleCheck
  BY <1>15, Zenon DEF CycleCheck, StoreFrame, Settled, Handling, store, execvars, others, env, add_message, _stop, journal_append
<1>16. CASE EndStop
  BY <1>16, Zenon DEF EndStop, StoreFrame, Settled, Handling, store, execvars, others, env, ledger_append
<1>17. CASE ExecReturn
  BY <1>17, Zenon DEF ExecReturn, StoreFrame, Settled, Handling, store, execvars, others, env
<1>18. CASE ExecCancelled
  BY <1>18, Zenon DEF ExecCancelled, StoreFrame, Settled, Handling, store, execvars, others, env, journal_append
<1>19. CASE BatchStart
  BY <1>19, Zenon DEF BatchStart, StoreFrame, Settled, Handling, store, execvars, others, env
<1>20. CASE BatchRun
  <2>1. pc = "batch" /\ UNCHANGED <<pc, journal, tool_results>>
    BY <1>20, Zenon DEF BatchRun, store
  <2> QED BY <1>20, <2>1, Zenon DEF StoreFrame, Settled
<1>21. CASE BatchJoin
  BY <1>21, Zenon DEF BatchJoin, StoreFrame, Settled, Handling, store, execvars, others, env
<1>22. CASE AwaitApproval
  BY <1>22, Zenon DEF AwaitApproval, StoreFrame, Settled, Handling, store, execvars, others, env, journal_append, Sequential
<1>23. CASE LedgerGate
  BY <1>23, Zenon DEF LedgerGate, StoreFrame, Settled, Handling, store, execvars, others, env, ledger_append
<1>24. CASE GateDenied
  BY <1>24, Zenon DEF GateDenied, StoreFrame, Settled, Handling, store, execvars, others, env, ledger_append, Sequential
<1>25. CASE GateApproved
  BY <1>25, Zenon DEF GateApproved, StoreFrame, Settled, Handling, store, execvars, others, env, ledger_append, Sequential
<1>26. CASE CapDenied
  BY <1>26, Zenon DEF CapDenied, AtExecute, Sequential, StoreFrame, Settled, Handling, store, execvars, others, env, ledger_append
<1>27. CASE ExecIntent
  BY <1>27, Zenon DEF ExecIntent, StoreFrame, Settled, Handling, store, execvars, others, env, journal_append, AtExecute, Next_call, Sequential
<1>28. CASE ToolRun
  BY <1>28, Zenon DEF ToolRun, StoreFrame, Settled, Handling, store, execvars, others, env
<1>29. CASE UsePrecomputed
  BY <1>29, Zenon DEF UsePrecomputed, StoreFrame, Settled, Handling, store, execvars, others, env
<1>30. CASE PutResult
  BY <1>30, Zenon DEF PutResult, StoreFrame, Settled, Handling, store, execvars, others, env
<1>31. CASE ExecDone
  BY <1>31, Zenon DEF ExecDone, StoreFrame, Settled, Handling, store, execvars, others, env, journal_append
<1>32. CASE LedgerExec
  BY <1>32, Zenon DEF LedgerExec, StoreFrame, Settled, Handling, store, execvars, others, env, ledger_append
<1>33. CASE _ledger_tool_error
  BY <1>33, Zenon DEF _ledger_tool_error, StoreFrame, Settled, Handling, store, execvars, others, env, ledger_append
<1>34. CASE _add_tool_msg
  BY <1>34, Zenon DEF _add_tool_msg, StoreFrame, Settled, Handling, store, execvars, others, env, add_message
<1>35. CASE Quarantine
  BY <1>35, Zenon DEF Quarantine, StoreFrame, Settled, Handling, store, execvars, others, env
<1>36. CASE Run
  BY <1>36, Zenon DEF Run, StoreFrame, Settled, Handling, store, execvars, others, env, add_message, Enter
<1>37. CASE Resume
  BY <1>37, Zenon DEF Resume, StoreFrame, Settled, Handling, store, execvars, others, env, Enter
<1>38. CASE Recover
  BY <1>38, Zenon DEF Recover, StoreFrame, Settled, Handling, store, execvars, others, env, Settle, journal_append
<1>39. CASE Decide
  BY <1>39, Zenon DEF Decide, StoreFrame, Settled, Handling, store, execvars, others, env
<1>40. CASE LedgerDecision
  BY <1>40, Zenon DEF LedgerDecision, StoreFrame, Settled, Handling, store, execvars, others, env, ledger_append
<1>41. CASE Cancel
  BY <1>41, Zenon DEF Cancel, StoreFrame, Settled, Handling, store, execvars, others, env
<1>42. CASE Crash
  BY <1>42, Zenon DEF Crash, StoreFrame, Settled, Handling, store, execvars, others, env
<1>43. CASE UNCHANGED vars
  BY <1>43, ZenonT(60) DEF vars, StoreFrame, Settled, Handling, store, execvars, others, env
<1>44. CASE LoopStep
  BY <1>44, <1>1, <1>2, <1>3, <1>4, <1>5, <1>6, <1>7, <1>8, <1>9, <1>10, <1>11, <1>12, <1>13, <1>14, <1>15, <1>16, Zenon DEF LoopStep
<1>45. CASE ExecStep
  BY <1>45, <1>17, <1>18, <1>19, <1>20, <1>21, <1>22, <1>23, <1>24, <1>25, <1>26, <1>27, <1>28, <1>29, <1>30, <1>31, <1>32, <1>33, <1>34, Zenon DEF ExecStep
<1> QED
  BY <1>35, <1>36, <1>37, <1>38, <1>39, <1>40, <1>41, <1>42, <1>43, <1>44, <1>45, Zenon DEF Next, Step

-----------------------------------------------------------------------------
\* Results are stored under rows of the journal; a call past its run has
\* its effect, or its result from a batch; past PutResult, its result.
StoreInv ==
  /\ \A r \in tool_results : r.key \in 1..Len(journal)
  /\ pc \in Settled => Tail_state # "EXEC_INTENT"
  /\ pc = "put" => tool_result_get(Len(journal))
  /\ pc = "ran" /\ pre = <<>> => \E i \in DOMAIN effects : effects[i].seq = Len(journal)

\* Effects and results stay.
LEMMA Monotone ==
  ASSUME TypeInv, Frame, StoreFrame
  PROVE  /\ \A i \in DOMAIN effects : i \in DOMAIN effects' /\ effects'[i] = effects[i]
         /\ tool_results \subseteq tool_results'
<1>1. effects \in Seq([call : Calls, seq : Nat])
  BY Zenon DEF TypeInv, TypeOK
<1>2. effects' = effects \/ \E e : effects' = Append(effects, e)
  BY Zenon DEF Frame, ToolRun, BatchRun
<1>3. \A i \in DOMAIN effects : i \in DOMAIN effects' /\ effects'[i] = effects[i]
  BY <1>1, <1>2, SMTT(90)
<1>4. tool_results \subseteq tool_results'
  BY Zenon DEF StoreFrame, PutResult, tool_result_put
<1> QED BY <1>3, <1>4, Zenon

\* Every step keeps what each pc says of the last intent and its result.
LEMMA StoreStep == IInv /\ StoreInv /\ [Next]_vars => StoreInv'
<1> SUFFICES ASSUME IInv, StoreInv, [Next]_vars
             PROVE  StoreInv'
  BY Zenon
<1>1. Frame /\ StoreFrame /\ TypeInv /\ TailShape
  BY FrameStep, StoreFrameStep, Zenon DEF IInv
<1>2. /\ Len(journal) \in Nat /\ Len(journal') \in Nat /\ Len(journal) <= Len(journal')
      /\ \A n \in 1..Len(journal) : journal'[n] = journal[n]
  BY <1>1, Prefix, Zenon
<1>3. \A r \in tool_results' : r.key \in 1..Len(journal')
  <2>1. CASE tool_results' = tool_results
    BY <1>2, <2>1 DEF StoreInv
  <2>2. CASE PutResult
    <3>1. pc = "ran" /\ journal' = journal /\ Len(journal) \in 1..Len(journal)
      BY <2>2, <1>1, LastRow DEF PutResult, TailShape, TypeInv, TypeOK
    <3>2. \A r \in tool_results' : r \in tool_results \/ r.key = Len(journal)
      BY <2>2 DEF PutResult, tool_result_put, Seq_tail
    <3> QED BY <3>1, <3>2, Zenon DEF StoreInv
  <2> QED BY <1>1, <2>1, <2>2, Zenon DEF StoreFrame
<1>4. pc' \in Settled => Tail_state' # "EXEC_INTENT"
  <2>1. CASE ModelDone
    BY <2>1, <1>1, AppendedTail, SMTT(60) DEF ModelDone, TypeInv, TypeOK
  <2>2. CASE ExecDone
    BY <2>2, <1>1, AppendedTail DEF ExecDone, TypeInv, TypeOK
  <2>3. CASE Resume
    <3>1. journal' = journal /\ (Tail_state = "AWAITING_APPROVAL" \/ pc' = "idle")
      BY <2>3, Zenon DEF Resume, Enter, store
    <3> QED BY <3>1, Zenon DEF Tail_state, Seq_tail, Settled
  <2>4. CASE pc \in Settled /\ journal' = journal
    BY <2>4, Zenon DEF StoreInv, Tail_state, Seq_tail
  <2> QED BY <1>1, <2>1, <2>2, <2>3, <2>4, Zenon DEF StoreFrame
<1>5. pc' = "put" => tool_result_get(Len(journal))' /\ journal' = journal
  <2>1. CASE PutResult
    <3>1. \E r \in tool_results' : r.key = Len(journal)
      <4>1. CASE tool_result_get(Len(journal))
        BY <2>1, <4>1, Zenon DEF PutResult, tool_result_put, tool_result_get, Seq_tail
      <4>2. CASE ~tool_result_get(Len(journal))
        <5>1. [key |-> Len(journal), out |-> out] \in tool_results'
          BY <2>1, <4>2, Zenon DEF PutResult, tool_result_put, Seq_tail
        <5> QED BY <5>1, Zenon
      <4> QED BY <4>1, <4>2, Zenon
    <3> QED BY <2>1, <3>1, Zenon DEF PutResult, tool_result_get
  <2>2. CASE ToolRun /\ pc' = "put"
    <3>1. tool_result_get(Len(journal))
      BY <2>2, Zenon DEF ToolRun, Seq_tail
    <3>2. tool_results' = tool_results /\ journal' = journal
      BY <2>2, Zenon DEF ToolRun, store
    <3> QED BY <3>1, <3>2, Zenon DEF tool_result_get
  <2>3. CASE pc = "put" /\ journal' = journal
    BY <2>3, <1>1, Monotone, Zenon DEF StoreInv, tool_result_get
  <2> QED BY <1>1, <2>1, <2>2, <2>3, Zenon DEF StoreFrame
<1>6. pc' = "ran" /\ pre' = <<>> => \E i \in DOMAIN effects' : effects'[i].seq = Len(journal')
  <2>1. CASE ToolRun /\ pc' = "ran"
    <3>1. journal' = journal /\ effects' = Append(effects, [call |-> Head(calls), seq |-> Len(journal)])
      BY <2>1, Zenon DEF ToolRun, Next_call, Seq_tail, store
    <3>2. effects \in Seq([call : Calls, seq : Nat])
      BY <1>1, Zenon DEF TypeInv, TypeOK
    <3>3. Len(effects) + 1 \in DOMAIN effects' /\ effects'[Len(effects) + 1] = [call |-> Head(calls), seq |-> Len(journal)]
      BY <3>1, <3>2
    <3> QED BY <3>1, <3>3
  <2>2. CASE UsePrecomputed
    BY <2>2, Zenon DEF UsePrecomputed
  <2>3. CASE pc = "ran" /\ UNCHANGED <<journal, pre>>
    BY <2>3, <1>1, Monotone, Zenon DEF StoreInv
  <2> QED BY <1>1, <2>1, <2>2, <2>3, Zenon DEF StoreFrame
<1> QED BY <1>3, <1>4, <1>5, <1>6, Zenon DEF StoreInv, tool_result_get

-----------------------------------------------------------------------------
\* Rows that are intents.
IntentRows == {m \in DOMAIN journal : journal[m].state = "EXEC_INTENT"}

\* A step that writes no row and changes neither the results nor the runs of
\* an intent leaves the log as it is.
LEMMA SameLog ==
  ASSUME journal' = journal,
         \A n \in DOMAIN journal : tool_result_get(n)' = tool_result_get(n) /\ HasRun(n)' = HasRun(n)
  PROVE  IntentLog' = IntentLog
<1>1. \A n \in DOMAIN journal : Fate(n)' = Fate(n)
  BY Zenon DEF Fate
<1> QED BY <1>1, Zenon DEF IntentLog

\* A step that appends a row that is no intent changes the fate of the
\* journal's last row, if that is an intent.
LEMMA SettledLog ==
  ASSUME journal \in Seq(Rows), UNCHANGED <<tool_results, effects>>,
         NEW s, NEW c, NEW r, NEW cs, NEW next, journal_append(s, c, r, cs, next), s # "EXEC_INTENT"
  PROVE  LET t == Len(journal)
             fate == CASE s = "EXEC_DONE" -> "done"
                       [] s = "RECOVERED" -> "reissue"
                       [] s = "FAILED_NEEDS_REVIEW" -> "review"
                       [] OTHER -> "buried"
         IN  IF Tail_state = "EXEC_INTENT"
             THEN t \in DOMAIN IntentLog /\ IntentLog' = [IntentLog EXCEPT ![t].fate = fate]
             ELSE IntentLog' = IntentLog
<1>0. PICK t : t = Len(journal)
  BY Zenon
<1> DEFINE fate ==
               CASE s = "EXEC_DONE" -> "done"
                 [] s = "RECOVERED" -> "reissue"
                 [] s = "FAILED_NEEDS_REVIEW" -> "review"
                 [] OTHER -> "buried"
<1>1. /\ journal' = Append(journal, JournalRow(s, c, r, cs)) /\ t \in Nat
      /\ DOMAIN journal = 1..t /\ DOMAIN journal' = 1..(t + 1) /\ Len(journal') = t + 1
      /\ \A n \in 1..t : journal'[n] = journal[n]
      /\ journal'[t + 1].state = s
  BY <1>0 DEF journal_append, JournalRow
<1>2. IntentRows' = IntentRows
  BY <1>1 DEF IntentRows
<1>3. \A n : tool_result_get(n)' = tool_result_get(n) /\ HasRun(n)' = HasRun(n)
  BY Zenon DEF tool_result_get, HasRun
<1>4. \A n \in IntentRows : journal'[n].call = journal[n].call
  BY <1>1, Zenon DEF IntentRows
<1>5. \A n \in IntentRows : n # t => Fate(n)' = Fate(n)
  BY <1>1 DEF IntentRows, Fate
<1>6. t \in IntentRows => Fate(t)' = fate
  BY <1>1, Zenon DEF IntentRows, Fate
<1>7. Tail_state = "EXEC_INTENT" <=> t \in IntentRows
  BY <1>0, <1>1, SMTT(90) DEF IntentRows, Tail_state, Seq_tail
<1>8. /\ IntentLog = [n \in IntentRows |-> [call |-> journal[n].call, fate |-> Fate(n),
                        ran |-> HasRun(n), kept |-> tool_result_get(n)]]
      /\ IntentLog' = [n \in IntentRows |-> [call |-> journal[n].call, fate |-> Fate(n)',
                        ran |-> HasRun(n), kept |-> tool_result_get(n)]]
  BY <1>2, <1>3, <1>4, Zenon DEF IntentLog, IntentRows
<1> HIDE DEF fate
<1>9. t \in IntentRows => t \in DOMAIN IntentLog /\ IntentLog' = [IntentLog EXCEPT ![t].fate = fate]
  BY <1>5, <1>6, <1>8, Zenon
<1>10. t \notin IntentRows => IntentLog' = IntentLog
  BY <1>5, <1>8, Zenon
<1> QED BY <1>0, <1>7, <1>9, <1>10, Zenon DEF fate

\* The entry of an intent, and that the last row, if it is one, is open.
LEMMA Entry ==
  ASSUME journal \in Seq(Rows), NEW n \in IntentRows
  PROVE  /\ n \in DOMAIN IntentLog /\ IntentLog[n].call = journal[n].call
         /\ IntentLog[n].fate = Fate(n)
         /\ IntentLog[n].ran = HasRun(n) /\ IntentLog[n].kept = tool_result_get(n)
         /\ n \in 1..Len(journal) /\ (n = Len(journal) <=> IntentLog[n].fate = "open")
<1>1. /\ n \in DOMAIN IntentLog /\ IntentLog[n].call = journal[n].call
      /\ IntentLog[n].fate = Fate(n)
      /\ IntentLog[n].ran = HasRun(n) /\ IntentLog[n].kept = tool_result_get(n)
  BY Zenon DEF IntentLog, IntentRows
<1>2. n \in 1..Len(journal)
  BY DEF IntentRows
<1>3. n = Len(journal) <=> Fate(n) = "open"
  BY Zenon DEF Fate
<1> QED BY <1>1, <1>2, <1>3, Zenon

\* ExecIntent declares an intent.
LEMMA DeclaredLog ==
  ASSUME journal \in Seq(Rows), UNCHANGED <<tool_results, effects>>,
         NEW c \in Calls, NEW next, journal_append("EXEC_INTENT", c, 0, <<>>, next),
         Tail_state # "EXEC_INTENT",
         \A r \in tool_results : r.key \in 1..Len(journal),
         \A i \in DOMAIN effects : effects[i].seq \in 0..Len(journal)
  PROVE  Abstract!Next
<1>0. PICK t : t = Len(journal)
  BY Zenon
<1>1. /\ journal' = Append(journal, JournalRow("EXEC_INTENT", c, 0, <<>>)) /\ t \in Nat
      /\ DOMAIN journal = 1..t /\ DOMAIN journal' = 1..(t + 1) /\ Len(journal') = t + 1
      /\ \A n \in 1..t : journal'[n] = journal[n]
      /\ journal'[t + 1].state = "EXEC_INTENT" /\ journal'[t + 1].call = c
  BY <1>0, SMTT(60) DEF journal_append, JournalRow
<1>2. IntentRows' = IntentRows \cup {t + 1} /\ IntentRows \subseteq 1..t
  BY <1>1, SMTT(60) DEF IntentRows
<1>3. t \notin IntentRows
  BY <1>0, <1>1 DEF IntentRows, Tail_state, Seq_tail
<1>4. \A n : tool_result_get(n)' = tool_result_get(n) /\ HasRun(n)' = HasRun(n)
  BY Zenon DEF tool_result_get, HasRun
<1>5. \A n \in IntentRows : Fate(n)' = Fate(n) /\ Fate(n) # "open"
  BY <1>0, <1>1, <1>2, <1>3, SMTT(60) DEF Fate
<1>6. Fate(t + 1)' = "open" /\ ~HasRun(t + 1) /\ ~tool_result_get(t + 1)
  BY <1>0, <1>1, SMTT(90) DEF Fate, HasRun, tool_result_get
<1>7. /\ IntentLog = [n \in IntentRows |-> [call |-> journal[n].call, fate |-> Fate(n),
                        ran |-> HasRun(n), kept |-> tool_result_get(n)]]
      /\ IntentLog' = [n \in IntentRows \cup {t + 1} |-> [call |-> journal'[n].call, fate |-> Fate(n)',
                        ran |-> HasRun(n), kept |-> tool_result_get(n)]]
  BY <1>2, <1>4, Zenon DEF IntentLog, IntentRows
<1>8. /\ DOMAIN IntentLog = IntentRows /\ t + 1 \notin IntentRows
      /\ \A m \in IntentRows : m < t + 1 /\ IntentLog[m].fate # "open"
  <2>1. DOMAIN IntentLog = IntentRows
    BY <1>7, Zenon
  <2>2. t + 1 \notin IntentRows /\ \A m \in IntentRows : m < t + 1
    BY <1>1, <1>2
  <2>3. ASSUME NEW m \in IntentRows PROVE IntentLog[m].fate # "open"
    <3>1. IntentLog[m].fate = Fate(m)
      BY Entry, Zenon
    <3> QED BY <1>5, <3>1, Zenon
  <2> QED BY <2>1, <2>2, <2>3, Zenon
<1>9. IntentLog' = [m \in DOMAIN IntentLog \cup {t + 1} |->
                      IF m = t + 1 THEN [call |-> c, fate |-> "open", ran |-> FALSE, kept |-> FALSE]
                      ELSE IntentLog[m]]
  <2>1. \A n \in IntentRows : IntentLog'[n] = IntentLog[n]
    <3> SUFFICES ASSUME NEW n \in IntentRows
                 PROVE  IntentLog'[n] = IntentLog[n]
      BY Zenon
    <3>1. journal'[n] = journal[n] /\ Fate(n)' = Fate(n)
      BY <1>1, <1>2, <1>5, Zenon
    <3> QED BY <1>7, <3>1, Zenon
  <2>2. IntentLog'[t + 1] = [call |-> c, fate |-> "open", ran |-> FALSE, kept |-> FALSE]
    <3>1. HasRun(t + 1) = FALSE /\ tool_result_get(t + 1) = FALSE
      BY <1>6, SMTT(90)
    <3> QED BY <1>1, <1>6, <1>7, <3>1, ZenonT(90)
  <2>3. IntentLog' = [n \in IntentRows \cup {t + 1} |-> IntentLog'[n]]
    BY <1>7, Zenon
  <2> QED BY <1>8, <2>1, <2>2, <2>3, Zenon
<1>10. Abstract!Declare(t + 1, c) /\ t + 1 \in DOMAIN IntentLog'
  BY <1>8, <1>9, Zenon DEF Abstract!Declare, Abstract!Open
<1> QED BY <1>10, Zenon DEF Abstract!Next

\* ToolRun performs the open intent.
LEMMA PerformedLog ==
  ASSUME journal \in Seq(Rows), UNCHANGED <<journal, tool_results>>, Tail_state = "EXEC_INTENT",
         effects \in Seq([call : Calls, seq : Nat]), NEW c,
         effects' = Append(effects, [call |-> c, seq |-> Len(journal)]),
         ~HasRun(Len(journal))
  PROVE  Abstract!Next
<1>0. PICK t : t = Len(journal)
  BY Zenon
<1>1. t \in IntentRows /\ IntentRows' = IntentRows /\ IntentRows \subseteq DOMAIN journal
  BY <1>0 DEF IntentRows, Tail_state, Seq_tail
<1>2. \A n : tool_result_get(n)' = tool_result_get(n)
  BY Zenon DEF tool_result_get
<1>3. \A n : n # t => HasRun(n)' = HasRun(n)
  <2> SUFFICES ASSUME NEW n, n # t
               PROVE  HasRun(n)' <=> HasRun(n)
    BY Zenon DEF HasRun, tool_result_get
  <2>1. (\E i \in DOMAIN effects' : effects'[i].seq = n) <=> (\E i \in DOMAIN effects : effects[i].seq = n)
    <3>1. /\ DOMAIN effects = 1..Len(effects) /\ DOMAIN effects' = 1..(Len(effects) + 1)
          /\ Len(effects) \in Nat /\ \A i \in 1..Len(effects) : effects'[i] = effects[i]
          /\ effects'[Len(effects) + 1].seq = t
      BY <1>0
    <3> QED BY <3>1, SMTT(60)
  <2> QED BY <1>2, <2>1, Zenon DEF HasRun
<1>4. HasRun(t)'
  <2>1. Len(effects) + 1 \in DOMAIN effects' /\ effects'[Len(effects) + 1].seq = t
    BY <1>0
  <2> QED BY <2>1, Zenon DEF HasRun
<1>5. \A n : Fate(n)' = Fate(n)
  BY Zenon DEF Fate
<1>6. /\ IntentLog = [n \in IntentRows |-> [call |-> journal[n].call, fate |-> Fate(n),
                        ran |-> HasRun(n), kept |-> tool_result_get(n)]]
      /\ IntentLog' = [n \in IntentRows |-> [call |-> journal[n].call, fate |-> Fate(n),
                        ran |-> HasRun(n)', kept |-> tool_result_get(n)]]
  BY <1>1, <1>2, <1>5, Zenon DEF IntentLog, IntentRows
<1>7. IntentLog' = [IntentLog EXCEPT ![t].ran = TRUE]
  <2>1. HasRun(t)' = TRUE
    BY <1>4, Zenon DEF HasRun
  <2> QED BY <1>1, <1>3, <1>6, <2>1, Zenon
<1>8. Abstract!Perform(t)
  BY <1>0, <1>1, <1>7, Entry, Zenon DEF Abstract!Perform, Abstract!Open
<1> QED BY <1>0, <1>1, <1>8, Entry, Zenon DEF Abstract!Next

\* PutResult keeps the open intent's result.
LEMMA KeptLog ==
  ASSUME journal \in Seq(Rows), UNCHANGED <<journal, effects>>, Tail_state = "EXEC_INTENT", NEW o,
         tool_results' = tool_results \cup {[key |-> Len(journal), out |-> o]},
         ~tool_result_get(Len(journal)),
         HasRun(Len(journal)) \/ journal[Len(journal)].call \in Idempotent
  PROVE  Abstract!Next
<1>0. PICK t : t = Len(journal)
  BY Zenon
<1>1. t \in IntentRows /\ IntentRows' = IntentRows
  BY <1>0 DEF IntentRows, Tail_state, Seq_tail
<1>2. \A n : n # t => tool_result_get(n)' = tool_result_get(n) /\ HasRun(n)' = HasRun(n)
  BY <1>0 DEF tool_result_get, HasRun
<1>3. tool_result_get(t)' = TRUE /\ HasRun(t)' = TRUE
  <2>1. [key |-> t, out |-> o] \in tool_results'
    BY <1>0, Zenon
  <2>2. tool_result_get(t)'
    BY <2>1, Zenon DEF tool_result_get
  <2> QED BY <2>2, Zenon DEF HasRun, tool_result_get
<1>4. \A n : Fate(n)' = Fate(n)
  BY Zenon DEF Fate
<1>5. /\ IntentLog = [n \in IntentRows |-> [call |-> journal[n].call, fate |-> Fate(n),
                        ran |-> HasRun(n), kept |-> tool_result_get(n)]]
      /\ IntentLog' = [n \in IntentRows |-> [call |-> journal[n].call, fate |-> Fate(n),
                        ran |-> HasRun(n)', kept |-> tool_result_get(n)']]
  BY <1>1, <1>4, Zenon DEF IntentLog, IntentRows
<1>6. IntentLog' = [IntentLog EXCEPT ![t].ran = TRUE, ![t].kept = TRUE]
  BY <1>1, <1>2, <1>3, <1>5, Zenon
<1>7. Abstract!Keep(t)
  BY <1>0, <1>1, <1>6, Entry, Zenon DEF Abstract!Keep, Abstract!Open
<1> QED BY <1>0, <1>1, <1>7, Entry, Zenon DEF Abstract!Next

\* Each step of the kernel is a step of the log, or leaves it as it is.
LEMMA LogStep == IInv /\ StoreInv /\ [Next]_vars => [Abstract!Next]_IntentLog
<1> SUFFICES ASSUME IInv, StoreInv, [Next]_vars, IntentLog' # IntentLog
             PROVE  Abstract!Next
  BY Zenon
<1>1. Frame /\ StoreFrame /\ TypeInv /\ TailShape /\ EffectsInv
  BY FrameStep, StoreFrameStep, Zenon DEF IInv
<1>2. /\ journal \in Seq(Rows) /\ effects \in Seq([call : Calls, seq : Nat]) /\ calls \in Seq(Calls)
      /\ Len(journal) \in Nat
  BY <1>1, SMTT(90) DEF TypeInv, TypeOK
<1>3. ASSUME NEW s, NEW c, NEW r, NEW cs, NEW next, journal_append(s, c, r, cs, next)
      PROVE  UNCHANGED <<tool_results, effects>>
  <2>1. journal' # journal /\ tool_results' = tool_results
    BY <1>2, <1>3 DEF journal_append
  <2> QED BY <1>1, <2>1, Zenon DEF Frame, ToolRun, BatchRun, store
<1>4. ASSUME NEW s, NEW c, NEW r, NEW cs, NEW next, journal_append(s, c, r, cs, next), s # "EXEC_INTENT",
             \/ s = "EXEC_DONE" /\ tool_result_get(Len(journal))
             \/ s = "RECOVERED" /\ (Tail_state = "EXEC_INTENT" =>
                    ~tool_result_get(Len(journal)) /\ journal[Len(journal)].call \in Idempotent)
             \/ /\ s = "FAILED_NEEDS_REVIEW"
                /\ ~tool_result_get(Len(journal)) /\ journal[Len(journal)].call \notin Idempotent
             \/ s \notin {"EXEC_DONE", "RECOVERED", "FAILED_NEEDS_REVIEW"}
      PROVE  Abstract!Next
  <2> DEFINE t == Len(journal)
             fate == CASE s = "EXEC_DONE" -> "done"
                       [] s = "RECOVERED" -> "reissue"
                       [] s = "FAILED_NEEDS_REVIEW" -> "review"
                       [] OTHER -> "buried"
  <2>1. /\ Tail_state = "EXEC_INTENT" /\ t \in DOMAIN IntentLog
        /\ IntentLog' = [IntentLog EXCEPT ![t].fate = fate]
    BY <1>2, <1>3, <1>4, SettledLog, Zenon
  <2>2. t \in IntentRows
    BY <1>2, <2>1, Zenon DEF IntentRows, IntentLog
  <2>3. /\ IntentLog[t].fate = "open" /\ IntentLog[t].call = journal[t].call
        /\ IntentLog[t].kept = tool_result_get(t)
    BY <1>2, <2>2, Entry, Zenon
  <2>4. Abstract!Settle(t, fate) /\ fate \in Abstract!Fates
    BY <1>4, <2>1, <2>3, Zenon DEF Abstract!Settle, Abstract!Open, Abstract!Fates
  <2> QED BY <2>1, <2>4, Zenon DEF Abstract!Next
<1>5. CASE ExecIntent
  <2>1. /\ journal_append("EXEC_INTENT", Head(calls), 0, <<>>, "intent")
        /\ Head(calls) \in Calls /\ pc \in Settled
    BY <1>2, <1>5, KernelAssumption, Zenon DEF ExecIntent, AtExecute, Sequential, Next_call, Settled
  <2>2. \A i \in DOMAIN effects : effects[i].seq \in 0..Len(journal)
    BY <1>1, <1>2 DEF EffectsInv, Backed
  <2> QED BY <1>2, <1>3, <2>1, <2>2, DeclaredLog, Zenon DEF StoreInv
<1>6. CASE ExecDone
  <2>1. journal_append("EXEC_DONE", Head(calls), Len(journal), <<>>, "done") /\ tool_result_get(Len(journal))
    BY <1>6, Zenon DEF ExecDone, Next_call, Seq_tail, StoreInv
  <2> QED BY <1>4, <2>1, Zenon
<1>7. CASE Recover
  <2>1. CASE UNCHANGED store
    BY <1>7, <2>1, SameLog, Zenon DEF Recover, store, tool_result_get, HasRun
  <2>2. CASE Tail_state = "MODEL_CALL_INTENT"
    BY <1>4, <1>7, <2>2, Zenon DEF Recover, Settle
  <2>3. CASE Tail_state = "EXEC_INTENT"
    BY <1>4, <1>7, <2>3, Zenon DEF Recover, Settle, Seq_tail
  <2> QED BY <1>7, <2>1, <2>2, <2>3, Zenon DEF Recover
<1>8. CASE \E s \in {"ASSEMBLE", "MODEL_CALL_INTENT", "MODEL_CALL_DONE", "FINALIZE", "STOPPED",
                     "CANCELLED", "AWAITING_APPROVAL"} :
             \E c, r, cs, next : journal_append(s, c, r, cs, next)
  BY <1>4, <1>8, Zenon
<1>9. CASE journal' = journal
  <2>1. CASE PutResult /\ tool_results' # tool_results
    <3>1. /\ pc = "ran" /\ UNCHANGED <<journal, effects>> /\ ~tool_result_get(Len(journal))
          /\ tool_results' = tool_results \cup {[key |-> Len(journal), out |-> out]}
      BY <2>1, Zenon DEF PutResult, tool_result_put, Seq_tail, others
    <3>2. /\ Tail_state = "EXEC_INTENT" /\ journal # <<>>
          /\ journal[Len(journal)].call = Head(calls)
      BY <1>1, <3>1, Zenon DEF TailShape, Tail_state, Seq_tail
    <3>3. HasRun(Len(journal)) \/ journal[Len(journal)].call \in Idempotent
      <4>1. CASE pre = <<>>
        BY <3>1, <4>1, Zenon DEF StoreInv, HasRun
      <4>2. CASE pre # <<>>
        <5>1. pre \in Seq(Outcomes) /\ Len(pre) <= Len(calls)
          BY <1>1, <3>1, Zenon DEF TypeInv, Shape
        <5>2. 1 \in 1..Len(pre) /\ calls[1] = Head(calls)
          BY <1>2, <4>2, <5>1
        <5>3. _batch_eligible(Head(calls))
          BY <1>1, <5>2, Zenon DEF TypeInv, Shape
        <5> QED BY <3>2, <5>3, Zenon DEF _batch_eligible
      <4> QED BY <4>1, <4>2, Zenon
    <3> QED BY <1>2, <3>1, <3>2, <3>3, KeptLog, ZenonT(90)
  <2>2. CASE tool_results' = tool_results /\ effects' = effects
    BY <1>9, <2>2, SameLog, Zenon DEF tool_result_get, HasRun
  <2>3. CASE tool_results' = tool_results /\ ToolRun /\ effects' # effects
    <3>1. /\ pc = "intent" /\ ~tool_result_get(Len(journal))
          /\ effects' = Append(effects, [call |-> Head(calls), seq |-> Len(journal)])
      BY <2>3, Zenon DEF ToolRun, Next_call, Seq_tail
    <3>2. Tail_state = "EXEC_INTENT"
      BY <1>1, <3>1, Zenon DEF TailShape, Tail_state, Seq_tail
    <3>3. ~HasRun(Len(journal))
      BY <1>1, <3>1, Zenon DEF HasRun, EffectsInv
    <3> QED BY <1>2, <1>9, <2>3, <3>1, <3>2, <3>3, PerformedLog, Zenon
  <2>4. CASE tool_results' = tool_results /\ BatchRun
    <3>1. PICK k \in 1..Len(pre) : effects' = Append(effects, [call |-> calls[k], seq |-> 0])
      BY <2>4, Zenon DEF BatchRun
    <3>2. \A n \in DOMAIN journal : HasRun(n)' = HasRun(n) /\ tool_result_get(n)' = tool_result_get(n)
      <4> SUFFICES ASSUME NEW n \in DOMAIN journal
                   PROVE  HasRun(n)' = HasRun(n) /\ tool_result_get(n)' = tool_result_get(n)
        BY Zenon
      <4>1. n # 0 /\ tool_result_get(n)' = tool_result_get(n)
        BY <1>2, <2>4, SMTT(90) DEF tool_result_get
      <4>2. \A i \in DOMAIN effects' : effects'[i].seq = n => i \in DOMAIN effects /\ effects[i].seq = n
        BY <1>2, <3>1, <4>1, Appended, SMTT(90)
      <4>3. \A i \in DOMAIN effects : i \in DOMAIN effects' /\ effects'[i] = effects[i]
        BY <1>1, Monotone, Zenon
      <4> QED BY <4>1, <4>2, <4>3, Zenon DEF HasRun
    <3> QED BY <1>9, <3>2, SameLog, Zenon
  <2> QED BY <1>1, <2>1, <2>2, <2>3, <2>4, Zenon DEF Frame, StoreFrame
<1> QED BY <1>1, <1>5, <1>6, <1>7, <1>8, <1>9, Zenon DEF StoreFrame

\* Initially the log is empty.
LEMMA LogInit == Init => StoreInv /\ Abstract!Init
<1> SUFFICES ASSUME Init
             PROVE  StoreInv /\ Abstract!Init
  BY Zenon
<1>1. journal = <<>> /\ tool_results = {} /\ pc = "idle"
  BY Zenon DEF Init
<1>2. StoreInv
  BY <1>1, Zenon DEF StoreInv, Settled
<1>3. IntentLog = <<>>
  BY <1>1 DEF IntentLog
<1> QED BY <1>2, <1>3, Zenon DEF Abstract!Init

\* The kernel implements ExecLog, through any number of crashes, recoveries,
\* batches, cancellations and decisions: an intent's tool runs at most once
\* and only while it is open, an intent is done only with a kept result, and
\* keeps the fate it gets (_execute_call, _persist_precomputed, recover).
THEOREM KernelImplementsExecLog == Spec => ImplementsExecLog
<1>1. Init => StoreInv /\ Abstract!Init
  BY LogInit, Zenon
<1>2. IInv /\ StoreInv /\ [Next]_vars => StoreInv' /\ [Abstract!Next]_IntentLog
  BY StoreStep, LogStep, Zenon
<1> QED BY Invariance, <1>1, <1>2, PTL DEF Spec, ImplementsExecLog, Abstract!Spec
-----------------------------------------------------------------------------
\* A run of a call that may stand behind the result of intent n.
RanFor(c, n) == \E k \in DOMAIN effects : effects[k].call = c /\ effects[k].seq \in {0, n}

\* Each precomputed result comes from a run of its call, a call past its run
\* has run, and so has the call of each stored result.
RunInv ==
  /\ \A i \in 1..Len(pre) : pre[i] # NoOut => RanFor(calls[i], 0)
  /\ pc # "batch" => \A i \in 1..Len(pre) : pre[i] # NoOut
  /\ pc = "ran" => RanFor(Head(calls), Len(journal))
  /\ \A r \in tool_results : RanFor(journal[r.key].call, r.key)

\* A run stays a run, also of any intent if it was ahead of its own.
LEMMA RanStays ==
  ASSUME TypeInv, Frame, StoreFrame, NEW c, NEW n
  PROVE  (RanFor(c, n) => RanFor(c, n)') /\ (RanFor(c, 0) => RanFor(c, n))
BY Monotone, Zenon DEF RanFor

\* The effect a step appends is a run.
LEMMA RanNow ==
  ASSUME effects \in Seq([call : Calls, seq : Nat]), NEW c, NEW n,
         effects' = Append(effects, [call |-> c, seq |-> n])
  PROVE  RanFor(c, n)'
<1>1. Len(effects) + 1 \in DOMAIN effects' /\ effects'[Len(effects) + 1] = [call |-> c, seq |-> n]
  BY SMTT(90)
<1> QED BY <1>1, SMTT(60) DEF RanFor

\* Every step keeps RunInv: a result is stored for a tool that ran.
LEMMA RunStep == IInv /\ StoreInv /\ RunInv /\ [Next]_vars => RunInv'
<1> SUFFICES ASSUME IInv, StoreInv, RunInv, [Next]_vars
             PROVE  RunInv'
  BY Zenon
<1>1. Frame /\ StoreFrame /\ TypeInv /\ TailShape /\ TypeInv'
  BY FrameStep, StoreFrameStep, TypeInvStep, Zenon DEF IInv
<1>2. /\ journal \in Seq(Rows) /\ effects \in Seq([call : Calls, seq : Nat]) /\ calls \in Seq(Calls)
      /\ pre \in Seq(Outcomes \cup {NoOut})
  BY <1>1, Zenon DEF TypeInv, TypeOK
<1>3. /\ Len(journal) \in Nat /\ Len(journal') \in Nat /\ Len(journal) <= Len(journal')
      /\ \A n \in 1..Len(journal) : journal'[n] = journal[n]
  BY <1>1, Prefix, Zenon
<1>4. \A c, n : (RanFor(c, n) => RanFor(c, n)') /\ (RanFor(c, 0) => RanFor(c, n))
  BY <1>1, RanStays, Zenon
<1>5. pc' \notin Handling => pre' = <<>>
  BY <1>1, Zenon DEF TypeInv, Shape
<1>6. \A i, c : i \in 1..Len(pre') /\ pre'[i] # NoOut /\ c = calls'[i] => RanFor(c, 0)'
  <2>1. CASE UNCHANGED <<pre, calls>>
    BY <1>4, <2>1, Zenon DEF RunInv
  <2>2. CASE BatchStart
    <3>1. BatchLength(calls) \in 0..Len(calls) /\ pre' = [i \in 1..BatchLength(calls) |-> NoOut]
      BY <1>2, <2>2, BatchIsEligiblePrefix, Zenon DEF BatchStart
    <3> QED BY <3>1
  <2>3. CASE BatchRun
    <3>1. PICK k \in 1..Len(pre), o \in Outcomes :
            pre' = [pre EXCEPT ![k] = o] /\ effects' = Append(effects, [call |-> calls[k], seq |-> 0])
      BY <2>3, ZenonT(90) DEF BatchRun
    <3>2. calls' = calls /\ Len(pre') = Len(pre) /\ \A i \in 1..Len(pre) : i # k => pre'[i] = pre[i]
      BY <1>2, <2>3, <3>1, SMTT(90) DEF BatchRun
    <3>3. \A c : c = calls[k] => RanFor(c, 0)'
      BY <1>2, <3>1, RanNow, Zenon
    <3> QED BY <1>4, <3>2, <3>3, Zenon DEF RunInv
  <2>4. CASE _add_tool_msg
    <3>1. /\ calls' = Tail(calls) /\ pre' = (IF pre = <<>> THEN <<>> ELSE Tail(pre))
          /\ Len(pre) <= Len(calls)
      BY <1>1, <2>4, Zenon DEF _add_tool_msg, TypeInv, Shape
    <3>2. \A i \in 1..Len(pre') : /\ i + 1 \in 1..Len(pre) /\ pre'[i] = pre[i + 1]
                                  /\ calls'[i] = calls[i + 1]
      BY <1>2, <3>1
    <3> QED BY <1>4, <3>2, Zenon DEF RunInv
  <2>5. CASE pc' \notin Handling
    BY <1>5, <2>5, SMTT(90)
  <2> QED BY <1>1, <2>1, <2>2, <2>3, <2>4, <2>5, Zenon DEF StoreFrame
<1>7. pc' # "batch" => \A i \in 1..Len(pre') : pre'[i] # NoOut
  <2>1. CASE UNCHANGED <<pre, calls>> /\ pc # "batch"
    BY <2>1, Zenon DEF RunInv
  <2>2. CASE UNCHANGED <<pre, calls>> /\ BatchJoin
    BY <2>2, Zenon DEF BatchJoin
  <2>3. CASE BatchStart \/ BatchRun
    BY <2>3, Zenon DEF BatchStart, BatchRun
  <2>4. CASE _add_tool_msg
    <3>1. pc = "fold" /\ pre' = (IF pre = <<>> THEN <<>> ELSE Tail(pre))
      BY <2>4, Zenon DEF _add_tool_msg
    <3>2. \A i \in 1..Len(pre') : i + 1 \in 1..Len(pre) /\ pre'[i] = pre[i + 1]
      BY <1>2, <3>1, SMTT(60)
    <3> QED BY <3>1, <3>2, Zenon DEF RunInv
  <2>5. CASE pc' \notin Handling \/ Crash
    BY <1>5, <2>5, SMTT(90) DEF Crash
  <2> QED BY <1>1, <2>1, <2>2, <2>3, <2>4, <2>5, Zenon DEF StoreFrame
<1>8. \A c, n : pc' = "ran" /\ c = Head(calls') /\ n = Len(journal') => RanFor(c, n)'
  <2>1. CASE ToolRun /\ pc' = "ran"
    <3>1. /\ journal' = journal /\ calls' = calls
          /\ effects' = Append(effects, [call |-> Head(calls), seq |-> Len(journal)])
      BY <2>1, Zenon DEF ToolRun, Next_call, Seq_tail, store
    <3> QED BY <1>2, <3>1, RanNow, Zenon
  <2>2. CASE UsePrecomputed
    <3>1. pc = "intent" /\ pre # <<>> /\ calls' = calls /\ Len(pre) <= Len(calls)
      BY <1>1, <2>2, Zenon DEF UsePrecomputed, TypeInv, Shape
    <3>2. 1 \in 1..Len(pre) /\ Head(calls) = calls[1]
      BY <1>2, <3>1, SMTT(90)
    <3>3. RanFor(calls[1], 0)
      BY <3>1, <3>2, Zenon DEF RunInv
    <3> QED BY <1>4, <3>1, <3>2, <3>3, Zenon
  <2>3. CASE pc = "ran" /\ pc' = "ran" /\ UNCHANGED <<journal, pre>>
    <3>1. calls' = calls
      BY <1>1, <2>3, Zenon DEF StoreFrame, BatchStart, BatchRun, _add_tool_msg, Handling
    <3> QED BY <1>4, <2>3, <3>1, Zenon DEF RunInv
  <2> QED BY <1>1, <2>1, <2>2, <2>3, Zenon DEF StoreFrame
<1>9. \A r \in tool_results' : \A c : c = journal'[r.key].call => RanFor(c, r.key)'
  <2>1. \A r \in tool_results : \A c : c = journal'[r.key].call => RanFor(c, r.key)'
    <3>1. \A r \in tool_results : journal'[r.key] = journal[r.key] /\ RanFor(journal[r.key].call, r.key)
      BY <1>3, ZenonT(90) DEF StoreInv, RunInv
    <3> QED BY <1>4, <3>1, Zenon
  <2>2. CASE PutResult
    <3>1. /\ pc = "ran" /\ journal' = journal /\ journal[Len(journal)].call = Head(calls)
          /\ RanFor(Head(calls), Len(journal))
      BY <1>1, <2>2, Zenon DEF PutResult, TailShape, RunInv
    <3>2. \A r \in tool_results' : r \in tool_results \/ r.key = Len(journal)
      BY <2>2 DEF PutResult, tool_result_put, Seq_tail
    <3> QED BY <1>4, <2>1, <3>1, <3>2, Zenon
  <2> QED BY <1>1, <2>1, <2>2, ZenonT(90) DEF StoreFrame
<1> QED BY <1>6, <1>7, <1>8, <1>9, Zenon DEF RunInv

\* An EXEC_DONE row n is backed.
BackedRow(n) ==
  LET m == journal[n].ref
  IN  /\ m \in DOMAIN journal /\ m < n
      /\ journal[m].state = "EXEC_INTENT" /\ journal[m].call = journal[n].call
      /\ tool_result_get(m) /\ RanFor(journal[n].call, m)

\* Every EXEC_DONE row that _execute_call or recover() writes is backed.
LEMMA DoneStep == IInv /\ StoreInv /\ RunInv /\ DoneIsBacked /\ [Next]_vars => DoneIsBacked'
<1> SUFFICES ASSUME IInv, StoreInv, RunInv, DoneIsBacked, [Next]_vars,
                    NEW n \in DOMAIN journal', journal'[n].state = "EXEC_DONE"
             PROVE  BackedRow(n)'
  BY Zenon DEF DoneIsBacked, BackedRow, RanFor
<1>1. Frame /\ StoreFrame /\ TypeInv /\ TailShape
  BY FrameStep, StoreFrameStep, Zenon DEF IInv
<1>2. journal \in Seq(Rows) /\ DOMAIN journal = 1..Len(journal) /\ Len(journal) \in Nat
  BY <1>1, SMTT(90) DEF TypeInv, TypeOK
<1>3. \A k \in 1..Len(journal) : journal'[k] = journal[k] /\ k \in DOMAIN journal'
  BY <1>1, <1>2, SMTT(90) DEF Frame
<1>4. \A c, m : (RanFor(c, m) => RanFor(c, m)') /\ (tool_result_get(m) => tool_result_get(m)')
  BY <1>1, RanStays, Monotone, Zenon DEF tool_result_get
<1>5. CASE n \in DOMAIN journal
  <2>1. journal'[n] = journal[n] /\ BackedRow(n)
    BY <1>2, <1>3, <1>5, Zenon DEF DoneIsBacked, BackedRow, RanFor
  <2> QED BY <1>2, <1>3, <1>4, <2>1, ZenonT(90) DEF BackedRow
<1>6. CASE n \notin DOMAIN journal
  <2>1. PICK row : journal' = Append(journal, row)
    BY <1>1, <1>6, Zenon DEF Frame
  <2>2. /\ n = Len(journal) + 1 /\ journal'[n] = row /\ row.state = "EXEC_DONE"
        /\ Len(journal') = Len(journal) + 1
    BY <1>2, <1>6, <2>1, SMTT(90)
  <2>3. ASSUME NEW s, NEW c, NEW r, NEW cs, NEW next, journal_append(s, c, r, cs, next)
        PROVE  row = JournalRow(s, c, r, cs) /\ s = "EXEC_DONE"
    <3>1. journal' = Append(journal, JournalRow(s, c, r, cs))
      BY <2>3, Zenon DEF journal_append
    <3>2. row = JournalRow(s, c, r, cs)
      BY <1>2, <2>2, <3>1, SMTT(90)
    <3> QED BY <2>2, <3>2, SMTT(90) DEF JournalRow
  <2>4. /\ row.ref = Len(journal) /\ Len(journal) # 0 /\ journal[Len(journal)].state = "EXEC_INTENT"
        /\ journal[Len(journal)].call = row.call /\ tool_result_get(Len(journal))
    <3>1. CASE ExecIntent
      BY <2>3, <3>1, SMTT(90) DEF ExecIntent
    <3>2. CASE ExecDone
      <4>1. /\ journal # <<>> /\ journal[Len(journal)].state = "EXEC_INTENT"
            /\ journal[Len(journal)].call = Head(calls) /\ tool_result_get(Len(journal))
        BY <1>1, <3>2, Zenon DEF ExecDone, TailShape, StoreInv
      <4>2. row = JournalRow("EXEC_DONE", Head(calls), Len(journal), <<>>)
        BY <2>3, <3>2, Zenon DEF ExecDone, Next_call, Seq_tail
      <4> QED BY <1>2, <4>1, <4>2, SMTT(90) DEF JournalRow
    <3>3. CASE Recover
      <4>1. /\ Tail_state = "EXEC_INTENT" /\ tool_result_get(Seq_tail)
            /\ journal_append("EXEC_DONE", journal[Seq_tail].call, Seq_tail, <<>>, "idle")
        <5>1. journal' # journal
          BY <1>2, <2>2
        <5>2. ~UNCHANGED <<store, pc>>
          BY <5>1, Zenon DEF store
        <5>3. \A c, r, cs, next : /\ ~journal_append("RECOVERED", c, r, cs, next)
                                  /\ ~journal_append("FAILED_NEEDS_REVIEW", c, r, cs, next)
          BY <2>3
        <5> QED BY <3>3, <5>2, <5>3, ZenonT(90) DEF Recover, Settle
      <4>2. journal # <<>> /\ journal[Len(journal)].state = "EXEC_INTENT"
        BY <4>1, Zenon DEF Tail_state, Seq_tail
      <4>3. row = JournalRow("EXEC_DONE", journal[Len(journal)].call, Len(journal), <<>>)
        BY <2>3, <4>1, Zenon DEF Seq_tail
      <4> QED BY <1>2, <4>1, <4>2, <4>3, SMTT(90) DEF JournalRow, Seq_tail
    <3>4. CASE \E s \in {"ASSEMBLE", "MODEL_CALL_INTENT", "MODEL_CALL_DONE", "FINALIZE", "STOPPED",
                         "CANCELLED", "AWAITING_APPROVAL"} :
                 \E c, r, cs, next : journal_append(s, c, r, cs, next)
      BY <2>3, <3>4, Zenon
    <3>5. journal' # journal
      BY <1>2, <2>2
    <3> QED BY <1>1, <3>1, <3>2, <3>3, <3>4, <3>5, ZenonT(90) DEF StoreFrame
  <2>5. PICK t : t = Len(journal)
    BY ZenonT(90)
  <2>6. RanFor(row.call, t)
    BY <2>4, <2>5, Zenon DEF tool_result_get, RunInv
  <2>7. tool_result_get(t)' /\ \A c : c = row.call => RanFor(c, t)'
    BY <1>4, <2>4, <2>5, <2>6, Zenon
  <2>8. journal'[t] = journal[t] /\ t \in DOMAIN journal' /\ t < n
    BY <1>2, <1>3, <2>2, <2>4, <2>5, SMTT(60)
  <2> QED BY <2>2, <2>4, <2>5, <2>7, <2>8, ZenonT(90) DEF BackedRow
<1> QED BY <1>5, <1>6, Zenon

\* An EXEC_DONE row, recovered or not, names an earlier intent of the same
\* call whose result is stored, and the tool really ran for it.
THEOREM DoneRowsAreBacked == Spec => []DoneIsBacked
<1>1. Init => StoreInv /\ RunInv /\ DoneIsBacked
  <2> SUFFICES ASSUME Init
               PROVE  RunInv /\ DoneIsBacked
    BY LogInit, Zenon
  <2>1. journal = <<>> /\ tool_results = {} /\ pc = "idle" /\ pre = <<>>
    BY Zenon DEF Init
  <2> QED BY <2>1 DEF RunInv, DoneIsBacked
<1>2. IInv /\ StoreInv /\ RunInv /\ DoneIsBacked /\ [Next]_vars => (StoreInv /\ RunInv /\ DoneIsBacked)'
  BY StoreStep, RunStep, DoneStep, Zenon
<1> QED BY Invariance, <1>1, <1>2, PTL DEF Spec
=============================================================================
