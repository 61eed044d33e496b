-------------------------- MODULE KernelEvidence --------------------------
(***************************************************************************)
(* Proofs about the evidence the kernel leaves (kernel.py, state.py,       *)
(* ledger.py), all of them by counting: how often a call ran, and how      *)
(* often the journal, the ledger and the conversation say so.              *)
(***************************************************************************)
EXTENDS KernelProofs

-----------------------------------------------------------------------------
(* Counting.  The tests of Count are sets here, since a lemma cannot take  *)
(* an operator.                                                            *)

Tally(s, G) == Cardinality({i \in DOMAIN s : s[i] \in G})

\* One more element counts if it belongs to the set.
LEMMA TallyAppend ==
  ASSUME NEW S, NEW s \in Seq(S), NEW e, NEW G
  PROVE  /\ Tally(s, G) \in Nat
         /\ Tally(Append(s, e), G) = Tally(s, G) + (IF e \in G THEN 1 ELSE 0)
<1> DEFINE I == {i \in DOMAIN s : s[i] \in G}
           J == {i \in DOMAIN Append(s, e) : Append(s, e)[i] \in G}
           n == Len(s) + 1
<1>1. Len(s) \in Nat /\ DOMAIN s = 1..Len(s) /\ DOMAIN Append(s, e) = 1..n /\ Append(s, e)[n] = e
  OBVIOUS
<1>2. \A i \in DOMAIN s : Append(s, e)[i] = s[i]
  OBVIOUS
<1>3. IsFiniteSet(1..Len(s))
  BY <1>1, FS_Interval
<1>4. IsFiniteSet(I) /\ Cardinality(I) \in Nat
  BY <1>1, <1>3, FS_Subset, FS_CardinalityType, Zenon
<1>5. J = IF e \in G THEN I \cup {n} ELSE I
  BY <1>1, <1>2
<1>6. n \notin I
  BY <1>1
<1>7. Cardinality(I \cup {n}) = Cardinality(I) + 1
  BY <1>4, <1>6, FS_AddElement, Zenon
<1>8. Tally(s, G) = Cardinality(I) /\ Tally(Append(s, e), G) = Cardinality(J)
  BY Zenon DEF Tally
<1> HIDE DEF I, J
<1> QED BY <1>4, <1>5, <1>7, <1>8

RunsOf(c)     == [call : {c}, seq : Nat]
DonesOf(c)    == [state : {"EXEC_DONE"}, call : {c}, ref : Nat, calls : Seq(Calls)]
GrantsOf(c)   == [type : {"approval_granted_exec"}, call : {c}, ref : Nat]
ExecsOf(c)    == [type : {"tool_exec"}, call : {c}, ref : Nat]
RefusalsOf(c) == [type : {"cap_denied", "approval_denied_exec"}, call : {c}, ref : Nat]
AnswersOf(c)  == [role : {"tool"}, call : {c}]

Ran(c)      == Tally(effects, RunsOf(c))
Journaled(c) == Tally(journal, DonesOf(c))
Allowed(c)  == Tally(ledger, GrantsOf(c))
Ledgered(c) == Tally(ledger, ExecsOf(c))
Refused(c)  == Tally(ledger, RefusalsOf(c))
Answered(c) == Tally(messages, AnswersOf(c))

One(test) == IF test THEN 1 ELSE 0

\* Every count is a number.
LEMMA Counts ==
  ASSUME TypeOK, NEW c
  PROVE  /\ Ran(c) \in Nat /\ Journaled(c) \in Nat /\ Allowed(c) \in Nat
         /\ Ledgered(c) \in Nat /\ Refused(c) \in Nat /\ Answered(c) \in Nat
BY TallyAppend, Zenon DEF TypeOK, Ran, Journaled, Allowed, Ledgered, Refused, Answered

\* A run of a tool counts for its call.
LEMMA EffectMore ==
  ASSUME TypeOK, NEW d, NEW n \in Nat, effects' = Append(effects, [call |-> d, seq |-> n]), NEW c
  PROVE  Ran(c)' = Ran(c) + One(d = c)
<1>1. [call |-> d, seq |-> n] \in RunsOf(c) <=> d = c
  BY Zenon DEF RunsOf
<1>2. effects \in Seq([call : Calls, seq : Nat])
  BY Zenon DEF TypeOK
<1>3. Ran(c)' = Tally(Append(effects, [call |-> d, seq |-> n]), RunsOf(c))
  BY Zenon DEF Ran
<1> QED BY <1>1, <1>2, <1>3, TallyAppend, SMTT(60) DEF Ran, One

\* An EXEC_DONE row counts for its call, another row for none.
LEMMA JournalMore ==
  ASSUME TypeOK, NEW s, NEW d, NEW r, NEW cs, NEW next, journal_append(s, d, r, cs, next),
         s = "EXEC_DONE" => r \in Nat /\ cs \in Seq(Calls), NEW c
  PROVE  Journaled(c)' = Journaled(c) + One(s = "EXEC_DONE" /\ d = c)
<1>1. JournalRow(s, d, r, cs) \in DonesOf(c) <=> s = "EXEC_DONE" /\ d = c
  BY Zenon DEF JournalRow, DonesOf
<1>2. journal \in Seq(Rows)
  BY Zenon DEF TypeOK
<1>3. Journaled(c)' = Tally(Append(journal, JournalRow(s, d, r, cs)), DonesOf(c))
  BY Zenon DEF Journaled, journal_append
<1> QED BY <1>1, <1>2, <1>3, TallyAppend DEF Journaled, One

\* A granted, executed or refused event counts for its call, and for one
\* of the three counts only.
LEMMA LedgerMore ==
  ASSUME TypeOK, NEW type, NEW d, NEW r \in Nat, NEW next, ledger_append(type, d, r, next), NEW c
  PROVE  /\ Allowed(c)' = Allowed(c) + One(type = "approval_granted_exec" /\ d = c)
         /\ Ledgered(c)' = Ledgered(c) + One(type = "tool_exec" /\ d = c)
         /\ Refused(c)' = Refused(c) + One(type \in {"cap_denied", "approval_denied_exec"} /\ d = c)
<1> DEFINE e == [type |-> type, call |-> d, ref |-> r]
<1>1. /\ e \in GrantsOf(c) <=> type = "approval_granted_exec" /\ d = c
      /\ e \in ExecsOf(c) <=> type = "tool_exec" /\ d = c
      /\ e \in RefusalsOf(c) <=> type \in {"cap_denied", "approval_denied_exec"} /\ d = c
  BY Zenon DEF GrantsOf, ExecsOf, RefusalsOf
<1>2. ledger \in Seq([type : EventTypes, call : Calls \cup {NoCall}, ref : Nat])
  BY Zenon DEF TypeOK
<1>3. /\ Allowed(c)' = Tally(Append(ledger, e), GrantsOf(c))
      /\ Ledgered(c)' = Tally(Append(ledger, e), ExecsOf(c))
      /\ Refused(c)' = Tally(Append(ledger, e), RefusalsOf(c))
  BY Zenon DEF Allowed, Ledgered, Refused, ledger_append
<1> HIDE DEF e
<1> QED BY <1>1, <1>2, <1>3, TallyAppend DEF Allowed, Ledgered, Refused, One

\* A tool message answers its call.
LEMMA MessageMore ==
  ASSUME TypeOK, NEW role, NEW d, messages' = Append(messages, [role |-> role, call |-> d]), NEW c
  PROVE  Answered(c)' = Answered(c) + One(role = "tool" /\ d = c)
<1>1. [role |-> role, call |-> d] \in AnswersOf(c) <=> role = "tool" /\ d = c
  BY Zenon DEF AnswersOf
<1>2. messages \in Seq([role : {"user", "assistant", "tool"}, call : Calls \cup {NoCall}])
  BY Zenon DEF TypeOK
<1>3. Answered(c)' = Tally(Append(messages, [role |-> role, call |-> d]), AnswersOf(c))
  BY Zenon DEF Answered
<1> QED BY <1>1, <1>2, <1>3, TallyAppend DEF Answered, One

-----------------------------------------------------------------------------
\* Where an intent may be open.
Dangling == {"idle", "assemble", "model", "model_error", "intent", "ran", "put"}

\* Ledger events that neither grant, record nor refuse the run of a tool.
Plain == EventTypes \ {"approval_granted_exec", "tool_exec", "cap_denied", "approval_denied_exec"}

\* What a step may do to the variables the evidence depends on.
EvidenceFrame ==
  /\ \/ journal' = journal \/ Assemble \/ ModelDone \/ ModelErrorStop \/ ExecDone \/ Recover
     \/ /\ pc \notin Dangling
        /\ \E s \in JournalStates \ {"EXEC_DONE"} : \E c, r, cs, next : journal_append(s, c, r, cs, next)
  /\ pc' = "assemble" => Run \/ (pc = "assemble" /\ journal' = journal)
  /\ skipped' = skipped \/ skipped' = skipped + 1
  /\ pc' \in {"model", "model_error"} =>
       ModelIntent \/ (pc \in {"model", "model_error"} /\ journal' = journal)
  /\ pc' \notin Dangling =>
       \/ pc \notin Dangling /\ journal' = journal
       \/ Resume \/ Recover
       \/ \E s \in JournalStates \ {"MODEL_CALL_INTENT", "EXEC_INTENT"} : \E c, r, cs, next :
            journal_append(s, c, r, cs, next)
  /\ \/ messages' = messages \/ _add_tool_msg
     \/ \E role \in {"user", "assistant"} : messages' = Append(messages, [role |-> role, call |-> NoCall])
  /\ \/ ledger' = ledger \/ LedgerExec \/ GateDenied \/ GateApproved \/ CapDenied
     \/ \E type \in Plain : \E c, next : ledger_append(type, c, 0, next)
  /\ \/ (pc \notin Handling /\ pc' \notin Handling) \/ UNCHANGED <<pc, calls, pre>>
     \/ BatchStart \/ BatchRun \/ BatchJoin \/ GateDenied \/ GateApproved \/ CapDenied \/ ExecIntent
     \/ ToolRun \/ UsePrecomputed \/ PutResult \/ ExecDone \/ LedgerExec \/ _ledger_tool_error
     \/ _add_tool_msg \/ Crash
  /\ (crashes' = crashes /\ (unrecovered' => unrecovered)) \/ Crash

\* Which actions write what: every step of Next is one of these cases.
LEMMA EvidenceFrameStep == TypeOK /\ [Next]_vars => EvidenceFrame
<1> SUFFICES ASSUME TypeOK, [Next]_vars
             PROVE  EvidenceFrame
  BY Zenon
<1>1. CASE Assemble
  BY <1>1, Zenon DEF Assemble, EvidenceFrame, Dangling, JournalStates, EventTypes, Plain, Handling, store, execvars, others, env, journal_append
<1>2. CASE LoopGuard
  BY <1>2 DEF LoopGuard, EvidenceFrame, Dangling, JournalStates, EventTypes, Plain, Handling, store, execvars, others, env, _stop, journal_append
<1>3. CASE ModelIntent
  BY <1>3, Zenon DEF ModelIntent, EvidenceFrame, Dangling, JournalStates, EventTypes, Plain, Handling, store, execvars, others, env, journal_append
<1>4. CASE ModelRetry
  BY <1>4, Zenon DEF ModelRetry, EvidenceFrame, Dangling, JournalStates, EventTypes, Plain, Handling, store, execvars, others, env, ledger_append
<1>5. CASE ModelError
  BY <1>5, Zenon DEF ModelError, EvidenceFrame, Dangling, JournalStates, EventTypes, Plain, Handling, store, execvars, others, env, ledger_append
<1>6. CASE ModelErrorStop
  BY <1>6, Zenon DEF ModelErrorStop, EvidenceFrame, Dangling, JournalStates, EventTypes, Plain, Handling, store, execvars, others, env, _stop, journal_append
<1>7. CASE ModelDone
  BY <1>7, Zenon DEF ModelDone, EvidenceFrame, Dangling, JournalStates, EventTypes, Plain, Handling, store, execvars, others, env, journal_append
<1>8. CASE LedgerModelCall
  BY <1>8, Zenon DEF LedgerModelCall, EvidenceFrame, Dangling, JournalStates, EventTypes, Plain, Handling, store, execvars, others, env, ledger_append
<1>9. CASE TokenBudget
  BY <1>9, Zenon DEF TokenBudget, EvidenceFrame, Dangling, JournalStates, EventTypes, Plain, Handling, store, execvars, others, env, _stop, journal_append
<1>10. CASE FinalizeRefused
  BY <1>10, Zenon DEF FinalizeRefused, EvidenceFrame, Dangling, JournalStates, EventTypes, Plain, Handling, store, execvars, others, env, add_message
<1>11. CASE LedgerRefused
  BY <1>11, Zenon DEF LedgerRefused, EvidenceFrame, Dangling, JournalStates, EventTypes, Plain, Handling, store, execvars, others, env, ledger_append
<1>12. CASE AnswerMessage
  BY <1>12, Zenon DEF AnswerMessage, EvidenceFrame, Dangling, JournalStates, EventTypes, Plain, Handling, store, execvars, others, env, add_message
<1>13. CASE Finalize
  BY <1>13, Zenon DEF Finalize, EvidenceFrame, Dangling, JournalStates, EventTypes, Plain, Handling, store, execvars, others, env, journal_append
<1>14. CASE LedgerFinalize
  <2>1. pc = "finalized" /\ pc' = "idle" /\ ledger_append("finalize", NoCall, 0, "idle")
    BY <1>14, Zenon DEF LedgerFinalize, ledger_append
  <2>2. UNCHANGED <<journal, messages, skipped, crashes, unrecovered>>
    BY <1>14, Zenon DEF LedgerFinalize, ledger_append, others, env
  <2> QED
    BY <2>1, <2>2, Zenon DEF EvidenceFrame, Dangling, Handling, Plain, EventTypes
<1>15. CASE CycleCheck
  BY <1>15, Zenon DEF CycleCheck, EvidenceFrame, Dangling, JournalStates, EventTypes, Plain, Handling, store, execvars, others, env, add_message, _stop, journal_append
<1>16. CASE EndStop
  BY <1>16, Zenon DEF EndStop, EvidenceFrame, Dangling, JournalStates, EventTypes, Plain, Handling, store, execvars, others, env, ledger_append
<1>17. CASE ExecReturn
  BY <1>17, Zenon DEF ExecReturn, EvidenceFrame, Dangling, JournalStates, EventTypes, Plain, Handling, store, execvars, others, env
<1>18. CASE ExecCancelled
  BY <1>18, Zenon DEF ExecCancelled, EvidenceFrame, Dangling, JournalStates, EventTypes, Plain, Handling, store, execvars, others, env, journal_append
<1>19. CASE BatchStart
  BY <1>19, Zenon DEF BatchStart, EvidenceFrame, Dangling, JournalStates, EventTypes, Plain, Handling, store, execvars, others, env
<1>20. CASE BatchRun
  <2>1. pc = "batch" /\ UNCHANGED <<pc, journal, ledger, messages, skipped, crashes, unrecovered>>
    BY <1>20, Zenon DEF BatchRun, store, env
  <2> QED BY <1>20, <2>1, Zenon DEF EvidenceFrame, Dangling, JournalStates, EventTypes, Plain
<1>21. CASE BatchJoin
  BY <1>21, Zenon DEF BatchJoin, EvidenceFrame, Dangling, JournalStates, EventTypes, Plain, Handling, store, execvars, others, env
<1>22. CASE AwaitApproval
  BY <1>22, Zenon DEF AwaitApproval, EvidenceFrame, Dangling, JournalStates, EventTypes, Plain, Handling, store, execvars, others, env, journal_append, Sequential
<1>23. CASE LedgerGate
  BY <1>23, ZenonT(90) DEF LedgerGate, EvidenceFrame, Dangling, JournalStates, EventTypes, Plain, Handling, store, execvars, others, env, ledger_append
<1>24. CASE GateDenied
  BY <1>24, Zenon DEF GateDenied, EvidenceFrame, Dangling, JournalStates, EventTypes, Plain, Handling, store, execvars, others, env, ledger_append, Sequential
<1>25. CASE GateApproved
  BY <1>25, Zenon DEF GateApproved, EvidenceFrame, Dangling, JournalStates, EventTypes, Plain, Handling, store, execvars, others, env, ledger_append, Sequential
<1>26. CASE CapDenied
  BY <1>26, Zenon DEF CapDenied, AtExecute, Sequential, EvidenceFrame, Dangling, JournalStates, EventTypes, Plain, Handling, store, execvars, others, env, ledger_append
<1>27. CASE ExecIntent
  BY <1>27, Zenon DEF ExecIntent, EvidenceFrame, Dangling, JournalStates, EventTypes, Plain, Handling, store, execvars, others, env, journal_append, AtExecute, Next_call, Sequential
<1>28. CASE ToolRun
  BY <1>28, Zenon DEF ToolRun, EvidenceFrame, Dangling, JournalStates, EventTypes, Plain, Handling, store, execvars, others, env
<1>29. CASE UsePrecomputed
  BY <1>29, Zenon DEF UsePrecomputed, EvidenceFrame, Dangling, JournalStates, EventTypes, Plain, Handling, store, execvars, others, env
<1>30. CASE PutResult
  BY <1>30, Zenon DEF PutResult, EvidenceFrame, Dangling, JournalStates, EventTypes, Plain, Handling, store, execvars, others, env
<1>31. CASE ExecDone
  BY <1>31, Zenon DEF ExecDone, EvidenceFrame, Dangling, JournalStates, EventTypes, Plain, Handling, store, execvars, others, env, journal_append
<1>32. CASE LedgerExec
  BY <1>32, Zenon DEF LedgerExec, EvidenceFrame, Dangling, JournalStates, EventTypes, Plain, Handling, store, execvars, others, env, ledger_append
<1>33. CASE _ledger_tool_error
  BY <1>33, ZenonT(90) DEF _ledger_tool_error, EvidenceFrame, Dangling, JournalStates, EventTypes, Plain, Handling, store, execvars, others, env, ledger_append
<1>34. CASE _add_tool_msg
  BY <1>34, Zenon DEF _add_tool_msg, EvidenceFrame, Dangling, JournalStates, EventTypes, Plain, Handling, store, execvars, others, env, add_message
<1>35. CASE Quarantine
  BY <1>35, Zenon DEF Quarantine, EvidenceFrame, Dangling, JournalStates, EventTypes, Plain, Handling, store, execvars, others, env
<1>36. CASE Run
  BY <1>36, Zenon DEF Run, EvidenceFrame, Dangling, JournalStates, EventTypes, Plain, Handling, store, execvars, others, env, add_message, Enter
<1>37. CASE Resume
  BY <1>37, Zenon DEF Resume, EvidenceFrame, Dangling, JournalStates, EventTypes, Plain, Handling, store, execvars, others, env, Enter
<1>38. CASE Recover
  BY <1>38, SMTT(90) DEF Recover, EvidenceFrame, Dangling, JournalStates, EventTypes, Plain, Handling, store, execvars, others, env, Settle, journal_append
<1>39. CASE Decide
  BY <1>39, Zenon DEF Decide, EvidenceFrame, Dangling, JournalStates, EventTypes, Plain, Handling, store, execvars, others, env
<1>40. CASE LedgerDecision
  <2>1. deciding.status \in Plain
    BY <1>40, Zenon DEF LedgerDecision, NoDecision, TypeOK, Plain, EventTypes
  <2>2. ledger_append(deciding.status, deciding.call, 0, pc)
    BY <1>40, Zenon DEF LedgerDecision
  <2>3. UNCHANGED <<pc, calls, pre, journal, messages, skipped, crashes, unrecovered>>
    BY <1>40, Zenon DEF LedgerDecision, ledger_append, execvars, env
  <2> QED
    BY <2>1, <2>2, <2>3, Zenon DEF EvidenceFrame
<1>41. CASE Cancel
  BY <1>41, Zenon DEF Cancel, EvidenceFrame, Dangling, JournalStates, EventTypes, Plain, Handling, store, execvars, others, env
<1>42. CASE Crash
  BY <1>42, Zenon DEF Crash, EvidenceFrame, Dangling, JournalStates, EventTypes, Plain, Handling, store, execvars, others, env
<1>43. CASE UNCHANGED vars
  BY <1>43, Zenon DEF vars, EvidenceFrame, Dangling, JournalStates, EventTypes, Plain, Handling, store, execvars, others, env
<1>44. CASE LoopStep
  BY <1>44, <1>1, <1>2, <1>3, <1>4, <1>5, <1>6, <1>7, <1>8, <1>9, <1>10, <1>11, <1>12, <1>13, <1>14, <1>15, <1>16, ZenonT(60) DEF LoopStep
<1>45. CASE ExecStep
  BY <1>45, <1>17, <1>18, <1>19, <1>20, <1>21, <1>22, <1>23, <1>24, <1>25, <1>26, <1>27, <1>28, <1>29, <1>30, <1>31, <1>32, <1>33, <1>34, ZenonT(60) DEF ExecStep
<1> QED
  BY <1>35, <1>36, <1>37, <1>38, <1>39, <1>40, <1>41, <1>42, <1>43, <1>44, <1>45, ZenonT(60) DEF Next, Step

-----------------------------------------------------------------------------
(* A gated call past the gate has a grant that no run has used. *)

GrantInv ==
  \A c \in Gated : Ran(c) + One(pc \in {"execute", "intent"} /\ Head(calls) = c) <= Allowed(c)

\* Each run of a gated tool uses up an approval_granted_exec event of its
\* own: the gate writes one before each call it lets through.
LEMMA GrantStep == TypeInv /\ GrantInv /\ [Next]_vars => GrantInv'
<1> SUFFICES ASSUME TypeInv, GrantInv, [Next]_vars, NEW c \in Gated
             PROVE  (Ran(c) + One(pc \in {"execute", "intent"} /\ Head(calls) = c) <= Allowed(c))'
  BY Zenon DEF GrantInv
<1>1. Frame /\ EvidenceFrame /\ TypeOK /\ TypeInv'
  BY FrameStep, EvidenceFrameStep, TypeInvStep, Zenon DEF TypeInv
<1>2. /\ Ran(c) \in Nat /\ Allowed(c) \in Nat
      /\ Ran(c) + One(pc \in {"execute", "intent"} /\ Head(calls) = c) <= Allowed(c)
  BY <1>1, Counts, Zenon DEF GrantInv
<1>3. Allowed(c)' \in Nat /\ Allowed(c) <= Allowed(c)'
  <2>1. CASE ledger' = ledger
    BY <1>2, <2>1, SMTT(90) DEF Allowed
  <2>2. CASE ledger' # ledger
    <3>1. \E type, d, next : \E r \in Nat : ledger_append(type, d, r, next)
      <4>1. LedgerExec => journal[Seq_tail].ref \in Nat
        BY LastRow, Zenon DEF LedgerExec, TypeInv, TypeOK, Shape, Seq_tail
      <4> QED BY <1>1, <2>2, <4>1, Zenon DEF EvidenceFrame, LedgerExec, GateDenied, GateApproved, CapDenied
    <3> QED BY <1>1, <1>2, <3>1, LedgerMore, SMTT(90) DEF One
  <2> QED BY <2>1, <2>2, Zenon
<1>4. CASE effects' = effects
  <2>1. Ran(c)' = Ran(c)
    BY <1>4, Zenon DEF Ran
  <2>2. CASE GateApproved
    <3>1. ledger_append("approval_granted_exec", Head(calls), 0, "execute") /\ calls' = calls /\ pc = "exec"
      BY <2>2, Zenon DEF GateApproved, Next_call, execvars, Sequential
    <3>2. Allowed(c)' = Allowed(c) + One(Head(calls) = c)
      BY <1>1, <3>1, LedgerMore, SMTT(90) DEF One
    <3> QED BY <1>2, <2>1, <3>1, <3>2, SMTT(90) DEF One
  <2>3. CASE ~GateApproved /\ (pc' \in {"execute", "intent"} /\ Head(calls') = c)
    <3>1. pc \in {"execute", "intent"} /\ Head(calls) = c
      <4>1. CASE ExecIntent
        BY <2>3, <4>1, Zenon DEF ExecIntent, AtExecute, Next_call, execvars
      <4>2. CASE BatchJoin
        <5>1. calls' = calls /\ calls \in Seq(Calls) /\ 1 \in 1..Len(pre)
          BY <4>2 DEF BatchJoin, execvars, TypeInv, TypeOK, Shape
        <5> QED BY <2>3, <5>1, SMTT(90) DEF TypeInv, Shape, _batch_eligible
      <4>3. CASE _add_tool_msg
        <5>1. pc' = "execute" /\ calls' = Tail(calls) /\ calls \in Seq(Calls) /\ Len(pre) \in Nat
          BY <2>3, <4>3, SMTT(90) DEF _add_tool_msg, add_message, TypeInv, TypeOK
        <5>2. Len(pre) > 1 /\ Len(pre) <= Len(calls)
          BY <4>3, <5>1, Zenon DEF _add_tool_msg, add_message, TypeInv, Shape
        <5>3. Head(calls') = calls[2] /\ 2 \in 1..Len(pre)
          BY <5>1, <5>2
        <5> QED BY <2>3, <5>3, Zenon DEF TypeInv, Shape, _batch_eligible
      <4> QED BY <1>1, <2>3, <4>1, <4>2, <4>3, Zenon DEF Frame
    <3> QED BY <1>2, <1>3, <2>1, <2>3, <3>1, SMTT(90) DEF One
  <2>4. CASE ~(pc' \in {"execute", "intent"} /\ Head(calls') = c)
    BY <1>2, <1>3, <2>1, <2>4, SMTT(90) DEF One
  <2> QED BY <2>2, <2>3, <2>4, Zenon
<1>5. CASE ToolRun /\ effects' # effects
  <2>1. /\ pc = "intent" /\ pc' = "ran" /\ ledger' = ledger /\ Len(journal) \in Nat
        /\ effects' = Append(effects, [call |-> Head(calls), seq |-> Len(journal)])
    BY <1>5 DEF ToolRun, Next_call, Seq_tail, store, TypeInv, TypeOK
  <2>2. Ran(c)' = Ran(c) + One(Head(calls) = c) /\ Allowed(c)' = Allowed(c)
    BY <1>1, <2>1, EffectMore, SMTT(90) DEF Allowed
  <2> QED BY <1>2, <2>1, <2>2, SMTT(90) DEF One
<1>6. CASE BatchRun
  <2>1. PICK k \in 1..Len(pre) : effects' = Append(effects, [call |-> calls[k], seq |-> 0])
    BY <1>6, Zenon DEF BatchRun
  <2>2. calls[k] \notin Gated /\ pc' = "batch" /\ ledger' = ledger
    BY <1>6, Zenon DEF BatchRun, store, TypeInv, Shape, _batch_eligible
  <2>3. Ran(c)' = Ran(c) + One(calls[k] = c) /\ Allowed(c)' = Allowed(c)
    BY <1>1, <2>1, <2>2, EffectMore, SMTT(90) DEF Allowed
  <2> QED BY <1>2, <2>2, <2>3, SMTT(90) DEF One
<1> QED BY <1>1, <1>4, <1>5, <1>6, Zenon DEF Frame

-----------------------------------------------------------------------------
(* Intents that are buried under a later entry. *)

Intents == {"MODEL_CALL_INTENT", "EXEC_INTENT"}

Buried == {n \in 1..(Len(journal) - 1) : ~Settles(n)}

\* The kernel writes no row over an open intent but the one that settles it;
\* only run(), entered after a crash, does.
BuriedInv ==
  /\ pc \in {"model", "model_error"} => Tail_state = "MODEL_CALL_INTENT"
  /\ pc \notin Dangling => Tail_state \notin Intents
  /\ IsFiniteSet(Buried) /\ \A n \in Buried : journal[n + 1].state = "ASSEMBLE"
  /\ Cardinality(Buried) + One(pc = "assemble" /\ Tail_state \in Intents) <= skipped

\* An appended row buries at most the row before it.
LEMMA BuriedMore ==
  ASSUME TypeOK, NEW row, journal' = Append(journal, row)
  PROVE  \/ Buried' = Buried
         \/ /\ journal # <<>> /\ Tail_state \in Intents /\ Buried' = Buried \cup {Len(journal)}
            /\ \E m \in Nat : m = Len(journal) /\ ~Settles(m)'
<1>1. journal \in Seq(Rows) /\ Len(journal) \in Nat /\ Len(journal') = Len(journal) + 1
  BY DEF TypeOK
<1>2. \A n \in 1..Len(journal) : journal'[n] = journal[n]
  BY <1>1, SMTT(90)
<1>3. \A n \in 1..(Len(journal) - 1) : Settles(n)' = Settles(n)
  BY <1>1, <1>2 DEF Settles
<1>4. Buried' = {n \in 1..Len(journal) : ~Settles(n)'}
  BY <1>1 DEF Buried
<1>5. PICK m \in Nat : m = Len(journal)
  BY <1>1, Zenon
<1>6. CASE m = 0
  BY <1>1, <1>4, <1>5, <1>6, SMTT(90) DEF Buried
<1>7. CASE m # 0
  <2>1. m \in 1..m /\ 1..m = (1..(m - 1)) \cup {m} /\ journal # <<>>
    BY <1>1, <1>5, <1>7, SMTT(90)
  <2>2. Tail_state \notin Intents => Settles(m)'
    BY <1>2, <1>5, <2>1, Zenon DEF Tail_state, Seq_tail, Intents, Settles
  <2>3. Buried' = Buried \cup {n \in {m} : ~Settles(n)'}
    BY <1>3, <1>4, <1>5, <2>1, Zenon DEF Buried
  <2> QED BY <1>5, <2>1, <2>2, <2>3, Zenon
<1> QED BY <1>6, <1>7, Zenon

\* Each step of the kernel keeps the buried intents within the entries of
\* run() that skipped recover().
LEMMA BuriedStep == TypeInv /\ TailShape /\ BuriedInv /\ [Next]_vars => BuriedInv'
<1> SUFFICES ASSUME TypeInv, TailShape, BuriedInv, [Next]_vars
             PROVE  BuriedInv'
  BY Zenon
<1>1. EvidenceFrame /\ TypeOK /\ TypeOK' /\ journal \in Seq(Rows) /\ Len(journal) \in Nat
  <2>1. TypeOK /\ TypeOK'
    BY TypeInvStep, Zenon DEF TypeInv
  <2>2. EvidenceFrame
    BY <2>1, EvidenceFrameStep, Zenon
  <2>3. journal \in Seq(Rows) /\ Len(journal) \in Nat
    BY <2>1, SMTT(90) DEF TypeOK
  <2> QED BY <2>1, <2>2, <2>3, Zenon
<1>2. pc' \in {"model", "model_error"} => Tail_state' = "MODEL_CALL_INTENT"
  <2>1. CASE ModelIntent
    BY <1>1, <2>1, AppendedTail, Zenon DEF ModelIntent
  <2>2. CASE pc \in {"model", "model_error"} /\ journal' = journal
    BY <2>2, Zenon DEF BuriedInv, Tail_state, Seq_tail
  <2> QED BY <1>1, <2>1, <2>2, Zenon DEF EvidenceFrame
<1>3. pc' \notin Dangling => Tail_state' \notin Intents
  <2>1. CASE pc \notin Dangling /\ journal' = journal
    BY <2>1, Zenon DEF BuriedInv, Tail_state, Seq_tail
  <2>2. CASE Resume
    <3>1. journal' = journal /\ (Tail_state = "AWAITING_APPROVAL" \/ pc' = "idle")
      BY <2>2, Zenon DEF Resume, Enter, store
    <3> QED BY <3>1, Zenon DEF Tail_state, Seq_tail, Dangling, Intents
  <2>3. CASE Recover /\ pc' # "idle"
    <3>1. PICK c : journal_append("FAILED_NEEDS_REVIEW", c, Seq_tail, <<>>, "quarantine")
      BY <2>3, Zenon DEF Recover, Settle, journal_append
    <3> QED BY <1>1, <3>1, AppendedTail, SMTT(90) DEF Intents
  <2>4. ASSUME NEW s \in JournalStates \ {"MODEL_CALL_INTENT", "EXEC_INTENT"}, NEW c, NEW r, NEW cs, NEW next,
               journal_append(s, c, r, cs, next)
        PROVE  Tail_state' \notin Intents
    BY <1>1, <2>4, AppendedTail, Zenon DEF Intents
  <2> QED BY <1>1, <2>1, <2>2, <2>3, <2>4, Zenon DEF EvidenceFrame, Dangling
<1>4. skipped' \in Nat /\ skipped \in Nat /\ skipped <= skipped'
  BY <1>1 DEF TypeOK, EvidenceFrame
<1>5. /\ Cardinality(Buried) \in Nat /\ IsFiniteSet(Buried)
      /\ \A n \in Buried : n \in Nat /\ n # Len(journal)
      /\ \A n \in Buried : journal[n + 1].state = "ASSEMBLE"
      /\ Cardinality(Buried) + One(pc = "assemble" /\ Tail_state \in Intents) <= skipped
  <2>1. \A n \in Buried : n \in Nat /\ n # Len(journal)
    BY <1>1 DEF Buried
  <2> QED BY <2>1, FS_CardinalityType, Zenon DEF BuriedInv
<1> DEFINE Kept == /\ IsFiniteSet(Buried)' /\ \A n \in Buried' : journal'[n + 1].state = "ASSEMBLE"
                   /\ Cardinality(Buried)' + One(pc = "assemble" /\ Tail_state \in Intents)' <= skipped'
<1>6. CASE journal' = journal
  <2>1. Buried' = Buried /\ Tail_state' = Tail_state
    BY <1>6, Zenon DEF Buried, Settles, Tail_state, Seq_tail
  <2>2. CASE Run
    <3>1. pc = "idle" /\ skipped' = IF unrecovered THEN skipped + 1 ELSE skipped
      BY <2>2, Zenon DEF Run, Enter
    <3>2. Tail_state \in Intents => unrecovered
      BY <3>1, Zenon DEF TailShape, NothingDangles, Intents
    <3>3. Kept
      BY <1>4, <1>5, <1>6, <2>1, <3>1, <3>2, SMTT(90) DEF One
    <3> QED BY <1>2, <1>3, <3>3, Zenon DEF BuriedInv
  <2>3. CASE ~Run
    <3>1. pc' = "assemble" => pc = "assemble"
      BY <1>1, <2>3, Zenon DEF EvidenceFrame
    <3>2. Kept
      BY <1>4, <1>5, <1>6, <2>1, <3>1 DEF One
    <3> QED BY <1>2, <1>3, <3>2, Zenon DEF BuriedInv
  <2> QED BY <2>2, <2>3, Zenon
<1>7. ASSUME NEW s, NEW c, NEW r, NEW cs, NEW next, journal_append(s, c, r, cs, next), next # "assemble",
             Tail_state \in Intents =>
               \/ s = "ASSEMBLE" /\ pc = "assemble"
               \/ Tail_state = "MODEL_CALL_INTENT" /\ s \in {"MODEL_CALL_DONE", "RECOVERED", "STOPPED"}
               \/ /\ Tail_state = "EXEC_INTENT" /\ s \in {"EXEC_DONE", "RECOVERED", "FAILED_NEEDS_REVIEW"}
                  /\ r = Len(journal) /\ c = journal[Len(journal)].call
      PROVE  BuriedInv'
  <2>1. /\ journal' = Append(journal, JournalRow(s, c, r, cs)) /\ pc' = next
        /\ Len(journal') = Len(journal) + 1 /\ journal'[Len(journal) + 1] = JournalRow(s, c, r, cs)
        /\ \A n \in 1..Len(journal) : journal'[n] = journal[n]
    BY <1>1, <1>7, SMTT(90) DEF journal_append
  <2>2. \A n \in Buried : journal'[n + 1] = journal[n + 1]
    <3>1. \A n \in Buried : n + 1 \in 1..Len(journal)
      BY <1>1, SMTT(90) DEF Buried
    <3> QED BY <2>1, <3>1, Zenon
  <2>0. One(pc = "assemble" /\ Tail_state \in Intents)' = 0
    BY <1>7, <2>1, Zenon DEF One
  <2>3. CASE Buried' = Buried
    <3>0. Cardinality(Buried) <= skipped
      BY <1>4, <1>5, SMTT(90) DEF One
    <3>1. Kept
      BY <1>4, <1>5, <2>0, <2>2, <2>3, <3>0, SMTT(90)
    <3> QED BY <1>2, <1>3, <3>1, Zenon DEF BuriedInv
  <2>4. CASE Buried' # Buried
    <3>1. /\ journal # <<>> /\ Tail_state \in Intents /\ Buried' = Buried \cup {Len(journal)}
          /\ \E m \in Nat : m = Len(journal) /\ ~Settles(m)'
      BY <1>1, <2>1, <2>4, BuriedMore, Zenon
    <3>2. JournalRow(s, c, r, cs).state = s /\ JournalRow(s, c, r, cs).ref = r /\ JournalRow(s, c, r, cs).call = c
      BY Zenon DEF JournalRow
    <3>3. Len(journal) \in 1..Len(journal) /\ Tail_state = journal[Len(journal)].state
      BY <1>1, <3>1, SMTT(90) DEF Tail_state, Seq_tail
    <3>4. s = "ASSEMBLE" /\ pc = "assemble"
      <4>1. PICK m \in Nat : m = Len(journal) /\ ~Settles(m)'
        BY <3>1, Zenon
      <4>2. /\ journal'[m] = journal[m] /\ journal'[m + 1].state = s
            /\ journal'[m + 1].ref = r /\ journal'[m + 1].call = c
        BY <2>1, <3>2, <3>3, <4>1, Zenon
      <4> QED BY <1>7, <3>1, <3>3, <4>1, <4>2, Zenon DEF Settles
    <3>5. IsFiniteSet(Buried') /\ Cardinality(Buried') = Cardinality(Buried) + 1
      BY <1>1, <1>5, <3>1, FS_AddElement, Zenon
    <3>6. \A n \in Buried' : journal'[n + 1].state = "ASSEMBLE"
      BY <1>5, <2>1, <2>2, <3>1, <3>2, <3>4, ZenonT(90)
    <3>7. Cardinality(Buried) + 1 <= skipped
      BY <1>4, <1>5, <3>1, <3>4, Zenon DEF One
    <3>8. Kept
      BY <1>4, <1>5, <2>0, <3>5, <3>6, <3>7, SMTT(60)
    <3> QED BY <1>2, <1>3, <3>8, Zenon DEF BuriedInv
  <2> QED BY <2>3, <2>4, Zenon
<1>8. CASE Assemble
  BY <1>7, <1>8, Zenon DEF Assemble
<1>9. CASE ModelDone
  <2>1. journal_append("MODEL_CALL_DONE", NoCall, Seq_tail, <<>>, "responded") /\ Tail_state = "MODEL_CALL_INTENT"
    BY <1>9, Zenon DEF ModelDone, BuriedInv
  <2> QED BY <1>7, <2>1, Zenon
<1>10. CASE ModelErrorStop
  <2>1. journal_append("STOPPED", NoCall, 0, <<>>, "stopping") /\ Tail_state = "MODEL_CALL_INTENT"
    BY <1>10, Zenon DEF ModelErrorStop, _stop, BuriedInv
  <2> QED BY <1>7, <2>1, Zenon
<1>11. CASE ExecDone
  <2>1. /\ journal_append("EXEC_DONE", Head(calls), Len(journal), <<>>, "done")
        /\ Tail_state = "EXEC_INTENT" /\ Head(calls) = journal[Len(journal)].call
    BY <1>11, Zenon DEF ExecDone, Next_call, TailShape, Tail_state, Seq_tail
  <2> QED BY <1>7, <2>1, Zenon
<1>12. CASE Recover /\ journal' # journal
  <2>1. CASE Tail_state = "MODEL_CALL_INTENT" /\ journal_append("RECOVERED", NoCall, Seq_tail, <<>>, "idle")
    BY <1>7, <2>1, Zenon
  <2>2. ASSUME NEW s \in {"EXEC_DONE", "RECOVERED", "FAILED_NEEDS_REVIEW"}, NEW next \in {"idle", "quarantine"},
               Tail_state = "EXEC_INTENT",
               journal_append(s, journal[Seq_tail].call, Seq_tail, <<>>, next)
        PROVE  BuriedInv'
    BY <1>7, <2>2, Zenon DEF Seq_tail
  <2> QED BY <1>12, <2>1, <2>2, Zenon DEF Recover, Settle, store
<1>13. ASSUME pc \notin Dangling, NEW s \in JournalStates \ {"EXEC_DONE"}, NEW c, NEW r, NEW cs, NEW next,
              journal_append(s, c, r, cs, next)
       PROVE  BuriedInv'
  <2>1. Tail_state \notin Intents
    BY <1>13, Zenon DEF BuriedInv
  <2>2. next # "assemble"
    BY <1>1, <1>13, Zenon DEF EvidenceFrame, journal_append, Dangling, Run, Enter
  <2> QED BY <1>7, <1>13, <2>1, <2>2, Zenon
<1> QED BY <1>1, <1>6, <1>8, <1>9, <1>10, <1>11, <1>12, <1>13, Zenon DEF EvidenceFrame

-----------------------------------------------------------------------------
(* What is in flight while the process has not died: runs that are not     *)
(* journaled, journaled runs that are not in the ledger, handled calls     *)
(* that are not answered.                                                  *)

InBatch(c) ==
  {i \in 1..Len(pre) : pre[i] # NoOut /\ calls[i] = c /\ (pc \in {"done", "error", "fold"} => i # 1)}

Unjournaled(c) ==
  IF pre = <<>> THEN One(pc \in {"ran", "put"} /\ Head(calls) = c) ELSE Cardinality(InBatch(c))

Balanced(c) ==
  /\ Ran(c) = Journaled(c) + Unjournaled(c)
  /\ Journaled(c) = Ledgered(c) + One(pc = "done" /\ Head(calls) = c)
  /\ Ledgered(c) + Refused(c) = Answered(c) + One(pc \in {"error", "fold"} /\ Head(calls) = c)

\* No result is stored under an intent before its tool runs; and while the
\* process has not died, the books balance.
EvidenceInv ==
  /\ pc = "intent" => ~tool_result_get(Len(journal))
  /\ crashes = 0 => ~unrecovered /\ \A c \in Calls : Balanced(c)

\* The indices of a batch that count are finitely many.
LEMMA InBatchFinite ==
  ASSUME TypeOK, NEW c
  PROVE  IsFiniteSet(InBatch(c)) /\ Cardinality(InBatch(c)) \in Nat /\ Unjournaled(c) \in Nat
<1>1. Len(pre) \in Nat
  BY DEF TypeOK
<1>2. IsFiniteSet(1..Len(pre)) /\ InBatch(c) \subseteq 1..Len(pre)
  BY <1>1, FS_Interval DEF InBatch
<1>3. IsFiniteSet(InBatch(c)) /\ Cardinality(InBatch(c)) \in Nat
  BY <1>2, FS_Subset, FS_CardinalityType, Zenon
<1> QED BY <1>3, Zenon DEF Unjournaled, One

\* A step that neither runs, records, refuses nor answers a call, and moves
\* between steps where nothing is in flight or does not move.
LEMMA BalancedAside ==
  ASSUME TypeInv, TypeInv', NEW c, Balanced(c),
         UNCHANGED effects, Journaled(c)' = Journaled(c), Ledgered(c)' = Ledgered(c),
         Refused(c)' = Refused(c), Answered(c)' = Answered(c),
         (pc \notin Handling /\ pc' \notin Handling) \/ UNCHANGED <<pc, calls, pre>>
  PROVE  Balanced(c)'
<1>1. Ran(c)' = Ran(c)
  BY Zenon DEF Ran
<1>2. CASE pc \notin Handling /\ pc' \notin Handling
  <2>1. pre = <<>> /\ pre' = <<>>
    BY <1>2, Zenon DEF TypeInv, Shape
  <2>2. Unjournaled(c) = 0 /\ Unjournaled(c)' = 0
    BY <1>2, <2>1, Zenon DEF Unjournaled, One, Handling
  <2> QED BY <1>1, <1>2, <2>2, Zenon DEF Balanced, One, Handling
<1>3. CASE UNCHANGED <<pc, calls, pre>>
  BY <1>1, <1>3, Zenon DEF Balanced, Unjournaled, InBatch
<1> QED BY <1>2, <1>3, Zenon

\* The tail of a sequence is the sequence moved up by one.
LEMMA TailShift ==
  ASSUME NEW S, NEW s \in Seq(S), s # <<>>
  PROVE  /\ Len(s) \in Nat /\ Len(s) >= 1 /\ Len(Tail(s)) = Len(s) - 1
         /\ (Tail(s) = <<>> <=> ~(Len(s) > 1)) /\ (~(Len(s) > 1) => Len(s) = 1)
         /\ \A i \in 1..(Len(s) - 1) : Tail(s)[i] = s[i + 1]
<1>1. Len(s) \in Nat /\ Len(s) # 0
  OBVIOUS
<1>2. Tail(s) \in Seq(S) /\ Len(Tail(s)) = Len(s) - 1
  OBVIOUS
<1>3. \A i \in 1..(Len(s) - 1) : Tail(s)[i] = s[i + 1]
  OBVIOUS
<1>4. Tail(s) = <<>> <=> Len(Tail(s)) = 0
  <2>1. \A t \in Seq(S) : Len(t) = 0 => t = <<>>
    OBVIOUS
  <2>2. Len(<<>>) = 0
    BY Zenon
  <2> QED BY <1>2, <2>1, <2>2, ZenonT(90)
<1> DEFINE n == Len(s)
<1>5. n \in Nat /\ n # 0 /\ (Tail(s) = <<>> <=> n - 1 = 0)
  BY <1>1, <1>2, <1>4, Zenon
<1> HIDE DEF n
<1>6. n >= 1 /\ (Tail(s) = <<>> <=> ~(n > 1)) /\ (~(n > 1) => n = 1)
  BY <1>5
<1> QED BY <1>1, <1>2, <1>3, <1>6, Zenon DEF n

\* The books balance after each step of a kernel that has not died: a batch
\* runs ahead of its rows, a call ahead of its answer, and by no more.
LEMMA EvidenceStep == IInv /\ StoreInv /\ EvidenceInv /\ [Next]_vars => EvidenceInv'
<1> SUFFICES ASSUME IInv, StoreInv, EvidenceInv, [Next]_vars
             PROVE  EvidenceInv'
  BY Zenon
<1>1. TypeInv /\ TypeOK /\ TailShape /\ TypeInv' /\ TypeOK'
  BY TypeInvStep, Zenon DEF IInv, TypeInv
<1>2. Frame /\ StoreFrame /\ EvidenceFrame
  BY <1>1, FrameStep, StoreFrameStep, EvidenceFrameStep, Zenon
<1>3. journal \in Seq(Rows) /\ Len(journal) \in Nat /\ calls \in Seq(Calls) /\ Len(pre) \in Nat
  BY <1>1, SMTT(90) DEF TypeOK
<1>4. pc' = "intent" => ~tool_result_get(Len(journal))'
  <2>1. CASE ExecIntent
    <3>1. tool_results' = tool_results /\ Len(journal') = Len(journal) + 1
      BY <1>3, <2>1, AppendedTail, Zenon DEF ExecIntent, journal_append
    <3> QED BY <1>3, <3>1 DEF StoreInv, tool_result_get
  <2>2. CASE pc = "intent" /\ pc' = "intent" /\ journal' = journal
    <3>1. tool_results' = tool_results
      BY <1>2, <2>2, Zenon DEF StoreFrame, PutResult
    <3> QED BY <2>2, <3>1, Zenon DEF EvidenceInv, tool_result_get
  <2> QED BY <1>2, <2>1, <2>2, Zenon DEF Frame
<1> SUFFICES ASSUME crashes' = 0
             PROVE  ~unrecovered' /\ \A c \in Calls : Balanced(c)'
  BY <1>4, Zenon DEF EvidenceInv
<1>5. crashes = 0 /\ ~Crash
  <2>1. crashes \in Nat
    BY <1>1, Zenon DEF TypeOK
  <2>2. Crash => crashes' = crashes + 1
    BY Zenon DEF Crash
  <2>3. crashes' = crashes \/ Crash
    BY <1>2, Zenon DEF EvidenceFrame
  <2> QED BY <2>1, <2>2, <2>3, SMTT(60)
<1>6. ~unrecovered /\ ~unrecovered'
  BY <1>2, <1>5, Zenon DEF EvidenceInv, EvidenceFrame
<1> SUFFICES ASSUME NEW c \in Calls
             PROVE  Balanced(c)'
  BY <1>6, Zenon
<1>7. Balanced(c)
  BY <1>5, Zenon DEF EvidenceInv
<1>8. /\ Ran(c) \in Nat /\ Journaled(c) \in Nat /\ Ledgered(c) \in Nat /\ Refused(c) \in Nat
      /\ Answered(c) \in Nat /\ Unjournaled(c) \in Nat
  BY <1>1, Counts, InBatchFinite, Zenon
<1>9. /\ effects' = effects => Ran(c)' = Ran(c)
      /\ journal' = journal => Journaled(c)' = Journaled(c)
      /\ ledger' = ledger => Ledgered(c)' = Ledgered(c) /\ Refused(c)' = Refused(c)
      /\ messages' = messages => Answered(c)' = Answered(c)
  BY Zenon DEF Ran, Journaled, Ledgered, Refused, Answered
<1>10. CASE BatchStart
  <2>1. /\ pc = "exec" /\ pc' = "batch" /\ UNCHANGED <<effects, journal, ledger, messages>>
        /\ pre' = [i \in 1..BatchLength(calls) |-> NoOut]
    BY <1>10, Zenon DEF BatchStart, store, others
  <2>2. pre = <<>> /\ pre' # <<>>
    BY <1>1, <2>1, Zenon DEF TypeInv, Shape, Handling
  <2>3. BatchLength(calls) \in Nat
    BY <1>3, BatchIsEligiblePrefix, SMTT(90)
  <2>4. InBatch(c)' = {}
    BY <2>1, <2>3, SMTT(90) DEF InBatch
  <2>5. Unjournaled(c) = 0 /\ Unjournaled(c)' = 0
    BY <2>1, <2>2, <2>4, FS_EmptySet, Zenon DEF Unjournaled, One
  <2> QED BY <1>7, <1>8, <1>9, <2>1, <2>5, Zenon DEF Balanced, One
<1>11. CASE BatchRun
  <2>1. PICK i \in 1..Len(pre), o \in Outcomes :
          /\ pre[i] = NoOut /\ pre' = [pre EXCEPT ![i] = o]
          /\ effects' = Append(effects, [call |-> calls[i], seq |-> 0])
    BY <1>11, ZenonT(90) DEF BatchRun
  <2>2. /\ pc = "batch" /\ pc' = "batch" /\ calls' = calls
        /\ UNCHANGED <<journal, ledger, messages>>
    BY <1>11, Zenon DEF BatchRun, store
  <2>3. Ran(c)' = Ran(c) + One(calls[i] = c)
    BY <1>1, <2>1, EffectMore, SMTT(60)
  <2>4. o # NoOut /\ pre \in Seq(Outcomes \cup {NoOut}) /\ pre # <<>> /\ pre' # <<>>
    BY <1>1, <2>1, <2>2, KernelAssumption, ZenonT(60) DEF NoOut, TypeOK, TypeInv, Shape
  <2>5. Len(pre') = Len(pre) /\ \A j \in 1..Len(pre) : pre'[j] = IF j = i THEN o ELSE pre[j]
    BY <2>1, <2>4, SMTT(90)
  <2>6. InBatch(c)' = (IF calls[i] = c THEN InBatch(c) \cup {i} ELSE InBatch(c)) /\ i \notin InBatch(c)
    <3>1. /\ InBatch(c) = {j \in 1..Len(pre) : pre[j] # NoOut /\ calls[j] = c}
          /\ InBatch(c)' = {j \in 1..Len(pre) : pre'[j] # NoOut /\ calls[j] = c}
      BY <2>2, <2>5, Zenon DEF InBatch
    <3>2. i \notin InBatch(c)
      BY <2>1, <3>1, Zenon
    <3>3. \A j \in 1..Len(pre) : pre'[j] # NoOut <=> j = i \/ pre[j] # NoOut
      BY <2>4, <2>5, Zenon
    <3>4. InBatch(c)' = {j \in 1..Len(pre) : (j = i \/ pre[j] # NoOut) /\ calls[j] = c}
      BY <3>1, <3>3, Zenon
    <3> QED BY <3>1, <3>2, <3>4, Zenon
  <2>7. IsFiniteSet(InBatch(c)) /\ Cardinality(InBatch(c)) \in Nat
    BY <1>1, InBatchFinite, Zenon
  <2>8. Cardinality(InBatch(c) \cup {i}) = Cardinality(InBatch(c)) + 1
    BY <2>6, <2>7, FS_AddElement, ZenonT(90)
  <2>9. Unjournaled(c)' = Unjournaled(c) + One(calls[i] = c)
    BY <2>4, <2>6, <2>7, <2>8, SMTT(60) DEF Unjournaled, One
  <2>10. One(calls[i] = c) \in Nat
    BY Zenon DEF One
  <2> QED BY <1>7, <1>8, <1>9, <2>2, <2>3, <2>9, <2>10, SMTT(90) DEF Balanced, One
<1>12. CASE BatchJoin
  <2>1. /\ pc = "batch" /\ pc' = "execute" /\ UNCHANGED <<pre, calls, effects, journal, ledger, messages>>
    BY <1>12, Zenon DEF BatchJoin, store, others, execvars
  <2>2. Unjournaled(c)' = Unjournaled(c)
    BY <2>1, Zenon DEF Unjournaled, InBatch, One
  <2> QED BY <1>7, <1>8, <1>9, <2>1, <2>2, Zenon DEF Balanced, One
<1>13. CASE GateDenied
  <2>1. /\ pc = "exec" /\ pc' = "fold" /\ UNCHANGED <<pre, calls, effects, journal, messages>>
        /\ ledger_append("approval_denied_exec", Head(calls), 0, "fold")
    BY <1>13, Zenon DEF GateDenied, Sequential, Next_call, ledger_append, others, execvars
  <2>2. Ledgered(c)' = Ledgered(c) /\ Refused(c)' = Refused(c) + One(Head(calls) = c)
    <3>1. /\ Ledgered(c)' = Ledgered(c) + One("approval_denied_exec" = "tool_exec" /\ Head(calls) = c)
          /\ Refused(c)' = Refused(c) + One("approval_denied_exec" \in {"cap_denied", "approval_denied_exec"} /\ Head(calls) = c)
      <4>1. TypeOK /\ 0 \in Nat
        BY <1>1, Zenon
      <4>2. \E next : ledger_append("approval_denied_exec", Head(calls), 0, next)
        BY <2>1, Zenon
      <4> QED BY <4>1, <4>2, LedgerMore
    <3> QED BY <1>8, <3>1, SMTT(90) DEF One
  <2>3. pre = <<>>
    BY <1>1, <2>1, Zenon DEF TypeInv, Shape, Handling
  <2> QED BY <1>7, <1>8, <1>9, <2>1, <2>2, <2>3, SMTT(90) DEF Balanced, Unjournaled, One
<1>14. CASE GateApproved
  <2>1. /\ pc = "exec" /\ pc' = "execute" /\ UNCHANGED <<pre, calls, effects, journal, messages>>
        /\ ledger_append("approval_granted_exec", Head(calls), 0, "execute")
    BY <1>14, Zenon DEF GateApproved, Sequential, Next_call, ledger_append, others, execvars
  <2>2. Ledgered(c)' = Ledgered(c) /\ Refused(c)' = Refused(c)
    <3>1. /\ Ledgered(c)' = Ledgered(c) + One("approval_granted_exec" = "tool_exec" /\ Head(calls) = c)
          /\ Refused(c)' = Refused(c) + One("approval_granted_exec" \in {"cap_denied", "approval_denied_exec"} /\ Head(calls) = c)
      <4>1. TypeOK /\ 0 \in Nat
        BY <1>1, Zenon
      <4>2. \E next : ledger_append("approval_granted_exec", Head(calls), 0, next)
        BY <2>1, Zenon
      <4> QED BY <4>1, <4>2, LedgerMore, ZenonT(90)
    <3> QED BY <1>8, <3>1, SMTT(90) DEF One
  <2>3. pre = <<>>
    BY <1>1, <2>1, Zenon DEF TypeInv, Shape, Handling
  <2> QED BY <1>7, <1>8, <1>9, <2>1, <2>2, <2>3, Zenon DEF Balanced, Unjournaled, One
<1>15. CASE CapDenied
  <2>1. /\ pc \in {"exec", "execute"} /\ pc' = "fold" /\ UNCHANGED <<pre, calls, effects, journal, messages>>
        /\ ledger_append("cap_denied", Head(calls), 0, "fold") /\ Head(calls) \notin Granted
    BY <1>15, Zenon DEF CapDenied, AtExecute, Sequential, Next_call, ledger_append, others, execvars
  <2>2. Ledgered(c)' = Ledgered(c) /\ Refused(c)' = Refused(c) + One(Head(calls) = c)
    <3>1. /\ Ledgered(c)' = Ledgered(c) + One("cap_denied" = "tool_exec" /\ Head(calls) = c)
          /\ Refused(c)' = Refused(c) + One("cap_denied" \in {"cap_denied", "approval_denied_exec"} /\ Head(calls) = c)
      <4>1. TypeOK /\ 0 \in Nat
        BY <1>1, Zenon
      <4>2. \E next : ledger_append("cap_denied", Head(calls), 0, next)
        BY <2>1, Zenon
      <4> QED BY <4>1, <4>2, LedgerMore, SMTT(90)
    <3> QED BY <1>8, <3>1, SMTT(90) DEF One
  <2>3. pre = <<>>
    <3>1. pre \in Seq(Outcomes \cup {NoOut}) /\ Len(pre) <= Len(calls)
      BY <1>1, Zenon DEF TypeOK, TypeInv, Shape
    <3>2. pre # <<>> => 1 \in 1..Len(pre) /\ calls[1] = Head(calls)
      BY <1>3, <3>1, SMTT(90)
    <3> QED BY <1>1, <2>1, <3>2, Zenon DEF TypeInv, Shape, _batch_eligible
  <2> QED BY <1>7, <1>8, <1>9, <2>1, <2>2, <2>3, SMTT(60) DEF Balanced, Unjournaled, One
<1>16. CASE ExecIntent
  <2>1. /\ pc \in {"exec", "execute"} /\ pc' = "intent" /\ UNCHANGED <<pre, calls, effects, ledger, messages>>
        /\ journal_append("EXEC_INTENT", Head(calls), 0, <<>>, "intent")
    BY <1>16, Zenon DEF ExecIntent, AtExecute, Sequential, Next_call, journal_append, others, execvars
  <2>2. Journaled(c)' = Journaled(c)
    BY <1>1, <1>8, <2>1, JournalMore, SMTT(90) DEF One
  <2>3. Unjournaled(c)' = Unjournaled(c)
    BY <2>1, ZenonT(90) DEF Unjournaled, InBatch, One
  <2> QED BY <1>7, <1>8, <1>9, <2>1, <2>2, <2>3, Zenon DEF Balanced, One
<1>17. CASE ToolRun
  <2>1. ~tool_result_get(Seq_tail)
    BY <1>17, Zenon DEF ToolRun, EvidenceInv, Seq_tail
  <2>2. /\ pc = "intent" /\ pc' = "ran" /\ pre = <<>> /\ UNCHANGED <<pre, calls, journal, ledger, messages>>
        /\ effects' = Append(effects, [call |-> Head(calls), seq |-> Len(journal)])
    BY <1>17, <2>1, Zenon DEF ToolRun, Next_call, Seq_tail, store
  <2>3. Ran(c)' = Ran(c) + One(Head(calls) = c)
    BY <1>1, <1>3, <2>2, EffectMore, SMTT(90)
  <2> QED BY <1>7, <1>8, <1>9, <2>2, <2>3, SMTT(60) DEF Balanced, Unjournaled, One
<1>18. CASE UsePrecomputed
  <2>1. /\ pc = "intent" /\ pc' = "ran" /\ pre # <<>>
        /\ UNCHANGED <<pre, calls, effects, journal, ledger, messages>>
    BY <1>18, Zenon DEF UsePrecomputed, store, others
  <2>2. Unjournaled(c)' = Unjournaled(c)
    BY <2>1, Zenon DEF Unjournaled, InBatch
  <2> QED BY <1>7, <1>8, <1>9, <2>1, <2>2, Zenon DEF Balanced, One
<1>19. CASE PutResult
  <2>1. pc = "ran" /\ pc' = "put" /\ UNCHANGED <<pre, calls, effects, journal, ledger, messages>>
    BY <1>19, Zenon DEF PutResult, others, execvars
  <2>2. Unjournaled(c)' = Unjournaled(c)
    BY <2>1, Zenon DEF Unjournaled, InBatch
  <2> QED BY <1>7, <1>8, <1>9, <2>1, <2>2, Zenon DEF Balanced, One
<1>20. CASE ExecDone
  <2>1. /\ pc = "put" /\ pc' = "done" /\ UNCHANGED <<pre, calls, effects, ledger, messages>>
        /\ journal_append("EXEC_DONE", Head(calls), Len(journal), <<>>, "done")
    BY <1>20, Zenon DEF ExecDone, Next_call, Seq_tail, journal_append, others, execvars
  <2>2. Journaled(c)' = Journaled(c) + One(Head(calls) = c)
    <3>1. <<>> \in Seq(Calls)
      BY SMTT(90)
    <3>2. Journaled(c)' = Journaled(c) + One("EXEC_DONE" = "EXEC_DONE" /\ Head(calls) = c)
      BY <1>1, <1>3, <2>1, <3>1, JournalMore, ZenonT(90)
    <3> QED BY <3>2, Zenon DEF One
  <2>3. Unjournaled(c) = Unjournaled(c)' + One(Head(calls) = c) /\ Unjournaled(c)' \in Nat
    <3>1. CASE pre = <<>>
      BY <2>1, <3>1, SMTT(60) DEF Unjournaled, One
    <3>2. CASE pre # <<>>
      <4>1. pre \in Seq(Outcomes) /\ Len(pre) <= Len(calls)
        BY <1>1, <2>1, Zenon DEF TypeInv, Shape
      <4>2. 1 \in 1..Len(pre) /\ calls[1] = Head(calls) /\ pre[1] # NoOut
        BY <1>3, <3>2, <4>1, KernelAssumption, SMTT(90) DEF NoOut
      <4>3. InBatch(c) = (IF Head(calls) = c THEN InBatch(c)' \cup {1} ELSE InBatch(c)') /\ 1 \notin InBatch(c)'
        BY <1>3, <2>1, <4>2, Zenon DEF InBatch
      <4>4. IsFiniteSet(InBatch(c)') /\ Cardinality(InBatch(c)') \in Nat
        <5>1. IsFiniteSet(InBatch(c)) /\ InBatch(c)' \subseteq InBatch(c)
          BY <1>1, <4>3, InBatchFinite, Zenon
        <5> QED BY <5>1, FS_Subset, FS_CardinalityType, Zenon
      <4>5. Cardinality(InBatch(c)' \cup {1}) = Cardinality(InBatch(c)') + 1
        BY <4>3, <4>4, FS_AddElement, Zenon
      <4> QED BY <2>1, <3>2, <4>3, <4>4, <4>5, SMTT(60) DEF Unjournaled, One
    <3> QED BY <3>1, <3>2, Zenon
  <2>4. One(Head(calls) = c) \in Nat
    BY Zenon DEF One
  <2> QED BY <1>7, <1>8, <1>9, <2>1, <2>2, <2>3, <2>4, SMTT(90) DEF Balanced, One
<1>21. CASE LedgerExec
  <2>1. /\ pc = "done" /\ pc' \in {"error", "fold"} /\ UNCHANGED <<pre, calls, effects, journal, messages>>
        /\ \E next : ledger_append("tool_exec", Head(calls), journal[Len(journal)].ref, next)
    BY <1>21, Zenon DEF LedgerExec, Next_call, Seq_tail, ledger_append, others, execvars
  <2>2. journal[Len(journal)].ref \in Nat
    BY <1>1, <1>3, <2>1, LastRow, Zenon DEF TypeInv, Shape
  <2>3. Ledgered(c)' = Ledgered(c) + One(Head(calls) = c) /\ Refused(c)' = Refused(c)
    <3>1. TypeOK /\ \E r \in Nat : \E type, next : type = "tool_exec" /\ ledger_append(type, Head(calls), r, next)
      BY <1>1, <2>1, <2>2, Zenon
    <3>2. PICK type : /\ type = "tool_exec"
                      /\ Ledgered(c)' = Ledgered(c) + One(type = "tool_exec" /\ Head(calls) = c)
                      /\ Refused(c)' = Refused(c) + One(type \in {"cap_denied", "approval_denied_exec"} /\ Head(calls) = c)
      BY <3>1, LedgerMore, SMTT(90)
    <3> QED BY <1>8, <3>2, SMTT(90) DEF One
  <2>4. Unjournaled(c)' = Unjournaled(c)
    BY <2>1, Zenon DEF Unjournaled, InBatch, One
  <2> QED BY <1>7, <1>8, <1>9, <2>1, <2>3, <2>4, SMTT(90) DEF Balanced, One
<1>22. CASE _ledger_tool_error
  <2>1. /\ pc = "error" /\ pc' = "fold" /\ UNCHANGED <<pre, calls, effects, journal, messages>>
        /\ ledger_append("tool_error", Head(calls), 0, "fold")
    BY <1>22, Zenon DEF _ledger_tool_error, Next_call, ledger_append, others, execvars
  <2>2. Ledgered(c)' = Ledgered(c) /\ Refused(c)' = Refused(c)
    <3>1. /\ Ledgered(c)' = Ledgered(c) + One("tool_error" = "tool_exec" /\ Head(calls) = c)
          /\ Refused(c)' = Refused(c) + One("tool_error" \in {"cap_denied", "approval_denied_exec"} /\ Head(calls) = c)
      <4>1. TypeOK /\ 0 \in Nat
        BY <1>1, Zenon
      <4>2. \E next : ledger_append("tool_error", Head(calls), 0, next)
        BY <2>1, Zenon
      <4> QED BY <4>1, <4>2, LedgerMore, Zenon
    <3> QED BY <1>8, <3>1, SMTT(90) DEF One
  <2>3. Unjournaled(c)' = Unjournaled(c)
    BY <2>1, Zenon DEF Unjournaled, InBatch, One
  <2> QED BY <1>7, <1>8, <1>9, <2>1, <2>2, <2>3, Zenon DEF Balanced, One
<1>23. CASE _add_tool_msg
  <2>1. /\ pc = "fold" /\ pc' = (IF Len(pre) > 1 THEN "execute" ELSE "exec")
        /\ UNCHANGED <<effects, journal, ledger>> /\ calls' = Tail(calls)
        /\ pre' = (IF pre = <<>> THEN <<>> ELSE Tail(pre))
        /\ messages' = Append(messages, [role |-> "tool", call |-> Head(calls)])
    BY <1>23, Zenon DEF _add_tool_msg, Next_call, add_message, others
  <2>2. Answered(c)' = Answered(c) + One(Head(calls) = c)
    BY <1>1, <2>1, MessageMore, Zenon DEF One
  <2>3. pre \in Seq(Outcomes) /\ Len(pre) <= Len(calls) /\ calls # <<>>
    BY <1>1, <2>1, Zenon DEF TypeInv, TypeOK, Shape
  <2>4. Unjournaled(c)' = Unjournaled(c)
    <3>1. CASE pre = <<>>
      BY <2>1, <3>1, Zenon DEF Unjournaled, One
    <3>2. pre # <<>> => /\ Len(pre) >= 1 /\ Len(Tail(pre)) = Len(pre) - 1
                        /\ (Tail(pre) = <<>> <=> ~(Len(pre) > 1)) /\ (~(Len(pre) > 1) => Len(pre) = 1)
                        /\ \A i \in 1..(Len(pre) - 1) : Tail(pre)[i] = pre[i + 1]
      BY <2>3, TailShift, Zenon
    <3>3. \A i \in 1..(Len(calls) - 1) : Tail(calls)[i] = calls[i + 1]
      BY <1>3, <2>3, TailShift, Zenon
    <3>4. CASE pre # <<>> /\ ~(Len(pre) > 1)
      <4>1. Len(pre) = 1
        BY <3>2, <3>4, Zenon
      <4>2. pre' = <<>> /\ pc' = "exec"
        BY <2>1, <3>2, <3>4, Zenon
      <4>3. InBatch(c) = {}
        BY <2>1, <4>1, SMTT(90) DEF InBatch
      <4> QED BY <3>4, <4>2, <4>3, FS_EmptySet, Zenon DEF Unjournaled, One
    <3>5. CASE pre # <<>> /\ Len(pre) > 1
      <4>1. /\ pre # <<>> /\ pre' # <<>> /\ Len(pre') = Len(pre) - 1
            /\ \A i \in 1..(Len(pre) - 1) : pre'[i] = pre[i + 1] /\ calls'[i] = calls[i + 1]
        <5>1. Len(calls) \in Nat
          BY <1>3
        <5>2. 1..(Len(pre) - 1) \subseteq 1..(Len(calls) - 1)
          BY <1>3, <2>3, <5>1
        <5> QED BY <2>1, <3>2, <3>3, <3>5, <5>2, Zenon
      <4>2. InBatch(c)' = {i \in 1..(Len(pre) - 1) : pre[i + 1] # NoOut /\ calls[i + 1] = c}
        BY <2>1, <3>5, <4>1, ZenonT(90) DEF InBatch
      <4>3. InBatch(c) = {i \in 2..Len(pre) : pre[i] # NoOut /\ calls[i] = c}
        BY <1>3, <2>1 DEF InBatch
      <4> DEFINE f == [i \in InBatch(c) |-> i - 1]
      <4>4. f \in Bijection(InBatch(c), InBatch(c)')
        <5>1. \A i \in InBatch(c) : i \in Nat /\ f[i] \in InBatch(c)'
          BY <1>3, <4>2, <4>3, SMTT(90)
        <5>2. \A j \in InBatch(c)' : j + 1 \in InBatch(c) /\ f[j + 1] = j
          BY <1>3, <4>2, <4>3, SMTT(90)
        <5> QED BY <5>1, <5>2 DEF Bijection, Injection, Surjection, IsInjective
      <4>5. Cardinality(InBatch(c)') = Cardinality(InBatch(c))
        BY <1>1, <4>4, FS_Bijection, InBatchFinite, Zenon DEF ExistsBijection
      <4> QED BY <4>1, <4>5, Zenon DEF Unjournaled
    <3> QED BY <3>1, <3>4, <3>5, Zenon
  <2> QED BY <1>7, <1>8, <1>9, <2>1, <2>2, <2>4, SMTT(90) DEF Balanced, One
<1>24. CASE (pc \notin Handling /\ pc' \notin Handling) \/ UNCHANGED <<pc, calls, pre>>
  <2>1. CASE BatchRun \/ ToolRun \/ ExecDone \/ LedgerExec \/ GateDenied \/ GateApproved \/ CapDenied \/ _add_tool_msg
    BY <1>11, <1>13, <1>14, <1>15, <1>17, <1>20, <1>21, <1>23, <2>1, Zenon
  <2>2. CASE ~(BatchRun \/ ToolRun \/ ExecDone \/ LedgerExec \/ GateDenied \/ GateApproved \/ CapDenied \/ _add_tool_msg)
    <3>1. effects' = effects
      BY <1>2, <2>2, Zenon DEF Frame
    <3>2. Journaled(c)' = Journaled(c)
      <4>1. Recover => journal' = journal
        BY <1>1, <1>6, ZenonT(90) DEF Recover, TailShape, NothingDangles, store
      <4>2. CASE \E s \in JournalStates \ {"EXEC_DONE"} : \E d, r, cs, next : journal_append(s, d, r, cs, next)
        BY <1>1, <1>8, <4>2, JournalMore, SMTT(90) DEF One
      <4> QED BY <1>2, <1>9, <2>2, <4>1, <4>2, ZenonT(90) DEF EvidenceFrame, Assemble, ModelDone, ModelErrorStop, _stop, JournalStates
    <3>3. Ledgered(c)' = Ledgered(c) /\ Refused(c)' = Refused(c)
      <4>1. CASE \E type \in Plain : \E d, next : ledger_append(type, d, 0, next)
        BY <1>1, <1>8, <4>1, LedgerMore, SMTT(90) DEF One, Plain
      <4> QED BY <1>2, <1>9, <2>2, <4>1, ZenonT(90) DEF EvidenceFrame
    <3>4. Answered(c)' = Answered(c)
      <4>1. CASE \E role \in {"user", "assistant"} : messages' = Append(messages, [role |-> role, call |-> NoCall])
        BY <1>1, <1>8, <4>1, MessageMore, SMTT(90) DEF One
      <4> QED BY <1>2, <1>9, <2>2, <4>1, ZenonT(90) DEF EvidenceFrame
    <3> QED BY <1>1, <1>7, <1>24, <3>1, <3>2, <3>3, <3>4, BalancedAside, Zenon
  <2> QED BY <2>1, <2>2, Zenon
<1> QED BY <1>2, <1>5, <1>10, <1>11, <1>12, <1>13, <1>14, <1>15, <1>16, <1>17, <1>18, <1>19, <1>20, <1>21, <1>22, <1>23, <1>24, ZenonT(60) DEF EvidenceFrame

\* The journal, the ledger and the conversation start empty.
LEMMA EvidenceInit == Init => GrantInv /\ BuriedInv /\ EvidenceInv
<1> SUFFICES ASSUME Init
             PROVE  GrantInv /\ BuriedInv /\ EvidenceInv
  BY Zenon
<1>1. journal = <<>> /\ ledger = <<>> /\ messages = <<>> /\ effects = <<>> /\ pre = <<>> /\ pc = "idle" /\ ~unrecovered
  BY Zenon DEF Init
<1>2. \A G : Tally(<<>>, G) = 0
  BY FS_EmptySet, SMTT(90) DEF Tally
<1>3. \A c \in Calls : /\ Ran(c) = 0 /\ Journaled(c) = 0 /\ Allowed(c) = 0 /\ Ledgered(c) = 0
                       /\ Refused(c) = 0 /\ Answered(c) = 0 /\ Unjournaled(c) = 0
  BY <1>1, <1>2, Zenon DEF Ran, Journaled, Allowed, Ledgered, Refused, Answered, Unjournaled, One
<1>4. GrantInv
  BY <1>1, <1>3, KernelAssumption, SMTT(90) DEF GrantInv, One
<1>5. BuriedInv
  <2>1. Len(journal) = 0 /\ Tail_state \notin Intents /\ skipped = 0
    BY <1>1, Zenon DEF Tail_state, Seq_tail, Intents, Init
  <2>2. Buried = {}
    BY <2>1, SMTT(90) DEF Buried
  <2> QED BY <1>1, <2>1, <2>2, FS_EmptySet, SMTT(90) DEF BuriedInv, One
<1>6. EvidenceInv
  BY <1>1, <1>3, SMTT(90) DEF EvidenceInv, Balanced, One
<1> QED BY <1>4, <1>5, <1>6, Zenon

\* The counts of the properties, which test one field or two, are the tallies
\* of the elements that have those fields.
LEMMA CountsAre ==
  ASSUME TypeOK, NEW c
  PROVE  /\ Ran(c) = Cardinality({i \in DOMAIN effects : effects[i].call = c})
         /\ Journaled(c) = Cardinality({i \in DOMAIN journal : journal[i].call = c /\ journal[i].state = "EXEC_DONE"})
         /\ Allowed(c) = Cardinality({i \in DOMAIN ledger : ledger[i].call = c /\ ledger[i].type = "approval_granted_exec"})
         /\ Ledgered(c) = Cardinality({i \in DOMAIN ledger : ledger[i].call = c /\ ledger[i].type = "tool_exec"})
         /\ Refused(c) = Cardinality({i \in DOMAIN ledger :
                                       ledger[i].call = c /\ ledger[i].type \in {"cap_denied", "approval_denied_exec"}})
         /\ Answered(c) = Cardinality({i \in DOMAIN messages : messages[i].call = c /\ messages[i].role = "tool"})
<1>1. \A i \in DOMAIN effects : effects[i] \in RunsOf(c) <=> effects[i].call = c
  <2> DEFINE E == [call : Calls, seq : Nat]
  <2>0. effects \in Seq(E)
    BY Zenon DEF TypeOK
  <2> HIDE DEF E
  <2>1. \A i \in DOMAIN effects : effects[i] \in E
    BY <2>0, SMTT(90)
  <2> QED BY <2>1, Zenon DEF E, RunsOf
<1>2. \A i \in DOMAIN journal : journal[i] \in DonesOf(c) <=> journal[i].call = c /\ journal[i].state = "EXEC_DONE"
  <2>1. \A i \in DOMAIN journal : journal[i] \in Rows
    BY SMTT(90) DEF TypeOK
  <2> QED BY <2>1, ZenonT(90) DEF DonesOf, Rows
<1>3. \A i \in DOMAIN ledger :
        /\ ledger[i] \in GrantsOf(c) <=> ledger[i].call = c /\ ledger[i].type = "approval_granted_exec"
        /\ ledger[i] \in ExecsOf(c) <=> ledger[i].call = c /\ ledger[i].type = "tool_exec"
        /\ ledger[i] \in RefusalsOf(c) <=> ledger[i].call = c /\ ledger[i].type \in {"cap_denied", "approval_denied_exec"}
  <2> DEFINE E == [type : EventTypes, call : Calls \cup {NoCall}, ref : Nat]
  <2>0. ledger \in Seq(E)
    BY Zenon DEF TypeOK
  <2> HIDE DEF E
  <2>1. \A i \in DOMAIN ledger : ledger[i] \in E
    BY <2>0
  <2> QED BY <2>1, Zenon DEF E, GrantsOf, ExecsOf, RefusalsOf
<1>4. \A i \in DOMAIN messages : messages[i] \in AnswersOf(c) <=> messages[i].call = c /\ messages[i].role = "tool"
  <2> DEFINE E == [role : {"user", "assistant", "tool"}, call : Calls \cup {NoCall}]
  <2>0. messages \in Seq(E)
    BY Zenon DEF TypeOK
  <2> HIDE DEF E
  <2>1. \A i \in DOMAIN messages : messages[i] \in E
    BY <2>0
  <2> QED BY <2>1, Zenon DEF E, AnswersOf
<1>5. Ran(c) = Cardinality({i \in DOMAIN effects : effects[i].call = c})
  BY <1>1, Zenon DEF Ran, Tally
<1>6. Journaled(c) = Cardinality({i \in DOMAIN journal : journal[i].call = c /\ journal[i].state = "EXEC_DONE"})
  BY <1>2, Zenon DEF Journaled, Tally
<1>7. Allowed(c) = Cardinality({i \in DOMAIN ledger : ledger[i].call = c /\ ledger[i].type = "approval_granted_exec"})
  BY <1>3, Zenon DEF Allowed, Tally
<1>8. Ledgered(c) = Cardinality({i \in DOMAIN ledger : ledger[i].call = c /\ ledger[i].type = "tool_exec"})
  BY <1>3, Zenon DEF Ledgered, Tally
<1>9. Refused(c) = Cardinality({i \in DOMAIN ledger :
                                 ledger[i].call = c /\ ledger[i].type \in {"cap_denied", "approval_denied_exec"}})
  BY <1>3, Zenon DEF Refused, Tally
<1>10. Answered(c) = Cardinality({i \in DOMAIN messages : messages[i].call = c /\ messages[i].role = "tool"})
  BY <1>4, Zenon DEF Answered, Tally
<1> QED BY <1>5, <1>6, <1>7, <1>8, <1>9, <1>10, ZenonT(90)

\* Everything the kernel's safety needs, together.
LEMMA EvidenceAlways == Spec => [](IInv /\ StoreInv /\ GrantInv /\ BuriedInv /\ EvidenceInv)
<1>1. Init => StoreInv /\ GrantInv /\ BuriedInv /\ EvidenceInv
  BY LogInit, EvidenceInit, Zenon
<1>2. IInv /\ StoreInv /\ GrantInv /\ BuriedInv /\ EvidenceInv /\ [Next]_vars
        => (StoreInv /\ GrantInv /\ BuriedInv /\ EvidenceInv)'
  BY StoreStep, GrantStep, BuriedStep, EvidenceStep, Zenon DEF IInv
<1> QED BY Invariance, <1>1, <1>2, PTL DEF Spec

\* Each run of a gated tool has an approval_granted_exec event of its own in
\* the ledger, whatever crashes, resumes and late decisions came before.
THEOREM RunsAlwaysGranted == Spec => []RunsAreGranted
<1>1. IInv /\ GrantInv => RunsAreGranted
  <2> SUFFICES ASSUME IInv, GrantInv, NEW c \in Gated
               PROVE  Cardinality({i \in DOMAIN effects : effects[i].call = c})
                        <= Cardinality({i \in DOMAIN ledger : ledger[i].call = c /\ ledger[i].type = "approval_granted_exec"})
    BY Zenon DEF RunsAreGranted, Count
  <2>1. TypeOK /\ Ran(c) <= Allowed(c)
    <3>1. TypeOK /\ Ran(c) + One(pc \in {"execute", "intent"} /\ Head(calls) = c) <= Allowed(c)
      BY Zenon DEF IInv, TypeInv, GrantInv
    <3>2. Ran(c) \in Nat /\ Allowed(c) \in Nat
      BY <3>1, Counts, Zenon
    <3> QED BY <3>1, <3>2 DEF One
  <2> QED BY <2>1, CountsAre, ZenonT(90)
<1> QED BY EvidenceAlways, <1>1, PTL

\* Every intent row is settled by the row after it, but for one per entry of
\* run() that follows a crash without recover().
THEOREM IntentsAlwaysSettled == Spec => []IntentsSettled
<1>1. IInv /\ BuriedInv => IntentsSettled
  <2> SUFFICES ASSUME IInv, BuriedInv
               PROVE  Cardinality(Buried) <= skipped
    BY Zenon DEF IntentsSettled, Buried, BuriedInv
  <2>1. skipped \in Nat /\ Cardinality(Buried) \in Nat
    BY FS_CardinalityType, Zenon DEF IInv, TypeInv, TypeOK, BuriedInv
  <2> QED BY <2>1, SMTT(90) DEF BuriedInv, One
<1> QED BY EvidenceAlways, <1>1, PTL

\* A kernel that has not died returns with complete evidence: runs, EXEC_DONE
\* rows, tool_exec and refusal events and tool messages agree call by call.
THEOREM EvidenceIsComplete == Spec => []EvidenceComplete
<1>1. IInv /\ EvidenceInv => EvidenceComplete
  <2> SUFFICES ASSUME IInv, EvidenceInv
               PROVE  EvidenceComplete
    BY Zenon
  <2>1. TypeOK
    BY Zenon DEF IInv, TypeInv
  <2> DEFINE runs(c) == Cardinality({i \in DOMAIN effects : effects[i].call = c})
             dones(c) == Cardinality({i \in DOMAIN journal : journal[i].call = c /\ journal[i].state = "EXEC_DONE"})
             execs(c) == Cardinality({i \in DOMAIN ledger : ledger[i].call = c /\ ledger[i].type = "tool_exec"})
             refusals(c) == Cardinality({i \in DOMAIN ledger :
                                 ledger[i].call = c /\ ledger[i].type \in {"cap_denied", "approval_denied_exec"}})
             answers(c) == Cardinality({i \in DOMAIN messages : messages[i].call = c /\ messages[i].role = "tool"})
  <2> SUFFICES ASSUME pc = "idle", crashes = 0, NEW c \in Calls
               PROVE  runs(c) = dones(c) /\ runs(c) = execs(c) /\ answers(c) = runs(c) + refusals(c)
    BY Zenon DEF EvidenceComplete, Count
  <2>2. Ran(c) = runs(c) /\ Journaled(c) = dones(c) /\ Ledgered(c) = execs(c) /\ Refused(c) = refusals(c) /\ Answered(c) = answers(c)
    BY <2>1, CountsAre, Zenon
  <2>3. TypeOK /\ Balanced(c) /\ pre = <<>>
    BY Zenon DEF IInv, TypeInv, Shape, Handling, EvidenceInv
  <2>4. /\ Ran(c) \in Nat /\ Journaled(c) \in Nat /\ Ledgered(c) \in Nat /\ Refused(c) \in Nat /\ Answered(c) \in Nat
    BY <2>3, Counts, Zenon
  <2>5. Ran(c) = Journaled(c) /\ Ran(c) = Ledgered(c) /\ Answered(c) = Ran(c) + Refused(c)
    BY <2>3, <2>4 DEF Balanced, Unjournaled, One
  <2> QED BY <2>2, <2>5, Zenon
<1> QED BY EvidenceAlways, <1>1, PTL
=============================================================================
