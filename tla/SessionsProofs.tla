-------------------------- MODULE SessionsProofs ---------------------------
(***************************************************************************)
(* Proofs about Sessions, for every number of threads, jobs, requests and  *)
(* deaths of the process.                                                  *)
(***************************************************************************)
EXTENDS Sessions, TLAPS

Steps == {"idle", "insert", "check", "guard", "register", "run", "unregister", "finish",
          "load", "resume", "signal", "cancel_job", "cancel_session"}

Doings == {"none", "open", "pending", "intent", "gated", "ran"}

Answers == {"none", "completed", "awaiting_approval", "cancelled", "stopped", "raised",
            "resume_noop"}

ThreadStates ==
  [pc : Steps, key : Keys \cup {NoKey}, flag : BOOLEAN, doing : Doings, work : Nat,
   result : Answers, cancels : Threads \cup {NoThread}]

Tallies == [runs : Nat, tools : Nat, gated : Nat]

Uses == [posts : [Keys -> Nat], cancels : Nat, decisions : Nat, crashes : Nat,
         raised : SUBSET Keys]

\* A thread that serves nothing holds nothing; one that serves a request
\* names its job, which is in the table except before a new one is inserted.
ThreadShape(t) ==
  IF th[t].pc = "idle" THEN th[t].key = NoKey /\ th[t].doing = "none" /\ th[t].result = "none"
  ELSE th[t].key \in Keys /\ (th[t].pc # "insert" => jobs[th[t].key] # "absent")

\* The variables keep their types, and while recover_all() works on a job
\* that was left running, no request is served.
TypeInv ==
  /\ jobs \in [Keys -> Statuses] /\ tail \in [Keys -> Tails]
  /\ decided \in [Keys -> {"none", "approved", "denied"}]
  /\ _cancel \in [Keys -> Threads \cup {NoThread}]
  /\ th \in [Threads -> ThreadStates]
  /\ recovering \in [key : Keys, status : {"done", "needs_review"}] \cup {NoRecovery}
  /\ effects \in [Keys -> Tallies] /\ used \in Uses
  /\ \A t \in Threads : ThreadShape(t)
  /\ recovering # NoRecovery =>
       jobs[recovering.key] = "running" /\ used.crashes > 0 /\ \A t \in Threads : th[t].pc = "idle"

-----------------------------------------------------------------------------
(* What a step may do to the threads.  A step moves one thread: the others *)
(* keep their step, job, work and result (only a cancel flag may change).  *)

Moved(t, p, k, d, r) ==
  \A u \in Threads :
    /\ th'[u].pc = IF u = t THEN p ELSE th[u].pc
    /\ th'[u].key = IF u = t THEN k ELSE th[u].key
    /\ th'[u].doing = IF u = t THEN d ELSE th[u].doing
    /\ th'[u].result = IF u = t THEN r ELSE th[u].result

Goes(t, p) == Moved(t, p, th[t].key, th[t].doing, th[t].result)

Idled(t) == Moved(t, "idle", NoKey, "none", "none")

Posting == {"insert", "check", "guard", "register", "run", "unregister"}
Working == {"register", "run", "unregister", "finish"}
Resuming == {"load", "resume"}

\* Only a post brings a thread into run_job(), only a decision into
\* resume_job().
RequestFrame ==
  /\ \/ \E t \in Threads, k \in Keys : Post(t, k)
     \/ /\ used'.posts = used.posts
        /\ \A u \in Threads :
             th'[u].pc \in Posting => th[u].pc \in Posting /\ th'[u].key = th[u].key
  /\ \/ \E t \in Threads, k \in Keys, verdict \in {"approved", "denied"} : DecideGate(t, k, verdict)
     \/ /\ used'.decisions = used.decisions
        /\ \A u \in Threads : th'[u].pc \in Resuming => th[u].pc \in Resuming

\* A run begins with the registration of its flag and ends when that is popped.
FlagFrame ==
  /\ \A u \in Threads :
       /\ th[u].pc \in {"run", "unregister"} =>
            \/ th'[u].pc \in {"run", "unregister"} /\ th'[u].key = th[u].key
            \/ Unregister(u) \/ Crash
       /\ th'[u].pc = "run" => Register(u) \/ (th[u].pc = "run" /\ th'[u].key = th[u].key)
  /\ _cancel' = _cancel \/ Crash \/ \E t \in Threads : Register(t) \/ Unregister(t)

\* A call behind a gate is taken up only where the decision is an approval,
\* and a decision stays.
GateFrame ==
  /\ \A u \in Threads : th'[u].doing \in {"pending", "gated"} =>
       \/ th[u].doing \in {"pending", "gated"} /\ th'[u].key = th[u].key
       \/ decided[th'[u].key] = "approved"
  /\ \A k \in Keys : decided[k] # "none" => decided'[k] = decided[k]
  /\ \A k \in Keys :
       \/ effects'[k].gated = effects[k].gated
       \/ \E u \in Threads : th[u].key = k /\ th[u].doing = "gated"

\* A thread that has set its job running leaves it by a status of its own, or
\* because its kernel raised.
RunFrame ==
  /\ \A u \in Threads :
       /\ th'[u].result = "raised" =>
            \/ th[u].result = "raised" /\ th'[u].key = th[u].key
            \/ th'[u].key \in used'.raised
       /\ th[u].pc \in Working =>
            \/ th'[u].pc \in Working /\ th'[u].key = th[u].key
            \/ Crash \/ jobs'[th[u].key] # "running"
            \/ th[u].result = "raised" \/ th[u].key \in used'.raised
  /\ used.raised \subseteq used'.raised
  /\ used'.crashes = used.crashes \/ Crash
  /\ \A k \in Keys :
       /\ jobs[k] = "absent" /\ jobs'[k] # "absent" =>
            \E t \in Threads : th[t].pc = "insert" /\ th[t].key = k
       /\ jobs'[k] = "running" =>
            jobs[k] = "running" \/ \E t \in Threads : th'[t].pc = "register" /\ th'[t].key = k

KeyFrame == \A u \in Threads : ThreadShape(u)'

Frame == RequestFrame /\ FlagFrame /\ GateFrame /\ RunFrame /\ KeyFrame

\* How each operation moves its thread.
LEMMA Moves ==
  ASSUME TypeInv, NEW t \in Threads
  PROVE  /\ Insert(t) =>
              IF jobs[th[t].key] = "absent" THEN Goes(t, "check") ELSE Idled(t)
         /\ Check(t) =>
              IF jobs[th[t].key] \notin {"done", "cancelled"} THEN Goes(t, "guard") ELSE Idled(t)
         /\ PackageGuard(t) =>
              IF jobs'[th[t].key] = "running" THEN Goes(t, "register") ELSE Idled(t)
         /\ Register(t) =>
              Moved(t, "run", th[t].key, "open", th[t].result)
         /\ KernelIntent(t) =>
              Moved(t, th[t].pc, th[t].key, IF th[t].doing = "pending" THEN "gated" ELSE "intent", th[t].result)
         /\ KernelEffect(t) =>
              Moved(t, th[t].pc, th[t].key, "ran", th[t].result)
         /\ KernelDone(t) =>
              Moved(t, th[t].pc, th[t].key, "open", th[t].result)
         /\ KernelReturn(t) =>
              \E r : /\ Moved(t, IF th[t].pc = "run" THEN "unregister" ELSE "finish", th[t].key, th[t].doing, r)
                     /\ r = "completed" => tail'[th[t].key] = "final"
         /\ KernelRaise(t) =>
              IF th[t].pc = "run" THEN Moved(t, "unregister", th[t].key, th[t].doing, "raised") ELSE Idled(t)
         /\ Unregister(t) =>
              IF th[t].result # "raised" THEN Goes(t, "finish") ELSE Idled(t)
         /\ Finish(t) => Idled(t)
         /\ Resume(t) =>
              IF tail[th[t].key] # "gate" THEN Moved(t, "finish", th[t].key, th[t].doing, "resume_noop")
              ELSE Moved(t, "resume", th[t].key, IF decided[th[t].key] = "approved" THEN "pending" ELSE "open", th[t].result)
         /\ CancelSignal(t) => Goes(t, "cancel_job")
         /\ CancelJob(t) => Goes(t, "cancel_session")
         /\ CancelSession(t) => Idled(t)
         /\ \A k \in Keys : Post(t, k) =>
              Moved(t, IF jobs[k] = "absent" THEN "insert" ELSE "check", k, th[t].doing, th[t].result)
         /\ \A k \in Keys : CancelLookup(t, k) =>
              Moved(t, "signal", k, th[t].doing, th[t].result)
         /\ \A k \in Keys, verdict \in {"approved", "denied"} : DecideGate(t, k, verdict) =>
              Moved(t, "load", k, th[t].doing, th[t].result)
<1>0. th \in [Threads -> ThreadStates]
  BY Zenon DEF TypeInv
<1>1. ASSUME Insert(t)
      PROVE  IF jobs[th[t].key] = "absent" THEN Goes(t, "check") ELSE Idled(t)
  <2>0. th[t] \in ThreadStates /\ th[t].pc = "insert" /\ th[t].key \in Keys
    BY <1>0, <1>1, Zenon DEF TypeInv, ThreadShape, Insert, At
  <2> QED
    BY <1>0, <1>1, <2>0 DEF Moved, Goes, Idled, ThreadStates, Idle, Insert, At, job_set_status, Goto, Return
<1>2. ASSUME Check(t)
      PROVE  IF jobs[th[t].key] \notin {"done", "cancelled"} THEN Goes(t, "guard") ELSE Idled(t)
  <2>0. th[t] \in ThreadStates /\ th[t].pc = "check" /\ th[t].key \in Keys
    BY <1>0, <1>2, Zenon DEF TypeInv, ThreadShape, Check, At
  <2> QED
    BY <1>0, <1>2, <2>0 DEF Moved, Goes, Idled, ThreadStates, Idle, Check, At, Goto, Return
<1>3. ASSUME PackageGuard(t)
      PROVE  IF jobs'[th[t].key] = "running" THEN Goes(t, "register") ELSE Idled(t)
  <2>0. th[t] \in ThreadStates /\ th[t].pc = "guard" /\ th[t].key \in Keys
    BY <1>0, <1>3, Zenon DEF TypeInv, ThreadShape, PackageGuard, At
  <2> QED
    <3>1. PICK ok \in GuardOutcomes :
            /\ jobs'[th[t].key] = IF ok THEN "running" ELSE "refused"
            /\ IF ok THEN Goto(t, "register") ELSE Return(t)
      BY <1>3, <2>0, Zenon DEF PackageGuard, job_set_status, TypeInv
    <3>2. CASE ok
      BY <1>0, <2>0, <3>1, <3>2, ZenonT(60) DEF Moved, Goes, ThreadStates, Goto
    <3>3. CASE ~ok
      BY <1>0, <2>0, <3>1, <3>3 DEF Moved, Goes, Idled, ThreadStates, Idle, Return
    <3> QED
      BY <3>2, <3>3, Zenon
<1>4. ASSUME Register(t)
      PROVE  Moved(t, "run", th[t].key, "open", th[t].result)
  <2>0. th[t] \in ThreadStates /\ th[t].pc = "register" /\ th[t].key \in Keys
    BY <1>0, <1>4, Zenon DEF TypeInv, ThreadShape, Register, At
  <2> QED
    BY <1>0, <1>4, <2>0, Zenon DEF Moved, Goes, Idled, ThreadStates, Idle, Register, At
<1>5. ASSUME KernelIntent(t)
      PROVE  Moved(t, th[t].pc, th[t].key, IF th[t].doing = "pending" THEN "gated" ELSE "intent", th[t].result)
  <2>0. th[t] \in ThreadStates /\ th[t].pc \in {"run", "resume"} /\ th[t].key \in Keys
    BY <1>0, <1>5, Zenon DEF TypeInv, ThreadShape, KernelIntent, InKernel
  <2> QED
    BY <1>0, <1>5, <2>0, Zenon DEF Moved, Goes, Idled, ThreadStates, Idle, KernelIntent, InKernel
<1>6. ASSUME KernelEffect(t)
      PROVE  Moved(t, th[t].pc, th[t].key, "ran", th[t].result)
  <2>0. th[t] \in ThreadStates /\ th[t].pc \in {"run", "resume"} /\ th[t].key \in Keys
    BY <1>0, <1>6, Zenon DEF TypeInv, ThreadShape, KernelEffect, InKernel
  <2> QED
    BY <1>0, <1>6, <2>0, Zenon DEF Moved, Goes, Idled, ThreadStates, Idle, KernelEffect, InKernel
<1>7. ASSUME KernelDone(t)
      PROVE  Moved(t, th[t].pc, th[t].key, "open", th[t].result)
  <2>0. th[t] \in ThreadStates /\ th[t].pc \in {"run", "resume"} /\ th[t].key \in Keys
    BY <1>0, <1>7, Zenon DEF TypeInv, ThreadShape, KernelDone, InKernel
  <2> QED
    BY <1>0, <1>7, <2>0, Zenon DEF Moved, Goes, Idled, ThreadStates, Idle, KernelDone, InKernel
<1>8. ASSUME KernelReturn(t)
      PROVE  \E r : /\ Moved(t, IF th[t].pc = "run" THEN "unregister" ELSE "finish", th[t].key, th[t].doing, r)
                    /\ r = "completed" => tail'[th[t].key] = "final"
  <2>0. th[t] \in ThreadStates /\ th[t].pc \in {"run", "resume"} /\ th[t].key \in Keys
    BY <1>0, <1>8, Zenon DEF TypeInv, ThreadShape, KernelReturn, InKernel
  <2> QED
    BY <1>0, <1>8, <2>0 DEF Moved, Goes, Idled, ThreadStates, Idle, KernelReturn, InKernel
<1>9. ASSUME KernelRaise(t)
      PROVE  IF th[t].pc = "run" THEN Moved(t, "unregister", th[t].key, th[t].doing, "raised") ELSE Idled(t)
  <2>0. th[t] \in ThreadStates /\ th[t].pc \in {"run", "resume"} /\ th[t].key \in Keys
    BY <1>0, <1>9, Zenon DEF TypeInv, ThreadShape, KernelRaise, InKernel
  <2> QED
    BY <1>0, <1>9, <2>0 DEF Moved, Goes, Idled, ThreadStates, Idle, KernelRaise, InKernel, Return
<1>10. ASSUME Unregister(t)
      PROVE  IF th[t].result # "raised" THEN Goes(t, "finish") ELSE Idled(t)
  <2>0. th[t] \in ThreadStates /\ th[t].pc = "unregister" /\ th[t].key \in Keys
    BY <1>0, <1>10, Zenon DEF TypeInv, ThreadShape, Unregister, At
  <2> QED
    BY <1>0, <1>10, <2>0, Zenon DEF Moved, Goes, Idled, ThreadStates, Idle, Unregister, At
<1>11. ASSUME Finish(t)
      PROVE  Idled(t)
  <2>0. th[t] \in ThreadStates /\ th[t].pc = "finish" /\ th[t].key \in Keys
    BY <1>0, <1>11, Zenon DEF TypeInv, ThreadShape, Finish, At
  <2> QED
    BY <1>0, <1>11, <2>0, Zenon DEF Moved, Goes, Idled, ThreadStates, Idle, Finish, At, job_set_status, Return, _status_for
<1>12. ASSUME Resume(t)
      PROVE  IF tail[th[t].key] # "gate" THEN Moved(t, "finish", th[t].key, th[t].doing, "resume_noop")
              ELSE Moved(t, "resume", th[t].key, IF decided[th[t].key] = "approved" THEN "pending" ELSE "open", th[t].result)
  <2>0. th[t] \in ThreadStates /\ th[t].pc = "load" /\ th[t].key \in Keys
    BY <1>0, <1>12, Zenon DEF TypeInv, ThreadShape, Resume, At
  <2> QED
    BY <1>0, <1>12, <2>0 DEF Moved, Goes, Idled, ThreadStates, Idle, Resume, At
<1>13. ASSUME CancelSignal(t)
      PROVE  Goes(t, "cancel_job")
  <2>0. th[t] \in ThreadStates /\ th[t].pc = "signal" /\ th[t].key \in Keys
    BY <1>0, <1>13, Zenon DEF TypeInv, ThreadShape, CancelSignal, At
  <2> QED
    <3>1. CASE th[t].cancels # NoThread /\ th[th[t].cancels].pc = "run"
      <4>1. th[t].cancels \in Threads /\ th[t].cancels # t
        BY <1>0, <1>13, <3>1, Zenon DEF ThreadStates, CancelSignal, At
      <4> QED
        BY <1>0, <1>13, <3>1, <4>1 DEF Moved, Goes, ThreadStates, CancelSignal
    <3>2. CASE ~(th[t].cancels # NoThread /\ th[th[t].cancels].pc = "run")
      BY <1>0, <1>13, <3>2, ZenonT(60) DEF Moved, Goes, ThreadStates, CancelSignal, Goto
    <3> QED
      BY <3>1, <3>2, Zenon
<1>14. ASSUME CancelJob(t)
      PROVE  Goes(t, "cancel_session")
  <2>0. th[t] \in ThreadStates /\ th[t].pc = "cancel_job" /\ th[t].key \in Keys
    BY <1>0, <1>14, Zenon DEF TypeInv, ThreadShape, CancelJob, At
  <2> QED
    BY <1>0, <1>14, <2>0, Zenon DEF Moved, Goes, Idled, ThreadStates, Idle, CancelJob, At, job_set_status, Goto
<1>15. ASSUME CancelSession(t)
      PROVE  Idled(t)
  <2>0. th[t] \in ThreadStates /\ th[t].pc = "cancel_session" /\ th[t].key \in Keys
    BY <1>0, <1>15, Zenon DEF TypeInv, ThreadShape, CancelSession, At
  <2> QED
    BY <1>0, <1>15, <2>0, Zenon DEF Moved, Goes, Idled, ThreadStates, Idle, CancelSession, At, Return
<1>16. ASSUME NEW k \in Keys, Post(t, k)
      PROVE  Moved(t, IF jobs[k] = "absent" THEN "insert" ELSE "check", k, th[t].doing, th[t].result)
  <2>0. th[t] \in ThreadStates /\ th[t].pc = "idle"
    BY <1>0, <1>16, Zenon DEF TypeInv, ThreadShape, Post, At
  <2> QED
    BY <1>0, <1>16, <2>0, Zenon DEF Moved, Goes, Idled, ThreadStates, Idle, Post, At
<1>17. ASSUME NEW k \in Keys, CancelLookup(t, k)
      PROVE  Moved(t, "signal", k, th[t].doing, th[t].result)
  <2>0. th[t] \in ThreadStates /\ th[t].pc = "idle"
    BY <1>0, <1>17, Zenon DEF TypeInv, ThreadShape, CancelLookup, At
  <2> QED
    BY <1>0, <1>17, <2>0, Zenon DEF Moved, Goes, Idled, ThreadStates, Idle, CancelLookup, At
<1>18. ASSUME NEW k \in Keys, NEW verdict \in {"approved", "denied"}, DecideGate(t, k, verdict)
      PROVE  Moved(t, "load", k, th[t].doing, th[t].result)
  <2>0. th[t] \in ThreadStates /\ th[t].pc = "idle"
    BY <1>0, <1>18, Zenon DEF TypeInv, ThreadShape, DecideGate, At
  <2> QED
    BY <1>0, <1>18, <2>0, Zenon DEF Moved, Goes, Idled, ThreadStates, Idle, DecideGate, At
<1> QED
  BY <1>1, <1>2, <1>3, <1>4, <1>5, <1>6, <1>7, <1>8, <1>9, <1>10, <1>11, <1>12, <1>13, <1>14, <1>15, <1>16, <1>17, <1>18, Zenon

\* Every step is one of the cases of the frames.
LEMMA FrameStep == TypeInv /\ [Next]_vars => Frame
<1> SUFFICES ASSUME TypeInv, [Next]_vars
             PROVE  Frame
  BY Zenon
<1>0. th \in [Threads -> ThreadStates]
  BY Zenon DEF TypeInv
<1>1. ASSUME NEW t \in Threads, Insert(t)
      PROVE  Frame
  <2>0. th[t] \in ThreadStates /\ th[t].pc = "insert" /\ th[t].key \in Keys
    BY <1>0, <1>1, Zenon DEF TypeInv, ThreadShape, Insert, At
  <2>1. IF jobs[th[t].key] = "absent" THEN Goes(t, "check") ELSE Idled(t)
    BY <1>1, Moves, Zenon
  <2>2. RequestFrame
    BY <1>1, <2>0, <2>1, Zenon DEF Moved, Goes, Idled, RequestFrame, Posting, Resuming, TypeInv, Insert
  <2>3. FlagFrame
    BY <1>1, <2>0, <2>1, Zenon DEF Moved, Goes, Idled, FlagFrame, TypeInv, Insert
  <2>4. GateFrame
    BY <1>1, <2>0, <2>1, Zenon DEF Moved, Goes, Idled, GateFrame, TypeInv, ThreadShape, Insert
  <2>5. RunFrame
    BY <1>1, <2>0, <2>1, Zenon DEF Moved, Goes, Idled, RunFrame, Working, TypeInv, ThreadShape, Insert, job_set_status
  <2>6. KeyFrame
    BY <1>1, <2>0, <2>1 DEF Moved, Goes, Idled, KeyFrame, TypeInv, ThreadShape, Insert, job_set_status
  <2> QED
    BY <2>2, <2>3, <2>4, <2>5, <2>6, Zenon DEF Frame
<1>2. ASSUME NEW t \in Threads, Check(t)
      PROVE  Frame
  <2>0. th[t] \in ThreadStates /\ th[t].pc = "check" /\ th[t].key \in Keys
    BY <1>0, <1>2, Zenon DEF TypeInv, ThreadShape, Check, At
  <2>1. IF jobs[th[t].key] \notin {"done", "cancelled"} THEN Goes(t, "guard") ELSE Idled(t)
    BY <1>2, Moves, Zenon
  <2>2. RequestFrame
    BY <1>2, <2>0, <2>1, Zenon DEF Moved, Goes, Idled, RequestFrame, Posting, Resuming, TypeInv, Check
  <2>3. FlagFrame
    BY <1>2, <2>0, <2>1, Zenon DEF Moved, Goes, Idled, FlagFrame, TypeInv, Check
  <2>4. GateFrame
    BY <1>2, <2>0, <2>1, Zenon DEF Moved, Goes, Idled, GateFrame, TypeInv, ThreadShape, Check
  <2>5. RunFrame
    BY <1>2, <2>0, <2>1, Zenon DEF Moved, Goes, Idled, RunFrame, Working, TypeInv, ThreadShape, Check
  <2>6. KeyFrame
    BY <1>2, <2>0, <2>1 DEF Moved, Goes, Idled, KeyFrame, TypeInv, ThreadShape, Check
  <2> QED
    BY <2>2, <2>3, <2>4, <2>5, <2>6, Zenon DEF Frame
<1>3. ASSUME NEW t \in Threads, PackageGuard(t)
      PROVE  Frame
  <2>0. th[t] \in ThreadStates /\ th[t].pc = "guard" /\ th[t].key \in Keys
    BY <1>0, <1>3, Zenon DEF TypeInv, ThreadShape, PackageGuard, At
  <2>1. IF jobs'[th[t].key] = "running" THEN Goes(t, "register") ELSE Idled(t)
    BY <1>3, Moves, Zenon
  <2>2. /\ used' = used /\ jobs'[th[t].key] \in {"running", "refused"}
        /\ \A k \in Keys : k # th[t].key => jobs'[k] = jobs[k]
    BY <1>3, <2>0, Zenon DEF PackageGuard, job_set_status, TypeInv
  <2>3. RequestFrame
    BY <1>3, <2>0, <2>1, Zenon DEF Moved, Goes, Idled, RequestFrame, Posting, Resuming, TypeInv, PackageGuard
  <2>4. FlagFrame
    BY <1>3, <2>0, <2>1, Zenon DEF Moved, Goes, Idled, FlagFrame, TypeInv, PackageGuard
  <2>5. GateFrame
    BY <1>3, <2>0, <2>1, Zenon DEF Moved, Goes, Idled, GateFrame, TypeInv, ThreadShape, PackageGuard
  <2>6. RunFrame
    BY <2>0, <2>1, <2>2 DEF Moved, Goes, Idled, RunFrame, Working, TypeInv, ThreadShape
  <2>7. KeyFrame
    BY <2>0, <2>1, <2>2 DEF Moved, Goes, Idled, KeyFrame, TypeInv, ThreadShape
  <2> QED
    BY <2>3, <2>4, <2>5, <2>6, <2>7, Zenon DEF Frame
<1>4. ASSUME NEW t \in Threads, Register(t)
      PROVE  Frame
  <2>0. th[t] \in ThreadStates /\ th[t].pc = "register" /\ th[t].key \in Keys
    BY <1>0, <1>4, Zenon DEF TypeInv, ThreadShape, Register, At
  <2>1. Moved(t, "run", th[t].key, "open", th[t].result)
    BY <1>4, Moves, Zenon
  <2>2. RequestFrame
    BY <1>4, <2>0, <2>1, SMTT(90) DEF Moved, Goes, Idled, RequestFrame, Posting, Resuming, TypeInv, Register
  <2>3. FlagFrame
    BY <1>4, <2>0, <2>1, Zenon DEF Moved, Goes, Idled, FlagFrame, TypeInv, Register
  <2>4. GateFrame
    BY <1>4, <2>0, <2>1 DEF Moved, Goes, Idled, GateFrame, TypeInv, ThreadShape, Register
  <2>5. RunFrame
    BY <1>4, <2>0, <2>1, Zenon DEF Moved, Goes, Idled, RunFrame, Working, TypeInv, ThreadShape, Register
  <2>6. KeyFrame
    BY <1>4, <2>0, <2>1 DEF Moved, Goes, Idled, KeyFrame, TypeInv, ThreadShape, Register
  <2> QED
    BY <2>2, <2>3, <2>4, <2>5, <2>6, Zenon DEF Frame
<1>5. ASSUME NEW t \in Threads, KernelIntent(t)
      PROVE  Frame
  <2>0. th[t] \in ThreadStates /\ th[t].pc \in {"run", "resume"} /\ th[t].key \in Keys
    BY <1>0, <1>5, Zenon DEF TypeInv, ThreadShape, KernelIntent, InKernel
  <2>1. Moved(t, th[t].pc, th[t].key, IF th[t].doing = "pending" THEN "gated" ELSE "intent", th[t].result)
    BY <1>5, Moves, Zenon
  <2>2. RequestFrame
    BY <1>5, <2>0, <2>1 DEF Moved, Goes, Idled, RequestFrame, Posting, Resuming, TypeInv, KernelIntent
  <2>3. FlagFrame
    BY <1>5, <2>0, <2>1, Zenon DEF Moved, Goes, Idled, FlagFrame, TypeInv, KernelIntent
  <2>4. GateFrame
    BY <1>5, <2>0, <2>1 DEF Moved, Goes, Idled, GateFrame, TypeInv, ThreadShape, KernelIntent
  <2>5. RunFrame
    BY <1>5, <2>0, <2>1 DEF Moved, Goes, Idled, RunFrame, Working, TypeInv, ThreadShape, KernelIntent
  <2>6. KeyFrame
    BY <1>5, <2>0, <2>1 DEF Moved, Goes, Idled, KeyFrame, TypeInv, ThreadShape, KernelIntent
  <2> QED
    BY <2>2, <2>3, <2>4, <2>5, <2>6, Zenon DEF Frame
<1>6. ASSUME NEW t \in Threads, KernelEffect(t)
      PROVE  Frame
  <2>0. th[t] \in ThreadStates /\ th[t].pc \in {"run", "resume"} /\ th[t].key \in Keys
    BY <1>0, <1>6, Zenon DEF TypeInv, ThreadShape, KernelEffect, InKernel
  <2>1. Moved(t, th[t].pc, th[t].key, "ran", th[t].result)
    BY <1>6, Moves, Zenon
  <2>2. RequestFrame
    BY <1>6, <2>0, <2>1, Zenon DEF Moved, Goes, Idled, RequestFrame, Posting, Resuming, TypeInv, KernelEffect
  <2>3. FlagFrame
    BY <1>6, <2>0, <2>1, Zenon DEF Moved, Goes, Idled, FlagFrame, TypeInv, KernelEffect
  <2>4. GateFrame
    <3>1. effects \in [Keys -> Tallies] /\ decided' = decided
      BY <1>6, Zenon DEF TypeInv, KernelEffect
    <3>2. \A k \in Keys : k # th[t].key \/ th[t].doing # "gated" => effects'[k].gated = effects[k].gated
      BY <1>6, <2>0, <3>1 DEF Tallies, KernelEffect
    <3> QED
      BY <2>0, <2>1, <3>1, <3>2, Zenon DEF Moved, GateFrame, TypeInv
  <2>5. RunFrame
    BY <1>6, <2>0, <2>1, Zenon DEF Moved, Goes, Idled, RunFrame, Working, TypeInv, ThreadShape, KernelEffect
  <2>6. KeyFrame
    BY <1>6, <2>0, <2>1 DEF Moved, Goes, Idled, KeyFrame, TypeInv, ThreadShape, KernelEffect
  <2> QED
    BY <2>2, <2>3, <2>4, <2>5, <2>6, Zenon DEF Frame
<1>7. ASSUME NEW t \in Threads, KernelDone(t)
      PROVE  Frame
  <2>0. th[t] \in ThreadStates /\ th[t].pc \in {"run", "resume"} /\ th[t].key \in Keys
    BY <1>0, <1>7, Zenon DEF TypeInv, ThreadShape, KernelDone, InKernel
  <2>1. Moved(t, th[t].pc, th[t].key, "open", th[t].result)
    BY <1>7, Moves, Zenon
  <2>2. RequestFrame
    BY <1>7, <2>0, <2>1, Zenon DEF Moved, Goes, Idled, RequestFrame, Posting, Resuming, TypeInv, KernelDone
  <2>3. FlagFrame
    BY <1>7, <2>0, <2>1, Zenon DEF Moved, Goes, Idled, FlagFrame, TypeInv, KernelDone
  <2>4. GateFrame
    BY <1>7, <2>0, <2>1 DEF Moved, Goes, Idled, GateFrame, TypeInv, ThreadShape, KernelDone
  <2>5. RunFrame
    BY <1>7, <2>0, <2>1, ZenonT(60) DEF Moved, Goes, Idled, RunFrame, Working, TypeInv, ThreadShape, KernelDone
  <2>6. KeyFrame
    BY <1>7, <2>0, <2>1 DEF Moved, Goes, Idled, KeyFrame, TypeInv, ThreadShape, KernelDone
  <2> QED
    BY <2>2, <2>3, <2>4, <2>5, <2>6, Zenon DEF Frame
<1>8. ASSUME NEW t \in Threads, KernelReturn(t)
      PROVE  Frame
  <2>0. th[t] \in ThreadStates /\ th[t].pc \in {"run", "resume"} /\ th[t].key \in Keys
    BY <1>0, <1>8, Zenon DEF TypeInv, ThreadShape, KernelReturn, InKernel
  <2>1. \E r : /\ Moved(t, IF th[t].pc = "run" THEN "unregister" ELSE "finish", th[t].key, th[t].doing, r)
               /\ r = "completed" => tail'[th[t].key] = "final"
    BY <1>8, Moves, Zenon
  <2>2. RequestFrame
    BY <1>8, <2>0, <2>1, ZenonT(60) DEF Moved, Goes, Idled, RequestFrame, Posting, Resuming, TypeInv, KernelReturn
  <2>3. FlagFrame
    BY <1>8, <2>0, <2>1, ZenonT(60) DEF Moved, Goes, Idled, FlagFrame, TypeInv, KernelReturn
  <2>4. GateFrame
    BY <1>8, <2>0, <2>1, Zenon DEF Moved, Goes, Idled, GateFrame, TypeInv, ThreadShape, KernelReturn
  <2>5. RunFrame
    BY <1>8, <2>0, <2>1 DEF Moved, Goes, Idled, RunFrame, Working, TypeInv, ThreadShape, KernelReturn
  <2>6. KeyFrame
    BY <1>8, <2>0, <2>1 DEF Moved, Goes, Idled, KeyFrame, TypeInv, ThreadShape, KernelReturn
  <2> QED
    BY <2>2, <2>3, <2>4, <2>5, <2>6, Zenon DEF Frame
<1>9. ASSUME NEW t \in Threads, KernelRaise(t)
      PROVE  Frame
  <2>0. th[t] \in ThreadStates /\ th[t].pc \in {"run", "resume"} /\ th[t].key \in Keys
    BY <1>0, <1>9, Zenon DEF TypeInv, ThreadShape, KernelRaise, InKernel
  <2>1. IF th[t].pc = "run" THEN Moved(t, "unregister", th[t].key, th[t].doing, "raised") ELSE Idled(t)
    BY <1>9, Moves, Zenon
  <2>2. RequestFrame
    BY <1>9, <2>0, <2>1 DEF Moved, Goes, Idled, RequestFrame, Posting, Resuming, TypeInv, KernelRaise
  <2>3. FlagFrame
    BY <1>9, <2>0, <2>1, Zenon DEF Moved, Goes, Idled, FlagFrame, TypeInv, KernelRaise
  <2>4. GateFrame
    BY <1>9, <2>0, <2>1, Zenon DEF Moved, Goes, Idled, GateFrame, TypeInv, ThreadShape, KernelRaise
  <2>5. RunFrame
    BY <1>9, <2>0, <2>1 DEF Moved, Goes, Idled, RunFrame, Working, TypeInv, ThreadShape, KernelRaise
  <2>6. KeyFrame
    BY <1>9, <2>0, <2>1 DEF Moved, Goes, Idled, KeyFrame, TypeInv, ThreadShape, KernelRaise
  <2> QED
    BY <2>2, <2>3, <2>4, <2>5, <2>6, Zenon DEF Frame
<1>10. ASSUME NEW t \in Threads, Unregister(t)
      PROVE  Frame
  <2>0. th[t] \in ThreadStates /\ th[t].pc = "unregister" /\ th[t].key \in Keys
    BY <1>0, <1>10, Zenon DEF TypeInv, ThreadShape, Unregister, At
  <2>1. IF th[t].result # "raised" THEN Goes(t, "finish") ELSE Idled(t)
    BY <1>10, Moves, Zenon
  <2>2. RequestFrame
    BY <1>10, <2>0, <2>1 DEF Moved, Goes, Idled, RequestFrame, Posting, Resuming, TypeInv, Unregister
  <2>3. FlagFrame
    BY <1>10, <2>0, <2>1, Zenon DEF Moved, Goes, Idled, FlagFrame
  <2>4. GateFrame
    BY <1>10, <2>0, <2>1 DEF Moved, Goes, Idled, GateFrame, TypeInv, ThreadShape, Unregister
  <2>5. RunFrame
    BY <1>10, <2>0, <2>1 DEF Moved, Goes, Idled, RunFrame, Working, TypeInv, ThreadShape, Unregister
  <2>6. KeyFrame
    BY <1>10, <2>0, <2>1 DEF Moved, Goes, Idled, KeyFrame, TypeInv, ThreadShape, Unregister
  <2> QED
    BY <2>2, <2>3, <2>4, <2>5, <2>6, Zenon DEF Frame
<1>11. ASSUME NEW t \in Threads, Finish(t)
      PROVE  Frame
  <2>0. th[t] \in ThreadStates /\ th[t].pc = "finish" /\ th[t].key \in Keys
    BY <1>0, <1>11, Zenon DEF TypeInv, ThreadShape, Finish, At
  <2>1. Idled(t)
    BY <1>11, Moves, Zenon
  <2>2. /\ used' = used /\ jobs'[th[t].key] \notin {"running", "absent"}
        /\ \A k \in Keys : k # th[t].key => jobs'[k] = jobs[k]
    BY <1>11, <2>0, Zenon DEF Finish, job_set_status, TypeInv, _status_for
  <2>3. RequestFrame
    BY <1>11, <2>0, <2>1, Zenon DEF Moved, Goes, Idled, RequestFrame, Posting, Resuming, TypeInv, Finish
  <2>4. FlagFrame
    BY <1>11, <2>0, <2>1, Zenon DEF Moved, Goes, Idled, FlagFrame, TypeInv, Finish
  <2>5. GateFrame
    BY <1>11, <2>0, <2>1, Zenon DEF Moved, Goes, Idled, GateFrame, TypeInv, ThreadShape, Finish
  <2>6. RunFrame
    BY <2>0, <2>1, <2>2, Zenon DEF Moved, Goes, Idled, RunFrame, Working, TypeInv, ThreadShape
  <2>7. KeyFrame
    BY <2>0, <2>1, <2>2 DEF Moved, Goes, Idled, KeyFrame, TypeInv, ThreadShape
  <2> QED
    BY <2>3, <2>4, <2>5, <2>6, <2>7, Zenon DEF Frame
<1>12. ASSUME NEW t \in Threads, Resume(t)
      PROVE  Frame
  <2>0. th[t] \in ThreadStates /\ th[t].pc = "load" /\ th[t].key \in Keys
    BY <1>0, <1>12, Zenon DEF TypeInv, ThreadShape, Resume, At
  <2>1. IF tail[th[t].key] # "gate" THEN Moved(t, "finish", th[t].key, th[t].doing, "resume_noop")
             ELSE Moved(t, "resume", th[t].key, IF decided[th[t].key] = "approved" THEN "pending" ELSE "open", th[t].result)
    BY <1>12, Moves, Zenon
  <2>2. RequestFrame
    BY <1>12, <2>0, <2>1, Zenon DEF Moved, Goes, Idled, RequestFrame, Posting, Resuming, TypeInv, Resume
  <2>3. FlagFrame
    BY <1>12, <2>0, <2>1, Zenon DEF Moved, Goes, Idled, FlagFrame, TypeInv, Resume
  <2>4. GateFrame
    BY <1>12, <2>0, <2>1, Zenon DEF Moved, Goes, Idled, GateFrame, TypeInv, ThreadShape, Resume
  <2>5. RunFrame
    BY <1>12, <2>0, <2>1, Zenon DEF Moved, Goes, Idled, RunFrame, Working, TypeInv, ThreadShape, Resume
  <2>6. KeyFrame
    BY <1>12, <2>0, <2>1 DEF Moved, Goes, Idled, KeyFrame, TypeInv, ThreadShape, Resume
  <2> QED
    BY <2>2, <2>3, <2>4, <2>5, <2>6, Zenon DEF Frame
<1>13. ASSUME NEW t \in Threads, CancelSignal(t)
      PROVE  Frame
  <2>0. th[t] \in ThreadStates /\ th[t].pc = "signal" /\ th[t].key \in Keys
    BY <1>0, <1>13, Zenon DEF TypeInv, ThreadShape, CancelSignal, At
  <2>1. Goes(t, "cancel_job")
    BY <1>13, Moves, Zenon
  <2>2. RequestFrame
    BY <1>13, <2>0, <2>1, Zenon DEF Moved, Goes, Idled, RequestFrame, Posting, Resuming, TypeInv, CancelSignal
  <2>3. FlagFrame
    BY <1>13, <2>0, <2>1, Zenon DEF Moved, Goes, Idled, FlagFrame, TypeInv, CancelSignal
  <2>4. GateFrame
    BY <1>13, <2>0, <2>1, Zenon DEF Moved, Goes, Idled, GateFrame, TypeInv, ThreadShape, CancelSignal
  <2>5. RunFrame
    BY <1>13, <2>0, <2>1, Zenon DEF Moved, Goes, Idled, RunFrame, Working, TypeInv, ThreadShape, CancelSignal
  <2>6. KeyFrame
    BY <1>13, <2>0, <2>1 DEF Moved, Goes, Idled, KeyFrame, TypeInv, ThreadShape, CancelSignal
  <2> QED
    BY <2>2, <2>3, <2>4, <2>5, <2>6, Zenon DEF Frame
<1>14. ASSUME NEW t \in Threads, CancelJob(t)
      PROVE  Frame
  <2>0. th[t] \in ThreadStates /\ th[t].pc = "cancel_job" /\ th[t].key \in Keys
    BY <1>0, <1>14, Zenon DEF TypeInv, ThreadShape, CancelJob, At
  <2>1. Goes(t, "cancel_session")
    BY <1>14, Moves, Zenon
  <2>2. /\ used' = used /\ jobs'[th[t].key] = "cancelled"
        /\ \A k \in Keys : k # th[t].key => jobs'[k] = jobs[k]
    BY <1>14, <2>0, Zenon DEF CancelJob, job_set_status, TypeInv
  <2>3. RequestFrame
    BY <1>14, <2>0, <2>1, Zenon DEF Moved, Goes, Idled, RequestFrame, Posting, Resuming, TypeInv, CancelJob
  <2>4. FlagFrame
    BY <1>14, <2>0, <2>1, Zenon DEF Moved, Goes, Idled, FlagFrame, TypeInv, CancelJob
  <2>5. GateFrame
    BY <1>14, <2>0, <2>1, Zenon DEF Moved, Goes, Idled, GateFrame, TypeInv, ThreadShape, CancelJob
  <2>6. RunFrame
    BY <2>0, <2>1, <2>2, Zenon DEF Moved, Goes, Idled, RunFrame, Working, TypeInv, ThreadShape
  <2>7. KeyFrame
    BY <2>0, <2>1, <2>2 DEF Moved, Goes, Idled, KeyFrame, TypeInv, ThreadShape
  <2> QED
    BY <2>3, <2>4, <2>5, <2>6, <2>7, Zenon DEF Frame
<1>15. ASSUME NEW t \in Threads, CancelSession(t)
      PROVE  Frame
  <2>0. th[t] \in ThreadStates /\ th[t].pc = "cancel_session" /\ th[t].key \in Keys
    BY <1>0, <1>15, Zenon DEF TypeInv, ThreadShape, CancelSession, At
  <2>1. Idled(t)
    BY <1>15, Moves, Zenon
  <2>2. RequestFrame
    BY <1>15, <2>0, <2>1, Zenon DEF Moved, Goes, Idled, RequestFrame, Posting, Resuming, TypeInv, CancelSession
  <2>3. FlagFrame
    BY <1>15, <2>0, <2>1, Zenon DEF Moved, Goes, Idled, FlagFrame, TypeInv, CancelSession
  <2>4. GateFrame
    BY <1>15, <2>0, <2>1, Zenon DEF Moved, Goes, Idled, GateFrame, TypeInv, ThreadShape, CancelSession
  <2>5. RunFrame
    BY <1>15, <2>0, <2>1, Zenon DEF Moved, Goes, Idled, RunFrame, Working, TypeInv, ThreadShape, CancelSession
  <2>6. KeyFrame
    BY <1>15, <2>0, <2>1 DEF Moved, Goes, Idled, KeyFrame, TypeInv, ThreadShape, CancelSession
  <2> QED
    BY <2>2, <2>3, <2>4, <2>5, <2>6, Zenon DEF Frame
<1>16. ASSUME NEW t \in Threads, NEW k \in Keys, Post(t, k)
      PROVE  Frame
  <2>0. th[t] \in ThreadStates /\ th[t].pc = "idle"
    BY <1>0, <1>16, Zenon DEF TypeInv, ThreadShape, Post, At
  <2>1. Moved(t, IF jobs[k] = "absent" THEN "insert" ELSE "check", k, th[t].doing, th[t].result)
    BY <1>16, Moves, Zenon
  <2>2. RequestFrame
    <3>1. used'.decisions = used.decisions
      BY <1>16, Zenon DEF TypeInv, Uses, Post
    <3> QED
      BY <1>16, <2>0, <2>1, <3>1, Zenon DEF Moved, RequestFrame, Resuming
  <2>3. FlagFrame
    BY <1>16, <2>0, <2>1 DEF Moved, Goes, Idled, FlagFrame, TypeInv, Post
  <2>4. GateFrame
    BY <1>16, <2>0, <2>1, ZenonT(60) DEF Moved, Goes, Idled, GateFrame, TypeInv, ThreadShape, Post
  <2>5. RunFrame
    BY <1>16, <2>0, <2>1 DEF Moved, Goes, Idled, RunFrame, Working, TypeInv, ThreadShape, Post
  <2>6. KeyFrame
    BY <1>16, <2>0, <2>1 DEF Moved, Goes, Idled, KeyFrame, TypeInv, ThreadShape, Post
  <2> QED
    BY <2>2, <2>3, <2>4, <2>5, <2>6, Zenon DEF Frame
<1>17. ASSUME NEW t \in Threads, NEW k \in Keys, CancelLookup(t, k)
      PROVE  Frame
  <2>0. th[t] \in ThreadStates /\ th[t].pc = "idle"
    BY <1>0, <1>17, Zenon DEF TypeInv, ThreadShape, CancelLookup, At
  <2>1. Moved(t, "signal", k, th[t].doing, th[t].result)
    BY <1>17, Moves, Zenon
  <2>2. RequestFrame
    BY <1>17, <2>0, <2>1 DEF Moved, Goes, Idled, RequestFrame, Posting, Resuming, TypeInv, CancelLookup
  <2>3. FlagFrame
    BY <1>17, <2>0, <2>1 DEF Moved, Goes, Idled, FlagFrame, TypeInv, CancelLookup
  <2>4. GateFrame
    BY <1>17, <2>0, <2>1 DEF Moved, Goes, Idled, GateFrame, TypeInv, ThreadShape, CancelLookup
  <2>5. RunFrame
    BY <1>17, <2>0, <2>1 DEF Moved, Goes, Idled, RunFrame, Working, TypeInv, ThreadShape, CancelLookup
  <2>6. KeyFrame
    BY <1>17, <2>0, <2>1 DEF Moved, Goes, Idled, KeyFrame, TypeInv, ThreadShape, CancelLookup
  <2> QED
    BY <2>2, <2>3, <2>4, <2>5, <2>6, Zenon DEF Frame
<1>18. ASSUME NEW t \in Threads, NEW k \in Keys, NEW verdict \in {"approved", "denied"}, DecideGate(t, k, verdict)
      PROVE  Frame
  <2>0. th[t] \in ThreadStates /\ th[t].pc = "idle"
    BY <1>0, <1>18, Zenon DEF TypeInv, ThreadShape, DecideGate, At
  <2>1. Moved(t, "load", k, th[t].doing, th[t].result)
    BY <1>18, Moves, Zenon
  <2>2. RequestFrame
    <3>1. used'.posts = used.posts
      BY <1>18, Zenon DEF TypeInv, Uses, DecideGate
    <3> QED
      BY <1>18, <2>0, <2>1, <3>1, Zenon DEF Moved, RequestFrame, Posting
  <2>3. FlagFrame
    BY <1>18, <2>0, <2>1 DEF Moved, Goes, Idled, FlagFrame, TypeInv, DecideGate
  <2>4. GateFrame
    BY <1>18, <2>0, <2>1, Zenon DEF Moved, Goes, Idled, GateFrame, TypeInv, ThreadShape, DecideGate
  <2>5. RunFrame
    BY <1>18, <2>0, <2>1 DEF Moved, Goes, Idled, RunFrame, Working, TypeInv, ThreadShape, DecideGate
  <2>6. KeyFrame
    BY <1>18, <2>0, <2>1 DEF Moved, Goes, Idled, KeyFrame, TypeInv, ThreadShape, DecideGate
  <2> QED
    BY <2>2, <2>3, <2>4, <2>5, <2>6, Zenon DEF Frame
<1>19. CASE Crash
  <2>1. RequestFrame
    BY <1>0, <1>19 DEF RequestFrame, Posting, Resuming, TypeInv, ThreadStates, Idle, Crash
  <2>2. FlagFrame
    BY <1>0, <1>19, Zenon DEF FlagFrame, TypeInv, ThreadStates, Idle, Crash
  <2>3. GateFrame
    BY <1>0, <1>19, Zenon DEF GateFrame, TypeInv, ThreadShape, ThreadStates, Idle, Crash
  <2>4. RunFrame
    BY <1>0, <1>19 DEF RunFrame, Working, TypeInv, ThreadShape, ThreadStates, Idle, Crash
  <2>5. KeyFrame
    BY <1>0, <1>19, Zenon DEF KeyFrame, TypeInv, ThreadShape, ThreadStates, Idle, Crash
  <2> QED
    BY <2>1, <2>2, <2>3, <2>4, <2>5, Zenon DEF Frame
<1>20. CASE RecoverSet
  <2>1. RequestFrame
    BY <1>0, <1>20, Zenon DEF RequestFrame, Posting, Resuming, TypeInv, ThreadStates, NoRecovery, RecoverSet, job_set_status
  <2>2. FlagFrame
    BY <1>0, <1>20, Zenon DEF FlagFrame, TypeInv, ThreadStates, NoRecovery, RecoverSet, job_set_status
  <2>3. GateFrame
    BY <1>0, <1>20, Zenon DEF GateFrame, TypeInv, ThreadShape, ThreadStates, NoRecovery, RecoverSet, job_set_status
  <2>4. RunFrame
    BY <1>0, <1>20, Zenon DEF RunFrame, Working, TypeInv, ThreadShape, ThreadStates, NoRecovery, RecoverSet, job_set_status
  <2>5. KeyFrame
    BY <1>0, <1>20, Zenon DEF KeyFrame, TypeInv, ThreadShape, ThreadStates, NoRecovery, RecoverSet, job_set_status
  <2> QED
    BY <2>1, <2>2, <2>3, <2>4, <2>5, Zenon DEF Frame
<1>21. ASSUME NEW k \in Keys, RecoverJob(k)
      PROVE  Frame
  <2>1. RequestFrame
    BY <1>0, <1>21, Zenon DEF RequestFrame, Posting, Resuming, TypeInv, ThreadStates, NoRecovery, RecoverJob
  <2>2. FlagFrame
    BY <1>0, <1>21, Zenon DEF FlagFrame, TypeInv, ThreadStates, NoRecovery, RecoverJob
  <2>3. GateFrame
    BY <1>0, <1>21, Zenon DEF GateFrame, TypeInv, ThreadShape, ThreadStates, NoRecovery, RecoverJob
  <2>4. RunFrame
    BY <1>0, <1>21, Zenon DEF RunFrame, Working, TypeInv, ThreadShape, ThreadStates, NoRecovery, RecoverJob
  <2>5. KeyFrame
    BY <1>0, <1>21, Zenon DEF KeyFrame, TypeInv, ThreadShape, ThreadStates, NoRecovery, RecoverJob
  <2> QED
    BY <2>1, <2>2, <2>3, <2>4, <2>5, Zenon DEF Frame
<1>22. CASE UNCHANGED vars
  BY <1>0, <1>22, Zenon DEF Frame, RequestFrame, FlagFrame, GateFrame, RunFrame, KeyFrame, TypeInv, ThreadShape, vars
<1> QED
  BY <1>1, <1>2, <1>3, <1>4, <1>5, <1>6, <1>7, <1>8, <1>9, <1>10, <1>11, <1>12, <1>13, <1>14, <1>15, <1>16, <1>17, <1>18, <1>19, <1>20, <1>21, <1>22, Zenon DEF Next, Serve, Request

\* A thread back in the pool is a thread state.
LEMMA IdleState == Idle \in ThreadStates
BY Zenon DEF Idle, ThreadStates, Steps, Doings, Answers

\* Every action keeps the types.
LEMMA TypeStep == TypeInv /\ [Next]_vars => TypeInv'
<1> SUFFICES ASSUME TypeInv, [Next]_vars
             PROVE  TypeInv'
  BY Zenon
<1>0. th \in [Threads -> ThreadStates] /\ KeyFrame
  BY FrameStep, Zenon DEF TypeInv, Frame
<1>1. ASSUME NEW t \in Threads, Insert(t)
      PROVE  TypeInv'
  <2>1. th' \in [Threads -> ThreadStates]
    BY <1>0, <1>1, IdleState DEF ThreadStates, Steps, Doings, Answers, Insert, Goto, Return
  <2> QED
    BY <1>0, <1>1, <2>1, Zenon DEF TypeInv, KeyFrame, Statuses, Tails, Insert, At, job_set_status
<1>2. ASSUME NEW t \in Threads, Check(t)
      PROVE  TypeInv'
  <2>1. th' \in [Threads -> ThreadStates]
    BY <1>0, <1>2, IdleState DEF ThreadStates, Steps, Doings, Answers, Check, Goto, Return
  <2> QED
    BY <1>0, <1>2, <2>1, Zenon DEF TypeInv, KeyFrame, Statuses, Tails, Check, At
<1>3. ASSUME NEW t \in Threads, PackageGuard(t)
      PROVE  TypeInv'
  <2>1. th' \in [Threads -> ThreadStates]
    BY <1>0, <1>3, IdleState DEF ThreadStates, Steps, Doings, Answers, PackageGuard, Goto, Return
  <2> QED
    BY <1>0, <1>3, <2>1, Zenon DEF TypeInv, KeyFrame, Statuses, Tails, PackageGuard, At, job_set_status
<1>4. ASSUME NEW t \in Threads, Register(t)
      PROVE  TypeInv'
  <2>1. th' \in [Threads -> ThreadStates]
    <3> DEFINE r == [th[t] EXCEPT !.pc = "run", !.doing = "open"]
    <3>1. th[t] \in ThreadStates /\ "run" \in Steps /\ "open" \in Doings
      BY <1>0, Zenon DEF Steps, Doings
    <3>2. r \in ThreadStates
      BY <3>1, Zenon DEF ThreadStates
    <3>3. th' = [th EXCEPT ![t] = r]
      BY <1>0, <1>4, Zenon DEF Register
    <3> QED
      BY <1>0, <3>2, <3>3, Zenon
  <2>2. effects \in [Keys -> Tallies] /\ th[t].key \in Keys
    BY <1>4, Zenon DEF TypeInv, ThreadShape, Register, At
  <2>3. [effects[th[t].key] EXCEPT !.runs = @ + 1] \in Tallies
    BY <2>2 DEF Tallies
  <2>4. effects' = [effects EXCEPT ![th[t].key] = [effects[th[t].key] EXCEPT !.runs = @ + 1]]
    BY <1>4, <2>2, Zenon DEF Register
  <2> QED
    BY <1>0, <1>4, <2>1, <2>2, <2>3, <2>4 DEF TypeInv, KeyFrame, Tails, Register, At
<1>5. ASSUME NEW t \in Threads, KernelIntent(t)
      PROVE  TypeInv'
  <2>1. th' \in [Threads -> ThreadStates]
    BY <1>0, <1>5, IdleState DEF ThreadStates, Steps, Doings, Answers, KernelIntent, InKernel
  <2> QED
    BY <1>0, <1>5, <2>1, Zenon DEF TypeInv, KeyFrame, Statuses, Tails, KernelIntent, InKernel
<1>6. ASSUME NEW t \in Threads, KernelEffect(t)
      PROVE  TypeInv'
  <2>1. th' \in [Threads -> ThreadStates]
    BY <1>0, <1>6, IdleState DEF ThreadStates, Steps, Doings, Answers, KernelEffect, InKernel
  <2>2. effects \in [Keys -> Tallies] /\ th[t].key \in Keys
    BY <1>6, Zenon DEF TypeInv, ThreadShape, KernelEffect, InKernel
  <2> DEFINE e == effects[th[t].key]
             g == e.gated + (IF th[t].doing = "gated" THEN 1 ELSE 0)
  <2>3. e \in Tallies /\ e.tools + 1 \in Nat /\ g \in Nat
    BY <2>2 DEF Tallies
  <2>4. [e EXCEPT !.tools = e.tools + 1, !.gated = g] \in Tallies
    BY <2>3, Zenon DEF Tallies
  <2>5. effects' = [effects EXCEPT ![th[t].key] = [e EXCEPT !.tools = e.tools + 1, !.gated = g]]
    BY <1>6, <2>2, <2>3, Zenon DEF KernelEffect, Tallies
  <2> QED
    BY <1>0, <1>6, <2>1, <2>2, <2>4, <2>5 DEF TypeInv, KeyFrame, KernelEffect, InKernel
<1>7. ASSUME NEW t \in Threads, KernelDone(t)
      PROVE  TypeInv'
  <2>1. th' \in [Threads -> ThreadStates]
    BY <1>0, <1>7, IdleState DEF ThreadStates, Steps, Doings, Answers, KernelDone, InKernel
  <2> QED
    BY <1>0, <1>7, <2>1, Zenon DEF TypeInv, KeyFrame, Statuses, Tails, KernelDone, InKernel
<1>8. ASSUME NEW t \in Threads, KernelReturn(t)
      PROVE  TypeInv'
  <2>1. th' \in [Threads -> ThreadStates]
    BY <1>0, <1>8, IdleState DEF ThreadStates, Steps, Doings, Answers, KernelReturn, InKernel
  <2> QED
    BY <1>0, <1>8, <2>1, Zenon DEF TypeInv, KeyFrame, Statuses, Tails, KernelReturn, InKernel
<1>9. ASSUME NEW t \in Threads, KernelRaise(t)
      PROVE  TypeInv'
  <2>1. th' \in [Threads -> ThreadStates]
    BY <1>0, <1>9, IdleState DEF ThreadStates, Steps, Doings, Answers, KernelRaise, InKernel, Return
  <2>3. used \in Uses /\ th[t].key \in Keys
    BY <1>9, Zenon DEF TypeInv, ThreadShape, KernelRaise, InKernel
  <2>4. [used EXCEPT !.raised = @ \cup {th[t].key}] \in Uses
    BY <2>3, Zenon DEF Uses
  <2> QED
    BY <1>0, <1>9, <2>1, <2>4, Zenon DEF TypeInv, KeyFrame, KernelRaise, InKernel
<1>10. ASSUME NEW t \in Threads, Unregister(t)
      PROVE  TypeInv'
  <2>1. th' \in [Threads -> ThreadStates]
    BY <1>0, <1>10, IdleState DEF ThreadStates, Steps, Doings, Answers, Unregister
  <2> QED
    BY <1>0, <1>10, <2>1, Zenon DEF TypeInv, KeyFrame, Statuses, Tails, Unregister, At
<1>11. ASSUME NEW t \in Threads, Finish(t)
      PROVE  TypeInv'
  <2>1. th' \in [Threads -> ThreadStates]
    BY <1>0, <1>11, IdleState, Zenon DEF ThreadStates, Steps, Doings, Answers, Finish, Return
  <2> QED
    BY <1>0, <1>11, <2>1, Zenon DEF TypeInv, KeyFrame, Statuses, Tails, Finish, At, job_set_status, _status_for
<1>12. ASSUME NEW t \in Threads, Resume(t)
      PROVE  TypeInv'
  <2>1. th' \in [Threads -> ThreadStates]
    BY <1>0, <1>12, IdleState DEF ThreadStates, Steps, Doings, Answers, Resume
  <2> QED
    BY <1>0, <1>12, <2>1, Zenon DEF TypeInv, KeyFrame, Statuses, Tails, Resume, At
<1>13. ASSUME NEW t \in Threads, CancelSignal(t)
      PROVE  TypeInv'
  <2>1. th' \in [Threads -> ThreadStates]
    <3>1. CASE th[t].cancels # NoThread /\ th[th[t].cancels].pc = "run"
      <4> DEFINE u == th[t].cancels
      <4>1. u \in Threads /\ u # t
        BY <1>0, <1>13, <3>1, Zenon DEF ThreadStates, CancelSignal, At
      <4>2. th[u] \in ThreadStates /\ th[t] \in ThreadStates /\ "cancel_job" \in Steps
        BY <1>0, <4>1, Zenon DEF Steps
      <4>3. /\ [th[u] EXCEPT !.flag = TRUE] \in ThreadStates
            /\ [th[t] EXCEPT !.pc = "cancel_job"] \in ThreadStates
        BY <4>2, Zenon DEF ThreadStates
      <4>4. th' = [th EXCEPT ![u] = [th[u] EXCEPT !.flag = TRUE], ![t] = [th[t] EXCEPT !.pc = "cancel_job"]]
        BY <1>0, <1>13, <3>1, <4>1, Zenon DEF CancelSignal
      <4> QED
        BY <1>0, <4>1, <4>3, <4>4, Zenon
    <3>2. CASE ~(th[t].cancels # NoThread /\ th[th[t].cancels].pc = "run")
      BY <1>0, <1>13, <3>2 DEF ThreadStates, Steps, CancelSignal, Goto
    <3> QED
      BY <3>1, <3>2, Zenon
  <2> QED
    BY <1>0, <1>13, <2>1, Zenon DEF TypeInv, KeyFrame, Statuses, Tails, CancelSignal, At
<1>14. ASSUME NEW t \in Threads, CancelJob(t)
      PROVE  TypeInv'
  <2>1. th' \in [Threads -> ThreadStates]
    BY <1>0, <1>14, IdleState DEF ThreadStates, Steps, Doings, Answers, CancelJob, Goto
  <2> QED
    BY <1>0, <1>14, <2>1, Zenon DEF TypeInv, KeyFrame, Statuses, Tails, CancelJob, At, job_set_status
<1>15. ASSUME NEW t \in Threads, CancelSession(t)
      PROVE  TypeInv'
  <2>1. th' \in [Threads -> ThreadStates]
    BY <1>0, <1>15, IdleState, Zenon DEF ThreadStates, Steps, Doings, Answers, CancelSession, Return
  <2> QED
    BY <1>0, <1>15, <2>1, Zenon DEF TypeInv, KeyFrame, Statuses, Tails, CancelSession, At
<1>16. ASSUME NEW t \in Threads, NEW k \in Keys, Post(t, k)
      PROVE  TypeInv'
  <2>1. th' \in [Threads -> ThreadStates]
    <3> DEFINE r == [th[t] EXCEPT !.key = k, !.pc = IF jobs[k] = "absent" THEN "insert" ELSE "check"]
    <3>1. th[t] \in ThreadStates /\ {"insert", "check"} \subseteq Steps
      BY <1>0, Zenon DEF Steps
    <3>2. r \in ThreadStates
      BY <3>1, Zenon DEF ThreadStates
    <3>3. th' = [th EXCEPT ![t] = r]
      BY <1>0, <1>16, Zenon DEF Post
    <3> QED
      BY <1>0, <3>2, <3>3, Zenon
  <2>3. used \in Uses
    BY <1>16, Zenon DEF TypeInv
  <2>4. [used EXCEPT !.posts[k] = @ + 1] \in Uses
    BY <2>3 DEF Uses
  <2> QED
    BY <1>0, <1>16, <2>1, <2>4, Zenon DEF TypeInv, KeyFrame, Post, At
<1>17. ASSUME NEW t \in Threads, NEW k \in Keys, CancelLookup(t, k)
      PROVE  TypeInv'
  <2>1. th' \in [Threads -> ThreadStates]
    <3> DEFINE r == [th[t] EXCEPT !.key = k, !.cancels = _cancel[k], !.pc = "signal"]
    <3>1. th[t] \in ThreadStates /\ "signal" \in Steps /\ _cancel[k] \in Threads \cup {NoThread}
      BY <1>0, Zenon DEF Steps, TypeInv
    <3>2. r \in ThreadStates
      BY <3>1, Zenon DEF ThreadStates
    <3>3. th' = [th EXCEPT ![t] = r]
      BY <1>0, <1>17, Zenon DEF CancelLookup
    <3> QED
      BY <1>0, <3>2, <3>3, Zenon
  <2>3. used \in Uses
    BY <1>17, Zenon DEF TypeInv
  <2>4. [used EXCEPT !.cancels = @ + 1] \in Uses
    BY <2>3 DEF Uses
  <2> QED
    BY <1>0, <1>17, <2>1, <2>4, Zenon DEF TypeInv, KeyFrame, CancelLookup, At
<1>18. ASSUME NEW t \in Threads, NEW k \in Keys, NEW verdict \in {"approved", "denied"}, DecideGate(t, k, verdict)
      PROVE  TypeInv'
  <2>1. th' \in [Threads -> ThreadStates]
    <3> DEFINE r == [th[t] EXCEPT !.key = k, !.pc = "load"]
    <3>1. th[t] \in ThreadStates /\ "load" \in Steps
      BY <1>0, Zenon DEF Steps
    <3>2. r \in ThreadStates
      BY <3>1, Zenon DEF ThreadStates
    <3>3. th' = [th EXCEPT ![t] = r]
      BY <1>0, <1>18, Zenon DEF DecideGate
    <3> QED
      BY <1>0, <3>2, <3>3, Zenon
  <2>3. used \in Uses
    BY <1>18, Zenon DEF TypeInv
  <2>4. [used EXCEPT !.decisions = @ + 1] \in Uses
    BY <2>3 DEF Uses
  <2> QED
    BY <1>0, <1>18, <2>1, <2>4, Zenon DEF TypeInv, KeyFrame, DecideGate, At
<1>19. CASE Crash
  <2>1. th' \in [Threads -> ThreadStates]
    BY <1>19, IdleState, Zenon DEF Crash
  <2>2. used \in Uses
    BY Zenon DEF TypeInv
  <2>3. [used EXCEPT !.crashes = @ + 1] \in Uses
    BY <2>2 DEF Uses
  <2> QED
    BY <1>0, <1>19, <2>1, <2>3, Zenon DEF TypeInv, KeyFrame, Crash
<1>20. CASE RecoverSet
  BY <1>0, <1>20, IdleState, Zenon DEF TypeInv, KeyFrame, Statuses, Tails, NoRecovery, Idle, RecoverSet, job_set_status
<1>21. ASSUME NEW k \in Keys, RecoverJob(k)
      PROVE  TypeInv'
  BY <1>0, <1>21, IdleState DEF TypeInv, KeyFrame, Statuses, Tails, NoRecovery, Idle, RecoverJob
<1>22. CASE UNCHANGED vars
  BY <1>0, <1>22, Zenon DEF TypeInv, KeyFrame, vars
<1> QED
  BY <1>1, <1>2, <1>3, <1>4, <1>5, <1>6, <1>7, <1>8, <1>9, <1>10, <1>11, <1>12, <1>13, <1>14, <1>15, <1>16, <1>17, <1>18, <1>19, <1>20, <1>21, <1>22, Zenon DEF Next, Serve, Request
-----------------------------------------------------------------------------
(* The cancel registry. *)

\* A job that was posted once has one thread at most that serves the post.
PostedOnce ==
  \A t \in Threads : th[t].pc \in Posting =>
    /\ used.posts[th[t].key] >= 1
    /\ used.posts[th[t].key] = 1 =>
         \A u \in Threads : th[u].pc \in Posting /\ th[u].key = th[t].key => u = t

FlagsInv == PostedOnce /\ FlagsMatchRuns

\* Only a post adds a thread that serves one.
LEMMA PostedOnceStep == TypeInv /\ PostedOnce /\ [Next]_vars => PostedOnce'
<1> SUFFICES ASSUME TypeInv, PostedOnce, [Next]_vars
             PROVE  PostedOnce'
  BY Zenon
<1>1. Frame /\ TypeInv'
  BY FrameStep, TypeStep, Zenon
<1>2. CASE \E t \in Threads, k \in Keys : Post(t, k)
  <2>1. PICK t \in Threads, k \in Keys : Post(t, k)
    BY <1>2, Zenon
  <2>2. th[t].pc = "idle" /\ th'[t].key = k /\ \A u \in Threads : u # t => th'[u] = th[u]
    BY <2>1 DEF Post, At, TypeInv, ThreadStates
  <2>3. \A j \in Keys : used'.posts[j] = IF j = k THEN used.posts[k] + 1 ELSE used.posts[j]
    BY <2>1, Zenon DEF Post, TypeInv, Uses
  <2>4. \A j \in Keys : used.posts[j] \in Nat
    BY Zenon DEF TypeInv, Uses
  <2>5. \A u \in Threads : th[u].pc \in Posting => th[u].key \in Keys
    BY Zenon DEF TypeInv, ThreadShape, Posting
  <2> QED
    BY <2>2, <2>3, <2>4, <2>5 DEF PostedOnce, Posting
<1>3. CASE ~\E t \in Threads, k \in Keys : Post(t, k)
  BY <1>1, <1>3, Zenon DEF Frame, RequestFrame, PostedOnce
<1> QED
  BY <1>2, <1>3, Zenon

\* Every step keeps the registry in agreement with the runs.
LEMMA FlagsStep == TypeInv /\ FlagsInv /\ [Next]_vars => FlagsInv'
<1> SUFFICES ASSUME TypeInv, PostedOnce, FlagsMatchRuns, [Next]_vars
             PROVE  FlagsMatchRuns'
  BY PostedOnceStep, Zenon DEF FlagsInv
<1>1. Frame /\ TypeInv' /\ PostedOnce'
  BY FrameStep, TypeStep, PostedOnceStep, Zenon
<1>2. \A k \in Keys : used.posts[k] \in Nat /\ used'.posts[k] \in Nat /\ used.posts[k] <= used'.posts[k]
  <2>1. \A k \in Keys : used.posts[k] \in Nat /\ used'.posts[k] \in Nat
    BY <1>1, Zenon DEF TypeInv, Uses
  <2>2. ASSUME NEW t \in Threads, NEW k \in Keys, Post(t, k)
        PROVE  \A j \in Keys : used'.posts[j] = IF j = k THEN used.posts[k] + 1 ELSE used.posts[j]
    BY <2>2, Zenon DEF Post, TypeInv, Uses
  <2> QED
    BY <1>1, <2>1, <2>2 DEF Frame, RequestFrame
<1>3. ASSUME NEW t \in Threads, Register(t)
      PROVE  FlagsMatchRuns'
  <2>1. /\ th[t].pc = "register" /\ th[t].key \in Keys
        /\ _cancel' = [_cancel EXCEPT ![th[t].key] = t] /\ used' = used
        /\ th'[t].pc = "run" /\ th'[t].key = th[t].key /\ \A u \in Threads : u # t => th'[u] = th[u]
    BY <1>3, Zenon DEF Register, At, TypeInv, ThreadShape, ThreadStates
  <2>2. \A u \in Threads : th[u].pc = "run" => th[u].key \in Keys
    BY Zenon DEF TypeInv, ThreadShape
  <2> QED
    BY <1>2, <2>1, <2>2, SessionsAssumption DEF FlagsMatchRuns, PostedOnce, Posting, TypeInv
<1>4. ASSUME NEW t \in Threads, Unregister(t)
      PROVE  FlagsMatchRuns'
  <2>1. /\ th[t].pc = "unregister" /\ th[t].key \in Keys
        /\ _cancel' = [_cancel EXCEPT ![th[t].key] = NoThread] /\ used' = used
        /\ th'[t].pc \in {"idle", "finish"}
        /\ \A u \in Threads : u # t => th'[u].pc = th[u].pc /\ th'[u].key = th[u].key
    BY <1>4, Zenon DEF Unregister, At, TypeInv, ThreadShape, ThreadStates, Idle
  <2>2. \A u \in Threads : th[u].pc = "run" => th[u].key \in Keys
    BY Zenon DEF TypeInv, ThreadShape
  <2> QED
    BY <1>2, <2>1, <2>2, SessionsAssumption DEF FlagsMatchRuns, PostedOnce, Posting, TypeInv
<1>5. CASE Crash
  BY <1>5, SessionsAssumption, Zenon DEF Crash, FlagsMatchRuns, Idle
<1>6. CASE ~Crash /\ ~\E t \in Threads : Register(t) \/ Unregister(t)
  <2>1. \A u \in Threads : th'[u].pc = "run" => th'[u].key \in Keys
    BY <1>1, Zenon DEF TypeInv, ThreadShape
  <2> QED
    BY <1>1, <1>2, <1>6, <2>1 DEF Frame, FlagFrame, FlagsMatchRuns
<1> QED
  BY <1>3, <1>4, <1>5, <1>6, Zenon

-----------------------------------------------------------------------------
(* The gate. *)

\* What runs behind a gate, has run or is about to, was approved.
GateInv ==
  /\ \A t \in Threads :
       th[t].doing \in {"pending", "gated"} => decided[th[t].key] = "approved"
  /\ \A k \in Keys : effects[k].gated > 0 => decided[k] = "approved"

\* decide_gate() decides a gate once, and only approves what then runs.
LEMMA GateStep == TypeInv /\ GateInv /\ [Next]_vars => GateInv'
<1> SUFFICES ASSUME TypeInv, GateInv, [Next]_vars
             PROVE  GateInv'
  BY Zenon
<1>1. GateFrame /\ TypeInv'
  BY FrameStep, TypeStep, Zenon DEF Frame
<1>2. \A u \in Threads : th[u].doing \in {"pending", "gated"} => th[u].key \in Keys
  BY Zenon DEF TypeInv, ThreadShape
<1>3. \A u \in Threads : th'[u].doing \in {"pending", "gated"} => th'[u].key \in Keys
  BY <1>1, Zenon DEF TypeInv, ThreadShape
<1> QED
  BY <1>1, <1>2, <1>3 DEF GateFrame, GateInv

-----------------------------------------------------------------------------
(* The status of a job. *)

\* A decision that is the only one has one thread that serves it.
DecidedOnce ==
  \A t \in Threads : th[t].pc \in Resuming =>
    /\ used.decisions >= 1
    /\ used.decisions = 1 => \A u \in Threads : th[u].pc \in Resuming => u = t

\* Only a decision adds a thread that resumes.
LEMMA DecidedOnceStep == TypeInv /\ DecidedOnce /\ [Next]_vars => DecidedOnce'
<1> SUFFICES ASSUME TypeInv, DecidedOnce, [Next]_vars
             PROVE  DecidedOnce'
  BY Zenon
<1>1. Frame /\ TypeInv'
  BY FrameStep, TypeStep, Zenon
<1>2. ASSUME NEW t \in Threads, NEW k \in Keys, NEW verdict \in {"approved", "denied"},
             DecideGate(t, k, verdict)
      PROVE  DecidedOnce'
  <2>1. \A u \in Threads : u # t => th'[u] = th[u]
    BY <1>2, Zenon DEF DecideGate, TypeInv
  <2>2. used'.decisions = used.decisions + 1 /\ used.decisions \in Nat
    BY <1>2, Zenon DEF DecideGate, TypeInv, Uses
  <2> QED
    BY <2>1, <2>2 DEF DecidedOnce
<1>3. CASE ~\E t \in Threads, k \in Keys, verdict \in {"approved", "denied"} : DecideGate(t, k, verdict)
  BY <1>1, <1>3, Zenon DEF Frame, RequestFrame, DecidedOnce
<1> QED
  BY <1>2, <1>3, Zenon

\* A job left running without a thread is one whose kernel raised, and a job in
\* the table was posted.
RunningInv ==
  /\ \A t \in Threads : th[t].result = "raised" => th[t].key \in used.raised
  /\ \A k \in Keys : jobs[k] # "absent" => used.posts[k] >= 1
  /\ \A k \in Keys : jobs[k] = "running" /\ used.crashes = 0 =>
       \/ k \in used.raised
       \/ \E t \in Threads : th[t].key = k /\ th[t].pc \in Working

\* The counters only grow.
LEMMA Counters ==
  ASSUME TypeInv, [Next]_vars
  PROVE  /\ \A k \in Keys : /\ used.posts[k] \in Nat /\ used'.posts[k] \in Nat
                            /\ used.posts[k] <= used'.posts[k]
         /\ used.decisions \in Nat /\ used'.decisions \in Nat /\ used.decisions <= used'.decisions
         /\ used.crashes \in Nat /\ used'.crashes \in Nat /\ used.crashes <= used'.crashes
<1>1. Frame /\ TypeInv'
  BY FrameStep, TypeStep, Zenon
<1>2. /\ used.decisions \in Nat /\ used'.decisions \in Nat /\ used.crashes \in Nat /\ used'.crashes \in Nat
      /\ \A k \in Keys : used.posts[k] \in Nat /\ used'.posts[k] \in Nat
  BY <1>1, Zenon DEF TypeInv, Uses
<1>3. ASSUME NEW t \in Threads, NEW k \in Keys, Post(t, k)
      PROVE  \A j \in Keys : used'.posts[j] = IF j = k THEN used.posts[k] + 1 ELSE used.posts[j]
  BY <1>3, Zenon DEF Post, TypeInv, Uses
<1>4. \A k \in Keys : used.posts[k] <= used'.posts[k]
  BY <1>1, <1>2, <1>3 DEF Frame, RequestFrame
<1>5. ASSUME NEW t \in Threads, NEW k \in Keys, NEW verdict \in {"approved", "denied"},
             DecideGate(t, k, verdict)
      PROVE  used'.decisions = used.decisions + 1
  BY <1>5, Zenon DEF DecideGate, TypeInv, Uses
<1>6. used.decisions <= used'.decisions
  BY <1>1, <1>2, <1>5 DEF Frame, RequestFrame
<1>7. Crash => used'.crashes = used.crashes + 1
  BY Zenon DEF Crash, TypeInv, Uses
<1>8. used.crashes <= used'.crashes
  BY <1>1, <1>2, <1>7 DEF Frame, RunFrame
<1> QED
  BY <1>2, <1>4, <1>6, <1>8, Zenon

\* run_job() and resume_job() write the status before they leave the job.
LEMMA RunningStep == TypeInv /\ PostedOnce /\ RunningInv /\ [Next]_vars => RunningInv'
<1> SUFFICES ASSUME TypeInv, PostedOnce, RunningInv, [Next]_vars
             PROVE  RunningInv'
  BY Zenon
<1>1. RunFrame /\ TypeInv'
  BY FrameStep, TypeStep, Zenon DEF Frame
<1>2. \A t \in Threads : th'[t].result = "raised" => th'[t].key \in used'.raised
  BY <1>1, Zenon DEF RunFrame, RunningInv
<1>3. \A k \in Keys : jobs'[k] # "absent" => used'.posts[k] >= 1
  <2>1. \A k \in Keys : jobs'[k] # "absent" => used.posts[k] >= 1
    BY <1>1 DEF RunFrame, RunningInv, PostedOnce, Posting
  <2> QED
    BY <2>1, Counters
<1>4. ASSUME NEW k \in Keys, jobs'[k] = "running", used'.crashes = 0
      PROVE  k \in used'.raised \/ \E t \in Threads : th'[t].key = k /\ th'[t].pc \in Working
  <2>1. ~Crash /\ used.crashes = 0
    BY <1>4, Counters DEF Crash, TypeInv, Uses
  <2>2. CASE \E t \in Threads : th'[t].pc = "register" /\ th'[t].key = k
    BY <2>2, Zenon DEF Working
  <2>3. CASE jobs[k] = "running"
    BY <1>1, <1>4, <2>1, <2>3 DEF RunFrame, RunningInv
  <2> QED
    BY <1>1, <1>4, <2>2, <2>3, Zenon DEF RunFrame
<1> QED
  BY <1>2, <1>3, <1>4, Zenon DEF RunningInv

Early == {"insert", "check", "guard", "register"}

Once(k) == used.posts[k] <= 1 /\ used.decisions <= 1 /\ used.crashes <= 1

NoResume(k) == \A u \in Threads : th[u].key = k => th[u].pc # "resume"

\* The kernel has finalized the session, and the thread is about to say so.
Said(t) == th[t].pc \in {"unregister", "finish"} /\ th[t].result = "completed"

\* How far the job's one post has come: before the run the journal is empty, in
\* the run it is open, and what is reported completed is finalized.
RunStages(k) ==
  \A t \in Threads : th[t].key = k =>
    /\ th[t].pc \in Early => tail[k] = "none"
    /\ th[t].pc = "run" => tail[k] \in {"open", "intent"}
    /\ th[t].pc \in Early \cup {"run"} =>
         jobs[k] # "done" /\ NoResume(k) /\ \A u \in Threads : th[u].key = k => ~Said(u)
    /\ Said(t) => tail[k] = "final" /\ NoResume(k)

\* What the status of the job says of its journal.
StatusStages(k) ==
  /\ used.posts[k] = 0 => tail[k] = "none"
  /\ jobs[k] = "done" /\ used.crashes = 0 => tail[k] = "final" /\ NoResume(k)
  /\ jobs[k] = "done" /\ tail[k] \in {"intent", "review"} => ~NoResume(k)
  /\ jobs[k] = "running" /\ tail[k] = "review" =>
       recovering = [key |-> k, status |-> "needs_review"]
  /\ recovering = [key |-> k, status |-> "done"] => tail[k] \notin {"intent", "review"}

Stages(k) == RunStages(k) /\ StatusStages(k)

\* The stages of a job that was posted once and decided at most once, in a
\* system whose process has died at most once.
StagesInv == \A k \in Keys : Once(k) => Stages(k)

\* A step that cannot disturb the stages of a job: its journal stays, its
\* status stays or says nothing of the journal, and no thread enters a stage.
Harmless(k) ==
  /\ tail'[k] = tail[k] /\ used'.crashes = used.crashes /\ used'.posts[k] = used.posts[k]
  /\ recovering' = recovering
  /\ \/ jobs'[k] = jobs[k] \/ jobs'[k] \notin {"done", "running"}
     \/ jobs'[k] = "running" /\ tail[k] # "review"
  /\ \A u \in Threads :
       /\ th'[u].key = k /\ th'[u].pc \in Early => th[u].key = k /\ th[u].pc \in Early
       /\ th'[u].key = k /\ th'[u].pc = "run" => th[u].key = k /\ th[u].pc = "run"
       /\ th'[u].key = k /\ th'[u].pc = "resume" => th[u].key = k /\ th[u].pc = "resume"
       /\ th'[u].key = k /\ Said(u)' => th[u].key = k /\ Said(u)
       /\ th[u].key = k /\ th[u].pc = "resume" => th'[u].key = k /\ th'[u].pc = "resume"

\* A step that is harmless to a job leaves its stages as they are.
LEMMA HarmlessKeeps ==
  ASSUME NEW k \in Keys, Stages(k), Harmless(k)
  PROVE  Stages(k)'
<1>1. RunStages(k)'
  BY Zenon DEF Stages, RunStages, Harmless, NoResume
<1>2. StatusStages(k)'
  BY Zenon DEF Stages, StatusStages, Harmless, NoResume
<1> QED
  BY <1>1, <1>2, Zenon DEF Stages

\* The stages of a job posted, decided and crashed at most once survive every
\* step of every thread.
LEMMA StagesStep ==
  TypeInv /\ PostedOnce /\ DecidedOnce /\ RunningInv /\ StagesInv /\ [Next]_vars => StagesInv'
<1> SUFFICES ASSUME TypeInv, PostedOnce, DecidedOnce, RunningInv, StagesInv, [Next]_vars,
                    NEW k \in Keys, Once(k)'
             PROVE  Stages(k)'
  BY Zenon DEF StagesInv
<1>0. th \in [Threads -> ThreadStates] /\ tail \in [Keys -> Tails] /\ jobs \in [Keys -> Statuses]
  BY Zenon DEF TypeInv
<1>a. Once(k) /\ Stages(k)
  BY Counters DEF Once, StagesInv
<1>b. used.posts[k] \in Nat /\ used.decisions \in Nat /\ used.crashes \in Nat
  BY Counters, Zenon
<1>c. \A t, u \in Threads :
        th[t].key = k /\ th[u].key = k /\ th[t].pc \in Posting /\ th[u].pc \in Posting => t = u
  BY <1>a, <1>b DEF PostedOnce, Once
<1>d. \A t, u \in Threads : th[t].pc \in Resuming /\ th[u].pc \in Resuming => t = u
  BY <1>a, <1>b, SMTT(90) DEF DecidedOnce, Once
<1>e. \A t \in Threads : th[t].key = k => used.posts[k] # 0
  BY <1>b, SessionsAssumption DEF TypeInv, ThreadShape, RunningInv, PostedOnce, Posting
<1>1. ASSUME NEW t \in Threads, Insert(t)
      PROVE  Stages(k)'
  <2>0. th[t].pc = "insert" /\ recovering = NoRecovery /\ th[t].key \in Keys
    BY <1>0, <1>1, Zenon DEF TypeInv, ThreadShape, Insert, At
  <2>1. IF jobs[th[t].key] = "absent" THEN Goes(t, "check") ELSE Idled(t)
    BY <1>1, Moves, ZenonT(90)
  <2>2. Harmless(k)
    BY <1>0, <1>1, <2>0, <2>1, SessionsAssumption, ZenonT(90) DEF Moved, Goes, Idled, Harmless, Early, Said, NoRecovery, Insert, job_set_status
  <2> QED
    BY <1>a, <2>2, HarmlessKeeps, Zenon
<1>2. ASSUME NEW t \in Threads, Check(t)
      PROVE  Stages(k)'
  <2>0. th[t].pc = "check" /\ recovering = NoRecovery /\ th[t].key \in Keys
    BY <1>0, <1>2, Zenon DEF TypeInv, ThreadShape, Check, At
  <2>1. IF jobs[th[t].key] \notin {"done", "cancelled"} THEN Goes(t, "guard") ELSE Idled(t)
    BY <1>2, Moves, ZenonT(90)
  <2>2. Harmless(k)
    BY <1>0, <1>2, <2>0, <2>1, SessionsAssumption, Zenon DEF Moved, Goes, Idled, Harmless, Early, Said, NoRecovery, Check
  <2> QED
    BY <1>a, <2>2, HarmlessKeeps, Zenon
<1>3. ASSUME NEW t \in Threads, PackageGuard(t)
      PROVE  Stages(k)'
  <2>0. th[t].pc = "guard" /\ recovering = NoRecovery /\ th[t].key \in Keys
    BY <1>0, <1>3, Zenon DEF TypeInv, ThreadShape, PackageGuard, At
  <2>1. IF jobs'[th[t].key] = "running" THEN Goes(t, "register") ELSE Idled(t)
    BY <1>3, Moves, Zenon
  <2>2. th[t].key = k => tail[k] # "review"
    BY <1>a, <2>0, Zenon DEF Stages, RunStages, Early
  <2>4. \/ jobs'[k] = jobs[k] \/ jobs'[k] \notin {"done", "running"}
        \/ jobs'[k] = "running" /\ tail[k] # "review"
    BY <1>0, <1>3, <2>0, <2>2, Zenon DEF PackageGuard, job_set_status
  <2>3. Harmless(k)
    BY <1>0, <1>3, <2>0, <2>1, <2>4, SessionsAssumption, ZenonT(90) DEF Moved, Goes, Idled, Harmless, Early, Said, NoRecovery, PackageGuard
  <2> QED
    BY <1>a, <2>3, HarmlessKeeps, Zenon
<1>4. ASSUME NEW t \in Threads, Register(t)
      PROVE  Stages(k)'
  <2>0. th[t].pc = "register" /\ recovering = NoRecovery /\ th[t].key \in Keys
    BY <1>0, <1>4, Zenon DEF TypeInv, ThreadShape, Register, At
  <2>1. Moved(t, "run", th[t].key, "open", th[t].result)
    BY <1>4, Moves, Zenon
  <2>2. CASE th[t].key # k
    <3>1. Harmless(k)
      BY <1>0, <1>4, <2>0, <2>1, <2>2, SessionsAssumption, Zenon DEF Moved, Goes, Idled, Harmless, Early, Said, NoRecovery, Register
    <3> QED
      BY <1>a, <3>1, HarmlessKeeps, Zenon
  <2>3. CASE th[t].key = k
    <3>1. tail'[k] = "open" /\ jobs'[k] = jobs[k] /\ used' = used /\ recovering' = NoRecovery
      BY <1>0, <1>4, <2>0, <2>3, Zenon DEF Register
    <3>2. RunStages(k)'
      BY <1>a, <1>c, <1>d, <2>0, <2>1, <2>3, <3>1, SessionsAssumption, SMTT(90) DEF Stages, RunStages, StatusStages, NoResume, Said, Early, Posting, Resuming, Moved, Idled
    <3>3. StatusStages(k)'
      BY <1>a, <1>c, <1>d, <1>e, <2>0, <2>1, <2>3, <3>1, SessionsAssumption, Zenon DEF Stages, RunStages, StatusStages, NoResume, Said, Early, Resuming, Moved, Idled, NoRecovery
    <3> QED
      BY <3>2, <3>3, Zenon DEF Stages
  <2> QED
    BY <2>2, <2>3, Zenon
<1>5. ASSUME NEW t \in Threads, KernelIntent(t)
      PROVE  Stages(k)'
  <2>0. th[t].pc \in {"run", "resume"} /\ recovering = NoRecovery /\ th[t].key \in Keys
    BY <1>0, <1>5, Zenon DEF TypeInv, ThreadShape, KernelIntent, InKernel
  <2>1. Moved(t, th[t].pc, th[t].key, IF th[t].doing = "pending" THEN "gated" ELSE "intent", th[t].result)
    BY <1>5, Moves, Zenon
  <2>2. CASE th[t].key # k
    <3>1. Harmless(k)
      BY <1>0, <1>5, <2>0, <2>1, <2>2, SessionsAssumption, Zenon DEF Moved, Goes, Idled, Harmless, Early, Said, NoRecovery, KernelIntent
    <3> QED
      BY <1>a, <3>1, HarmlessKeeps, Zenon
  <2>3. CASE th[t].key = k
    <3>1. tail'[k] = "intent" /\ jobs'[k] = jobs[k] /\ used' = used /\ recovering' = NoRecovery
      BY <1>0, <1>5, <2>0, <2>3, Zenon DEF KernelIntent
    <3>2. RunStages(k)'
      BY <1>a, <1>c, <1>d, <2>0, <2>1, <2>3, <3>1, SessionsAssumption, SMTT(90) DEF Stages, RunStages, StatusStages, NoResume, Said, Early, Posting, Resuming, Moved, Idled
    <3>3. StatusStages(k)'
      BY <1>a, <1>c, <1>d, <1>e, <2>0, <2>1, <2>3, <3>1, SessionsAssumption DEF Stages, RunStages, StatusStages, NoResume, Said, Early, Resuming, Moved, Idled, NoRecovery
    <3> QED
      BY <3>2, <3>3, Zenon DEF Stages
  <2> QED
    BY <2>2, <2>3, Zenon
<1>6. ASSUME NEW t \in Threads, KernelEffect(t)
      PROVE  Stages(k)'
  <2>0. th[t].pc \in {"run", "resume"} /\ recovering = NoRecovery /\ th[t].key \in Keys
    BY <1>0, <1>6, Zenon DEF TypeInv, ThreadShape, KernelEffect, InKernel
  <2>1. Moved(t, th[t].pc, th[t].key, "ran", th[t].result)
    BY <1>6, Moves, Zenon
  <2>2. Harmless(k)
    BY <1>0, <1>6, <2>0, <2>1, SessionsAssumption, Zenon DEF Moved, Goes, Idled, Harmless, Early, Said, NoRecovery, KernelEffect
  <2> QED
    BY <1>a, <2>2, HarmlessKeeps, Zenon
<1>7. ASSUME NEW t \in Threads, KernelDone(t)
      PROVE  Stages(k)'
  <2>0. th[t].pc \in {"run", "resume"} /\ recovering = NoRecovery /\ th[t].key \in Keys
    BY <1>0, <1>7, Zenon DEF TypeInv, ThreadShape, KernelDone, InKernel
  <2>1. Moved(t, th[t].pc, th[t].key, "open", th[t].result)
    BY <1>7, Moves, Zenon
  <2>2. CASE th[t].key # k
    <3>1. Harmless(k)
      BY <1>0, <1>7, <2>0, <2>1, <2>2, SessionsAssumption, Zenon DEF Moved, Goes, Idled, Harmless, Early, Said, NoRecovery, KernelDone
    <3> QED
      BY <1>a, <3>1, HarmlessKeeps, Zenon
  <2>3. CASE th[t].key = k
    <3>1. tail'[k] = "open" /\ jobs'[k] = jobs[k] /\ used' = used /\ recovering' = NoRecovery
      BY <1>0, <1>7, <2>0, <2>3, Zenon DEF KernelDone
    <3>2. RunStages(k)'
      BY <1>a, <1>c, <1>d, <2>0, <2>1, <2>3, <3>1, SessionsAssumption, SMTT(90) DEF Stages, RunStages, StatusStages, NoResume, Said, Early, Posting, Resuming, Moved, Idled
    <3>3. StatusStages(k)'
      BY <1>a, <1>c, <1>d, <1>e, <2>0, <2>1, <2>3, <3>1, SessionsAssumption, Zenon DEF Stages, RunStages, StatusStages, NoResume, Said, Early, Resuming, Moved, Idled, NoRecovery
    <3> QED
      BY <3>2, <3>3, Zenon DEF Stages
  <2> QED
    BY <2>2, <2>3, Zenon
<1>8. ASSUME NEW t \in Threads, KernelReturn(t)
      PROVE  Stages(k)'
  <2>0. th[t].pc \in {"run", "resume"} /\ recovering = NoRecovery /\ th[t].key \in Keys
    BY <1>0, <1>8, Zenon DEF TypeInv, ThreadShape, KernelReturn, InKernel
  <2>1. \E r : /\ Moved(t, IF th[t].pc = "run" THEN "unregister" ELSE "finish", th[t].key, th[t].doing, r)
               /\ r = "completed" => tail'[th[t].key] = "final"
    BY <1>8, Moves, Zenon
  <2>2. CASE th[t].key # k
    <3>1. Harmless(k)
      BY <1>0, <1>8, <2>0, <2>1, <2>2, SessionsAssumption, Zenon DEF Moved, Goes, Idled, Harmless, Early, Said, NoRecovery, KernelReturn
    <3> QED
      BY <1>a, <3>1, HarmlessKeeps, Zenon
  <2>3. CASE th[t].key = k
    <3>1. tail'[k] \in {"final", "gate", "stopped"} /\ jobs'[k] = jobs[k] /\ used' = used /\ recovering' = NoRecovery
      BY <1>0, <1>8, <2>0, <2>3, Zenon DEF KernelReturn
    <3>2. RunStages(k)'
      BY <1>a, <1>c, <1>d, <2>0, <2>1, <2>3, <3>1, SessionsAssumption, SMTT(90) DEF Stages, RunStages, StatusStages, NoResume, Said, Early, Posting, Resuming, Moved, Idled
    <3>3. StatusStages(k)'
      BY <1>a, <1>c, <1>d, <1>e, <2>0, <2>1, <2>3, <3>1, SessionsAssumption, Zenon DEF Stages, RunStages, StatusStages, NoResume, Said, Early, Resuming, Moved, Idled, NoRecovery
    <3> QED
      BY <3>2, <3>3, Zenon DEF Stages
  <2> QED
    BY <2>2, <2>3, Zenon
<1>9. ASSUME NEW t \in Threads, KernelRaise(t)
      PROVE  Stages(k)'
  <2>0. th[t].pc \in {"run", "resume"} /\ recovering = NoRecovery /\ th[t].key \in Keys
    BY <1>0, <1>9, Zenon DEF TypeInv, ThreadShape, KernelRaise, InKernel
  <2>1. IF th[t].pc = "run" THEN Moved(t, "unregister", th[t].key, th[t].doing, "raised") ELSE Idled(t)
    BY <1>9, Moves, Zenon
  <2>2. CASE th[t].key # k
    <3>1. Harmless(k)
      BY <1>0, <1>9, <2>0, <2>1, <2>2, SessionsAssumption DEF Moved, Goes, Idled, Harmless, Early, Said, NoRecovery, KernelRaise
    <3> QED
      BY <1>a, <3>1, HarmlessKeeps, Zenon
  <2>3. CASE th[t].key = k
    <3>1. PICK u \in Threads \ {t} : InKernel(u) /\ th[u].key = k
      BY <1>9, <2>3, Zenon DEF KernelRaise
    <3>2. ~(th[t].pc = "run" /\ th[u].pc = "run") /\ ~(th[t].pc = "resume" /\ th[u].pc = "resume")
      BY <1>c, <1>d, <2>3, <3>1, Zenon DEF Posting, Resuming
    <3>3. ~(th[t].pc = "run" /\ th[u].pc = "resume") /\ ~(th[t].pc = "resume" /\ th[u].pc = "run")
      BY <1>a, <2>3, <3>1, Zenon DEF Stages, RunStages, NoResume
    <3> QED
      BY <2>0, <3>1, <3>2, <3>3, Zenon DEF InKernel
  <2> QED
    BY <2>2, <2>3, Zenon
<1>10. ASSUME NEW t \in Threads, Unregister(t)
      PROVE  Stages(k)'
  <2>0. th[t].pc = "unregister" /\ recovering = NoRecovery /\ th[t].key \in Keys
    BY <1>0, <1>10, Zenon DEF TypeInv, ThreadShape, Unregister, At
  <2>1. IF th[t].result # "raised" THEN Goes(t, "finish") ELSE Idled(t)
    BY <1>10, Moves, Zenon
  <2>2. Harmless(k)
    BY <1>0, <1>10, <2>0, <2>1, SessionsAssumption DEF Moved, Goes, Idled, Harmless, Early, Said, NoRecovery, Unregister
  <2> QED
    BY <1>a, <2>2, HarmlessKeeps, Zenon
<1>11. ASSUME NEW t \in Threads, Finish(t)
      PROVE  Stages(k)'
  <2>0. th[t].pc = "finish" /\ recovering = NoRecovery /\ th[t].key \in Keys
    BY <1>0, <1>11, Zenon DEF TypeInv, ThreadShape, Finish, At
  <2>1. Idled(t)
    BY <1>11, Moves, Zenon
  <2>2. CASE ~(th[t].key = k /\ th[t].result = "completed")
    <3>1. Harmless(k)
      BY <1>0, <1>11, <2>0, <2>1, <2>2, SessionsAssumption, Zenon DEF Moved, Goes, Idled, Harmless, Early, Said, NoRecovery, Finish, job_set_status, _status_for
    <3> QED
      BY <1>a, <3>1, HarmlessKeeps, Zenon
  <2>3. CASE th[t].key = k /\ th[t].result = "completed"
    <3>1. tail'[k] = tail[k] /\ jobs'[k] = "done" /\ used' = used /\ recovering' = NoRecovery
      BY <1>0, <1>11, <2>0, <2>3, Zenon DEF Finish, job_set_status, _status_for
    <3>2. RunStages(k)'
      BY <1>a, <1>c, <1>d, <2>0, <2>1, <2>3, <3>1, SessionsAssumption, SMTT(90) DEF Stages, RunStages, StatusStages, NoResume, Said, Early, Posting, Resuming, Moved, Idled
    <3>3. StatusStages(k)'
      BY <1>a, <1>c, <1>d, <1>e, <2>0, <2>1, <2>3, <3>1, SessionsAssumption, Zenon DEF Stages, RunStages, StatusStages, NoResume, Said, Early, Resuming, Moved, Idled, NoRecovery
    <3> QED
      BY <3>2, <3>3, Zenon DEF Stages
  <2> QED
    BY <2>2, <2>3, Zenon
<1>12. ASSUME NEW t \in Threads, Resume(t)
      PROVE  Stages(k)'
  <2>0. th[t].pc = "load" /\ recovering = NoRecovery /\ th[t].key \in Keys
    BY <1>0, <1>12, Zenon DEF TypeInv, ThreadShape, Resume, At
  <2>1. IF tail[th[t].key] # "gate" THEN Moved(t, "finish", th[t].key, th[t].doing, "resume_noop")
        ELSE Moved(t, "resume", th[t].key, IF decided[th[t].key] = "approved" THEN "pending" ELSE "open", th[t].result)
    BY <1>12, Moves, Zenon
  <2>2. CASE ~(th[t].key = k /\ tail[k] = "gate")
    <3>1. Harmless(k)
      BY <1>0, <1>12, <2>0, <2>1, <2>2, SessionsAssumption, Zenon DEF Moved, Goes, Idled, Harmless, Early, Said, NoRecovery, Resume
    <3> QED
      BY <1>a, <3>1, HarmlessKeeps, Zenon
  <2>3. CASE th[t].key = k /\ tail[k] = "gate"
    <3>1. tail'[k] = tail[k] /\ jobs'[k] = jobs[k] /\ used' = used /\ recovering' = NoRecovery
      BY <1>0, <1>12, <2>0, <2>3, Zenon DEF Resume
    <3>2. RunStages(k)'
      BY <1>a, <1>c, <1>d, <2>0, <2>1, <2>3, <3>1, SessionsAssumption, ZenonT(90) DEF Stages, RunStages, StatusStages, NoResume, Said, Early, Posting, Resuming, Moved, Idled
    <3>3. StatusStages(k)'
      BY <1>a, <1>c, <1>d, <1>e, <2>0, <2>1, <2>3, <3>1, SessionsAssumption, Zenon DEF Stages, RunStages, StatusStages, NoResume, Said, Early, Resuming, Moved, Idled, NoRecovery
    <3> QED
      BY <3>2, <3>3, Zenon DEF Stages
  <2> QED
    BY <2>2, <2>3, Zenon
<1>13. ASSUME NEW t \in Threads, CancelSignal(t)
      PROVE  Stages(k)'
  <2>0. th[t].pc = "signal" /\ recovering = NoRecovery /\ th[t].key \in Keys
    BY <1>0, <1>13, Zenon DEF TypeInv, ThreadShape, CancelSignal, At
  <2>1. Goes(t, "cancel_job")
    BY <1>13, Moves, Zenon
  <2>2. Harmless(k)
    BY <1>0, <1>13, <2>0, <2>1, SessionsAssumption, Zenon DEF Moved, Goes, Idled, Harmless, Early, Said, NoRecovery, CancelSignal
  <2> QED
    BY <1>a, <2>2, HarmlessKeeps, Zenon
<1>14. ASSUME NEW t \in Threads, CancelJob(t)
      PROVE  Stages(k)'
  <2>0. th[t].pc = "cancel_job" /\ recovering = NoRecovery /\ th[t].key \in Keys
    BY <1>0, <1>14, ZenonT(90) DEF TypeInv, ThreadShape, CancelJob, At
  <2>1. Goes(t, "cancel_session")
    BY <1>14, Moves, ZenonT(90)
  <2>2. Harmless(k)
    BY <1>0, <1>14, <2>0, <2>1, SessionsAssumption, Zenon DEF Moved, Goes, Idled, Harmless, Early, Said, NoRecovery, CancelJob, job_set_status
  <2> QED
    BY <1>a, <2>2, HarmlessKeeps, Zenon
<1>15. ASSUME NEW t \in Threads, CancelSession(t)
      PROVE  Stages(k)'
  <2>0. th[t].pc = "cancel_session" /\ recovering = NoRecovery /\ th[t].key \in Keys
    BY <1>0, <1>15, Zenon DEF TypeInv, ThreadShape, CancelSession, At
  <2>1. Idled(t)
    BY <1>15, Moves, ZenonT(90)
  <2>2. Harmless(k)
    BY <1>0, <1>15, <2>0, <2>1, SessionsAssumption, Zenon DEF Moved, Goes, Idled, Harmless, Early, Said, NoRecovery, CancelSession
  <2> QED
    BY <1>a, <2>2, HarmlessKeeps, Zenon
<1>16. ASSUME NEW t \in Threads, NEW j \in Keys, Post(t, j)
      PROVE  Stages(k)'
  <2>0. th[t].pc = "idle" /\ recovering = NoRecovery
    BY <1>16, Zenon DEF Post, At
  <2>1. Moved(t, IF jobs[j] = "absent" THEN "insert" ELSE "check", j, th[t].doing, th[t].result)
    BY <1>16, Moves, Zenon
  <2>2. \A i \in Keys : used'.posts[i] = IF i = j THEN used.posts[j] + 1 ELSE used.posts[i]
    BY <1>16, Zenon DEF Post, TypeInv, Uses
  <2>3. used'.crashes = used.crashes
    BY <1>16, Zenon DEF Post, TypeInv, Uses
  <2>4. CASE j # k
    <3>1. Harmless(k)
      BY <1>0, <1>16, <2>0, <2>1, <2>2, <2>3, <2>4 DEF Moved, Harmless, Early, Said, Post
    <3> QED
      BY <1>a, <3>1, HarmlessKeeps, Zenon
  <2>5. CASE j = k
    <3>1. used.posts[k] = 0 /\ used'.posts[k] = 1
      BY <1>b, <2>2, <2>5, SMTT(90) DEF Once
    <3>2. jobs[k] = "absent" /\ tail[k] = "none" /\ \A u \in Threads : th[u].key # k
      BY <1>a, <1>e, <3>1 DEF Stages, StatusStages, RunningInv
    <3>3. tail' = tail /\ jobs' = jobs /\ recovering' = NoRecovery
      BY <1>16, <2>0, Zenon DEF Post
    <3>4. RunStages(k)'
      BY <2>0, <2>1, <2>5, <3>2, <3>3, Zenon DEF RunStages, NoResume, Said, Moved
    <3>5. StatusStages(k)'
      BY <3>1, <3>2, <3>3, Zenon DEF StatusStages, NoRecovery
    <3> QED
      BY <3>4, <3>5, Zenon DEF Stages
  <2> QED
    BY <2>4, <2>5, Zenon
<1>17. ASSUME NEW t \in Threads, NEW j \in Keys, CancelLookup(t, j)
      PROVE  Stages(k)'
  <2>1. th[t].pc = "idle" /\ Moved(t, "signal", j, th[t].doing, th[t].result)
    BY <1>17, Moves, Zenon DEF CancelLookup, At
  <2>2. used'.posts = used.posts /\ used'.crashes = used.crashes
    BY <1>17, Zenon DEF CancelLookup, TypeInv, Uses
  <2>3. Harmless(k)
    BY <1>17, <2>1, <2>2 DEF Moved, Harmless, Early, Said, CancelLookup, TypeInv, ThreadShape
  <2> QED
    BY <1>a, <2>3, HarmlessKeeps, Zenon
<1>18. ASSUME NEW t \in Threads, NEW j \in Keys, NEW verdict \in {"approved", "denied"}, DecideGate(t, j, verdict)
      PROVE  Stages(k)'
  <2>1. th[t].pc = "idle" /\ Moved(t, "load", j, th[t].doing, th[t].result)
    BY <1>18, Moves, ZenonT(90) DEF DecideGate, At
  <2>2. used'.posts = used.posts /\ used'.crashes = used.crashes
    BY <1>18, Zenon DEF DecideGate, TypeInv, Uses
  <2>3. Harmless(k)
    BY <1>18, <2>1, <2>2 DEF Moved, Harmless, Early, Said, DecideGate, TypeInv, ThreadShape
  <2> QED
    BY <1>a, <2>3, HarmlessKeeps, Zenon
<1>19. CASE Crash
  <2>1. used.crashes = 0 /\ used'.crashes = 1 /\ used'.posts = used.posts
    BY <1>b, <1>19 DEF Crash, Once, TypeInv, Uses
  <2>2. /\ tail' = tail /\ jobs' = jobs /\ recovering' = NoRecovery
        /\ \A u \in Threads : th'[u].key = NoKey /\ th'[u].pc = "idle"
    BY <1>19, Zenon DEF Crash, Idle
  <2>3. recovering = NoRecovery
    BY <2>1 DEF TypeInv
  <2>4. RunStages(k)'
    BY <2>2, SessionsAssumption, Zenon DEF RunStages
  <2>5. StatusStages(k)'
    BY <1>a, <2>1, <2>2, <2>3, Zenon DEF Stages, StatusStages, NoResume, NoRecovery
  <2> QED
    BY <2>4, <2>5, Zenon DEF Stages
<1>20. CASE RecoverSet
  <2>1. /\ tail' = tail /\ used' = used /\ th' = th /\ recovering' = NoRecovery
        /\ jobs' = [jobs EXCEPT ![recovering.key] = recovering.status] /\ recovering # NoRecovery
    BY <1>20, Zenon DEF RecoverSet, job_set_status
  <2>2. /\ used.crashes > 0 /\ \A u \in Threads : th[u].key = NoKey
        /\ recovering.key \in Keys /\ recovering.status \in {"done", "needs_review"}
        /\ recovering = [key |-> recovering.key, status |-> recovering.status]
    BY <2>1, Zenon DEF TypeInv, ThreadShape
  <2>3. RunStages(k)'
    BY <2>1, <2>2, SessionsAssumption, Zenon DEF RunStages
  <2>4. StatusStages(k)'
    BY <1>0, <1>a, <1>b, <2>1, <2>2, SessionsAssumption DEF Stages, StatusStages, NoResume, NoRecovery
  <2> QED
    BY <2>3, <2>4, Zenon DEF Stages
<1>21. ASSUME NEW j \in Keys, RecoverJob(j)
      PROVE  Stages(k)'
  <2>1. /\ used' = used /\ th' = th /\ jobs' = jobs /\ jobs[j] = "running" /\ used.crashes > 0
        /\ recovering = NoRecovery /\ \A u \in Threads : th[u].pc = "idle"
    BY <1>21, Zenon DEF RecoverJob
  <2>2. \A u \in Threads : th[u].key = NoKey
    BY <2>1, Zenon DEF TypeInv, ThreadShape
  <2>3. RunStages(k)'
    BY <2>1, <2>2, SessionsAssumption, Zenon DEF RunStages
  <2>4. CASE j # k
    <3>1. tail'[k] = tail[k] /\ \E s : recovering' = [key |-> j, status |-> s]
      BY <1>0, <1>21, <2>4, Zenon DEF RecoverJob
    <3>2. StatusStages(k)'
      BY <1>a, <1>b, <2>1, <2>2, <2>4, <3>1, SessionsAssumption DEF Stages, StatusStages, NoResume, NoRecovery
    <3> QED
      BY <2>3, <3>2, Zenon DEF Stages
  <2>5. CASE j = k
    <3>1. used.posts[k] # 0
      BY <2>1, <2>5 DEF RunningInv
    <3>2. tail[k] # "review"
      BY <1>a, <2>1, <2>5, Zenon DEF Stages, StatusStages, NoRecovery
    <3>3. \/ recovering' = [key |-> k, status |-> "needs_review"]
          \/ recovering' = [key |-> k, status |-> "done"] /\ tail'[k] \notin {"intent", "review"}
      BY <1>0, <1>21, <2>5, <3>2, Zenon DEF RecoverJob
    <3>4. recovering' = [key |-> k, status |-> "needs_review"] => recovering' # [key |-> k, status |-> "done"]
      OBVIOUS
    <3>5. tail'[k] = "review" => recovering' = [key |-> k, status |-> "needs_review"]
      BY <3>3, Zenon
    <3>6. StatusStages(k)'
      BY <1>b, <2>1, <2>5, <3>1, <3>3, <3>4, <3>5, Zenon DEF StatusStages
    <3> QED
      BY <2>3, <3>6, Zenon DEF Stages
  <2> QED
    BY <2>4, <2>5, Zenon
<1>22. CASE UNCHANGED vars
  BY <1>a, <1>22, HarmlessKeeps, Zenon DEF Harmless, Said, vars
<1> QED
  BY <1>1, <1>2, <1>3, <1>4, <1>5, <1>6, <1>7, <1>8, <1>9, <1>10, <1>11, <1>12, <1>13, <1>14, <1>15, <1>16, <1>17, <1>18, <1>19, <1>20, <1>21, <1>22, Zenon DEF Next, Serve, Request

-----------------------------------------------------------------------------
(* The theorems. *)

\* The inductive invariant.
Inv == TypeInv /\ FlagsInv /\ GateInv /\ DecidedOnce /\ RunningInv /\ StagesInv

\* The service starts idle, with an empty table.
LEMMA Initially == Init => Inv
<1> SUFFICES ASSUME Init
             PROVE  Inv
  BY Zenon
<1>1. /\ \A t \in Threads : th[t] = Idle
      /\ \A k \in Keys : /\ jobs[k] = "absent" /\ tail[k] = "none" /\ decided[k] = "none"
                         /\ _cancel[k] = NoThread /\ used.posts[k] = 0 /\ effects[k].gated = 0
      /\ recovering = NoRecovery
  BY Zenon DEF Init
<1>2. TypeInv
  <2>1. th \in [Threads -> ThreadStates]
    BY IdleState, Zenon DEF Init
  <2>2. effects \in [Keys -> Tallies] /\ used \in Uses
    BY Zenon DEF Init, Tallies, Uses
  <2> QED
    BY <1>1, <2>1, <2>2, ZenonT(90) DEF Init, TypeInv, ThreadShape, Statuses, Tails, Idle
<1>3. FlagsInv
  BY <1>1, SessionsAssumption DEF FlagsInv, PostedOnce, FlagsMatchRuns, Posting, Idle
<1>4. GateInv
  BY <1>1, SMTT(90) DEF GateInv, Idle
<1>5. DecidedOnce /\ RunningInv
  BY <1>1, SMTT(90) DEF DecidedOnce, RunningInv, Resuming, Idle
<1>6. StagesInv
  BY <1>1, SessionsAssumption DEF StagesInv, Stages, RunStages, StatusStages, Idle, NoRecovery
<1> QED
  BY <1>2, <1>3, <1>4, <1>5, <1>6, Zenon DEF Inv

\* The inductive invariant holds in every reachable state.
LEMMA Always == Spec => []Inv
<1>1. Inv /\ [Next]_vars => Inv'
  BY TypeStep, FlagsStep, GateStep, DecidedOnceStep, RunningStep, StagesStep, Zenon DEF Inv, FlagsInv
<1> QED
  BY <1>1, Initially, PTL DEF Spec

\* SessionManager._cancel and the runs agree, however many requests of
\* run_job() and cancel() interleave, for any number of threads and jobs.
THEOREM RegistryAgrees == Spec => []FlagsMatchRuns
<1>1. Inv => FlagsMatchRuns
  BY Zenon DEF Inv, FlagsInv
<1> QED
  BY <1>1, Always, PTL

\* resume_job() runs no call behind a gate that was denied, however many
\* approve and deny requests race.
THEOREM DeniedIsFinal == Spec => []DeniedNeverRuns
<1>1. Inv => DeniedNeverRuns
  BY SMTT(90) DEF Inv, GateInv, DeniedNeverRuns, TypeInv, Tallies
<1> QED
  BY <1>1, Always, PTL

\* No step but a decision wakes a cancelled job that nothing works on.
CancelledStays ==
  \A k \in Keys : Cancelled(k) =>
    Cancelled(k)' \/ \E t \in Threads : th'[t].key = k /\ th'[t].pc = "load"

\* Every action but the decision leaves such a job alone.
LEMMA CancelledStep == TypeInv /\ [Next]_vars => CancelledStays
<1> SUFFICES ASSUME TypeInv, [Next]_vars, NEW k \in Keys, Cancelled(k)
             PROVE  Cancelled(k)' \/ \E t \in Threads : th'[t].key = k /\ th'[t].pc = "load"
  BY Zenon DEF CancelledStays
<1>0. th \in [Threads -> ThreadStates] /\ jobs \in [Keys -> Statuses]
  BY Zenon DEF TypeInv
<1>1. ASSUME NEW t \in Threads, Insert(t)
      PROVE  Cancelled(k)'
  <2>0. th[t].pc = "insert" /\ recovering = NoRecovery /\ th[t].key \in Keys
    BY <1>0, <1>1, ZenonT(90) DEF TypeInv, ThreadShape, Insert, At
  <2>1. IF jobs[th[t].key] = "absent" THEN Goes(t, "check") ELSE Idled(t)
    BY <1>1, Moves, ZenonT(90)
  <2> QED
    BY <1>0, <1>1, <2>0, <2>1, SessionsAssumption, Zenon DEF Moved, Goes, Idled, Cancelled, NoRecovery, Insert, job_set_status
<1>2. ASSUME NEW t \in Threads, Check(t)
      PROVE  Cancelled(k)'
  <2>0. th[t].pc = "check" /\ recovering = NoRecovery /\ th[t].key \in Keys
    BY <1>0, <1>2, Zenon DEF TypeInv, ThreadShape, Check, At
  <2>1. IF jobs[th[t].key] \notin {"done", "cancelled"} THEN Goes(t, "guard") ELSE Idled(t)
    BY <1>2, Moves, ZenonT(90)
  <2> QED
    BY <1>0, <1>2, <2>0, <2>1, SessionsAssumption, Zenon DEF Moved, Goes, Idled, Cancelled, NoRecovery, Check
<1>3. ASSUME NEW t \in Threads, PackageGuard(t)
      PROVE  Cancelled(k)'
  <2>0. th[t].pc = "guard" /\ recovering = NoRecovery /\ th[t].key \in Keys
    BY <1>0, <1>3, Zenon DEF TypeInv, ThreadShape, PackageGuard, At
  <2>1. IF jobs'[th[t].key] = "running" THEN Goes(t, "register") ELSE Idled(t)
    BY <1>3, Moves, Zenon
  <2> QED
    BY <1>0, <1>3, <2>0, <2>1, SessionsAssumption, Zenon DEF Moved, Goes, Idled, Cancelled, NoRecovery, PackageGuard, job_set_status
<1>4. ASSUME NEW t \in Threads, Register(t)
      PROVE  Cancelled(k)'
  <2>0. th[t].pc = "register" /\ recovering = NoRecovery /\ th[t].key \in Keys
    BY <1>0, <1>4, Zenon DEF TypeInv, ThreadShape, Register, At
  <2>1. Moved(t, "run", th[t].key, "open", th[t].result)
    BY <1>4, Moves, Zenon
  <2> QED
    BY <1>0, <1>4, <2>0, <2>1, SessionsAssumption DEF Moved, Goes, Idled, Cancelled, NoRecovery, Register
<1>5. ASSUME NEW t \in Threads, KernelIntent(t)
      PROVE  Cancelled(k)'
  <2>0. th[t].pc \in {"run", "resume"} /\ recovering = NoRecovery /\ th[t].key \in Keys
    BY <1>0, <1>5, Zenon DEF TypeInv, ThreadShape, KernelIntent, InKernel
  <2>1. Moved(t, th[t].pc, th[t].key, IF th[t].doing = "pending" THEN "gated" ELSE "intent", th[t].result)
    BY <1>5, Moves, Zenon
  <2> QED
    BY <1>0, <1>5, <2>0, <2>1, SessionsAssumption DEF Moved, Goes, Idled, Cancelled, NoRecovery, KernelIntent
<1>6. ASSUME NEW t \in Threads, KernelEffect(t)
      PROVE  Cancelled(k)'
  <2>0. th[t].pc \in {"run", "resume"} /\ recovering = NoRecovery /\ th[t].key \in Keys
    BY <1>0, <1>6, Zenon DEF TypeInv, ThreadShape, KernelEffect, InKernel
  <2>1. Moved(t, th[t].pc, th[t].key, "ran", th[t].result)
    BY <1>6, Moves, Zenon
  <2> QED
    BY <1>0, <1>6, <2>0, <2>1, SessionsAssumption DEF Moved, Goes, Idled, Cancelled, NoRecovery, KernelEffect
<1>7. ASSUME NEW t \in Threads, KernelDone(t)
      PROVE  Cancelled(k)'
  <2>0. th[t].pc \in {"run", "resume"} /\ recovering = NoRecovery /\ th[t].key \in Keys
    BY <1>0, <1>7, Zenon DEF TypeInv, ThreadShape, KernelDone, InKernel
  <2>1. Moved(t, th[t].pc, th[t].key, "open", th[t].result)
    BY <1>7, Moves, Zenon
  <2> QED
    BY <1>0, <1>7, <2>0, <2>1, SessionsAssumption DEF Moved, Goes, Idled, Cancelled, NoRecovery, KernelDone
<1>8. ASSUME NEW t \in Threads, KernelReturn(t)
      PROVE  Cancelled(k)'
  <2>0. th[t].pc \in {"run", "resume"} /\ recovering = NoRecovery /\ th[t].key \in Keys
    BY <1>0, <1>8, Zenon DEF TypeInv, ThreadShape, KernelReturn, InKernel
  <2>1. \E r : /\ Moved(t, IF th[t].pc = "run" THEN "unregister" ELSE "finish", th[t].key, th[t].doing, r)
               /\ r = "completed" => tail'[th[t].key] = "final"
    BY <1>8, Moves, Zenon
  <2> QED
    BY <1>0, <1>8, <2>0, <2>1, SessionsAssumption, ZenonT(60) DEF Moved, Goes, Idled, Cancelled, NoRecovery, KernelReturn
<1>9. ASSUME NEW t \in Threads, KernelRaise(t)
      PROVE  Cancelled(k)'
  <2>0. th[t].pc \in {"run", "resume"} /\ recovering = NoRecovery /\ th[t].key \in Keys
    BY <1>0, <1>9, Zenon DEF TypeInv, ThreadShape, KernelRaise, InKernel
  <2>1. IF th[t].pc = "run" THEN Moved(t, "unregister", th[t].key, th[t].doing, "raised") ELSE Idled(t)
    BY <1>9, Moves, Zenon
  <2> QED
    BY <1>0, <1>9, <2>0, <2>1, SessionsAssumption, Zenon DEF Moved, Goes, Idled, Cancelled, NoRecovery, KernelRaise
<1>10. ASSUME NEW t \in Threads, Unregister(t)
      PROVE  Cancelled(k)'
  <2>0. th[t].pc = "unregister" /\ recovering = NoRecovery /\ th[t].key \in Keys
    BY <1>0, <1>10, Zenon DEF TypeInv, ThreadShape, Unregister, At
  <2>1. IF th[t].result # "raised" THEN Goes(t, "finish") ELSE Idled(t)
    BY <1>10, Moves, ZenonT(90)
  <2> QED
    BY <1>0, <1>10, <2>0, <2>1, SessionsAssumption DEF Moved, Goes, Idled, Cancelled, NoRecovery, Unregister
<1>11. ASSUME NEW t \in Threads, Finish(t)
      PROVE  Cancelled(k)'
  <2>0. th[t].pc = "finish" /\ recovering = NoRecovery /\ th[t].key \in Keys
    BY <1>0, <1>11, Zenon DEF TypeInv, ThreadShape, Finish, At
  <2>1. Idled(t)
    BY <1>11, Moves, Zenon
  <2> QED
    BY <1>0, <1>11, <2>0, <2>1, SessionsAssumption, Zenon DEF Moved, Goes, Idled, Cancelled, NoRecovery, Finish, job_set_status
<1>12. ASSUME NEW t \in Threads, Resume(t)
      PROVE  Cancelled(k)'
  <2>0. th[t].pc = "load" /\ recovering = NoRecovery /\ th[t].key \in Keys
    BY <1>0, <1>12, Zenon DEF TypeInv, ThreadShape, Resume, At
  <2>1. IF tail[th[t].key] # "gate" THEN Moved(t, "finish", th[t].key, th[t].doing, "resume_noop")
        ELSE Moved(t, "resume", th[t].key, IF decided[th[t].key] = "approved" THEN "pending" ELSE "open", th[t].result)
    BY <1>12, Moves, Zenon
  <2> QED
    BY <1>0, <1>12, <2>0, <2>1, SessionsAssumption, Zenon DEF Moved, Goes, Idled, Cancelled, NoRecovery, Resume
<1>13. ASSUME NEW t \in Threads, CancelSignal(t)
      PROVE  Cancelled(k)'
  <2>0. th[t].pc = "signal" /\ recovering = NoRecovery /\ th[t].key \in Keys
    BY <1>0, <1>13, Zenon DEF TypeInv, ThreadShape, CancelSignal, At
  <2>1. Goes(t, "cancel_job")
    BY <1>13, Moves, ZenonT(90)
  <2> QED
    BY <1>0, <1>13, <2>0, <2>1, SessionsAssumption, Zenon DEF Moved, Goes, Idled, Cancelled, NoRecovery, CancelSignal
<1>14. ASSUME NEW t \in Threads, CancelJob(t)
      PROVE  Cancelled(k)'
  <2>0. th[t].pc = "cancel_job" /\ recovering = NoRecovery /\ th[t].key \in Keys
    BY <1>0, <1>14, Zenon DEF TypeInv, ThreadShape, CancelJob, At
  <2>1. Goes(t, "cancel_session")
    BY <1>14, Moves, ZenonT(90)
  <2> QED
    BY <1>0, <1>14, <2>0, <2>1, SessionsAssumption, Zenon DEF Moved, Goes, Idled, Cancelled, NoRecovery, CancelJob, job_set_status
<1>15. ASSUME NEW t \in Threads, CancelSession(t)
      PROVE  Cancelled(k)'
  <2>0. th[t].pc = "cancel_session" /\ recovering = NoRecovery /\ th[t].key \in Keys
    BY <1>0, <1>15, Zenon DEF TypeInv, ThreadShape, CancelSession, At
  <2>1. Idled(t)
    BY <1>15, Moves, Zenon
  <2> QED
    BY <1>0, <1>15, <2>0, <2>1, SessionsAssumption, Zenon DEF Moved, Goes, Idled, Cancelled, NoRecovery, CancelSession
<1>16. ASSUME NEW t \in Threads, NEW j \in Keys, Post(t, j)
      PROVE  Cancelled(k)'
  <2>1. Moved(t, IF jobs[j] = "absent" THEN "insert" ELSE "check", j, th[t].doing, th[t].result)
    BY <1>16, Moves, Zenon
  <2> QED
    BY <1>16, <2>1, ZenonT(90) DEF Moved, Cancelled, Post
<1>17. ASSUME NEW t \in Threads, NEW j \in Keys, CancelLookup(t, j)
      PROVE  Cancelled(k)'
  <2>1. Moved(t, "signal", j, th[t].doing, th[t].result)
    BY <1>17, Moves, Zenon
  <2> QED
    BY <1>17, <2>1, ZenonT(90) DEF Moved, Cancelled, CancelLookup
<1>18. ASSUME NEW t \in Threads, NEW j \in Keys, NEW verdict \in {"approved", "denied"}, DecideGate(t, j, verdict)
      PROVE  Cancelled(k)' \/ \E u \in Threads : th'[u].key = k /\ th'[u].pc = "load"
  <2>1. Moved(t, "load", j, th[t].doing, th[t].result)
    BY <1>18, Moves, Zenon
  <2> QED
    BY <1>18, <2>1, ZenonT(90) DEF Moved, Cancelled, DecideGate
<1>19. CASE Crash
  BY <1>19, SessionsAssumption, Zenon DEF Crash, Cancelled, Idle, NoRecovery
<1>20. CASE RecoverSet
  BY <1>0, <1>20, SessionsAssumption, Zenon DEF RecoverSet, job_set_status, Cancelled, NoRecovery
<1>21. ASSUME NEW j \in Keys, RecoverJob(j)
      PROVE  Cancelled(k)'
  <2>1. j # k /\ recovering'.key = j
    BY <1>21 DEF RecoverJob, Cancelled
  <2> QED
    BY <1>21, <2>1, Zenon DEF RecoverJob, Cancelled
<1>22. CASE UNCHANGED vars
  BY <1>22, Zenon DEF Cancelled, vars
<1> QED
  BY <1>1, <1>2, <1>3, <1>4, <1>5, <1>6, <1>7, <1>8, <1>9, <1>10, <1>11, <1>12, <1>13, <1>14, <1>15, <1>16, <1>17, <1>18, <1>19, <1>20, <1>21, <1>22, ZenonT(90) DEF Next, Serve, Request

\* What the jobs table says of a job is true once all requests are answered,
\* and a cancelled job stays cancelled: the whole of StatusIsTrue, for any
\* number of threads and jobs.
THEOREM StatusAlwaysTrue == Spec => StatusIsTrue
<1> DEFINE Told ==
      Quiet => \A k \in Keys :
        /\ jobs[k] = "running" /\ used.crashes = 0 => k \in used.raised
        /\ jobs[k] = "done" /\ used.posts[k] <= 1 /\ used.decisions <= 1 /\ used.crashes <= 1 =>
             /\ used.crashes = 0 => tail[k] = "final"
             /\ tail[k] \notin {"intent", "review"}
<1>1. Inv => Told
  <2> SUFFICES ASSUME Inv, Quiet, NEW k \in Keys
               PROVE  /\ jobs[k] = "running" /\ used.crashes = 0 => k \in used.raised
                      /\ jobs[k] = "done" /\ Once(k) =>
                           /\ used.crashes = 0 => tail[k] = "final"
                           /\ tail[k] \notin {"intent", "review"}
    BY Zenon DEF Once
  <2>1. \A t \in Threads : th[t].pc = "idle" /\ th[t].key = NoKey
    BY ZenonT(90) DEF Inv, Quiet, TypeInv, ThreadShape
  <2>2. jobs[k] = "running" /\ used.crashes = 0 => k \in used.raised
    BY <2>1, Zenon DEF Inv, RunningInv, Working
  <2>3. jobs[k] = "done" /\ Once(k) =>
          (used.crashes = 0 => tail[k] = "final") /\ tail[k] \notin {"intent", "review"}
    BY <2>1, Zenon DEF Inv, StagesInv, Stages, StatusStages, NoResume
  <2> QED
    BY <2>2, <2>3, Zenon
<1>2. Inv /\ [Next]_vars => [CancelledStays]_vars
  BY CancelledStep, Zenon DEF Inv
<1>3. Spec => []Told /\ [][CancelledStays]_vars
  BY <1>1, <1>2, Always, PTL DEF Spec
<1> QED
  BY <1>3, PTL DEF StatusIsTrue, CancelledStays
=============================================================================
