------------------------------ MODULE Sessions ------------------------------
(***************************************************************************)
(* The durable job queue of scr/sessions.py behind the routes of           *)
(* scr/service.py.  Each request runs on a thread of the server's pool;    *)
(* all share one SQLite connection, on which every call commits alone.     *)
(*                                                                         *)
(* A job is named by its idempotency key, which is UNIQUE in the table.    *)
(* The kernel that a thread runs on the job's session appears by what it   *)
(* does to the journal's tail and to the world, and by what it returns     *)
(* (module Kernel has the detail).                                         *)
(***************************************************************************)
EXTENDS Naturals

CONSTANTS
  Threads, Keys, NoKey, NoThread,
  GuardOutcomes,  \* what package_guard may answer: {TRUE} where none is set
  MaxPosts,       \* bound: POST /runs per key
  MaxCancels,     \* bound: cancel requests
  MaxDecisions,   \* bound: approve and deny requests
  MaxWork,        \* bound: tool runs of one kernel entry
  MaxCrashes      \* bound: deaths of the process

ASSUME SessionsAssumption == NoKey \notin Keys /\ NoThread \notin Threads

VARIABLES
  jobs,        \* the jobs table: key -> status
  session,     \* sessions.status of the job's session
  tail,        \* what the journal of the job's session ends with
  decided,     \* the approval record of the job's gate
  _cancel,     \* SessionManager._cancel: key -> the thread whose flag it is
  th,          \* the threads: step, job, and the locals of the request
  recovering,  \* recover_all() between kernel.recover() and the update
  effects,     \* per job: kernel.run() entered, tools run, calls behind a gate run
  used         \* what has been used of the bounds, and jobs whose kernel raised

vars == <<jobs, session, tail, decided, _cancel, th, recovering, effects, used>>

Statuses == {"absent", "queued", "running", "done", "cancelled", "refused",
             "awaiting_approval", "needs_review"}

\* open: a row recover() calls clean, in a run that is not over.
Tails == {"none", "open", "intent", "gate", "final", "stopped", "review"}

Idle == [pc |-> "idle", key |-> NoKey, flag |-> FALSE, doing |-> "none", work |-> 0,
         result |-> "none", cancels |-> NoThread]

NoRecovery == [key |-> NoKey, status |-> "none"]

Init ==
  /\ jobs = [k \in Keys |-> "absent"] /\ session = [k \in Keys |-> "open"]
  /\ tail = [k \in Keys |-> "none"] /\ decided = [k \in Keys |-> "none"]
  /\ _cancel = [k \in Keys |-> NoThread] /\ th = [t \in Threads |-> Idle]
  /\ recovering = NoRecovery
  /\ effects = [k \in Keys |-> [runs |-> 0, tools |-> 0, gated |-> 0]]
  /\ used = [posts |-> [k \in Keys |-> 0], cancels |-> 0, decisions |-> 0, crashes |-> 0,
             raised |-> {}]

At(t, p) == th[t].pc = p /\ recovering = NoRecovery

Goto(t, p) == th' = [th EXCEPT ![t].pc = p]

Return(t) == th' = [th EXCEPT ![t] = Idle]

job_set_status(k, status) == jobs' = [jobs EXCEPT ![k] = status]

-----------------------------------------------------------------------------
(* POST /runs: enqueue() looks the key up, and inserts if it is new.  Of   *)
(* two inserts the second raises on UNIQUE(idem_key).                      *)
Post(t, k) ==
  /\ At(t, "idle") /\ used.posts[k] < MaxPosts
  /\ used' = [used EXCEPT !.posts[k] = @ + 1]
  /\ th' = [th EXCEPT ![t].key = k, ![t].pc = IF jobs[k] = "absent" THEN "insert" ELSE "check"]
  /\ UNCHANGED <<jobs, session, tail, decided, _cancel, recovering, effects>>

Insert(t) ==
  /\ At(t, "insert")
  /\ IF jobs[th[t].key] = "absent"
       THEN job_set_status(th[t].key, "queued") /\ Goto(t, "check")
       ELSE Return(t) /\ UNCHANGED jobs
  /\ UNCHANGED <<session, tail, decided, _cancel, recovering, effects, used>>

(* run_job(): a job that is done or cancelled is not run. *)
Check(t) ==
  /\ At(t, "check")
  /\ IF jobs[th[t].key] \in {"done", "cancelled"} THEN Return(t) ELSE Goto(t, "guard")
  /\ UNCHANGED <<jobs, session, tail, decided, _cancel, recovering, effects, used>>

PackageGuard(t) ==
  /\ At(t, "guard")
  /\ \E ok \in GuardOutcomes :
       /\ job_set_status(th[t].key, IF ok THEN "running" ELSE "refused")
       /\ IF ok THEN Goto(t, "register") ELSE Return(t)
  /\ UNCHANGED <<session, tail, decided, _cancel, recovering, effects, used>>

(* The flag is registered; then kernel.run() journals ASSEMBLE. *)
Register(t) ==
  /\ At(t, "register")
  /\ _cancel' = [_cancel EXCEPT ![th[t].key] = t]
  /\ th' = [th EXCEPT ![t].pc = "run", ![t].doing = "open"]
  /\ tail' = [tail EXCEPT ![th[t].key] = "open"]
  /\ effects' = [effects EXCEPT ![th[t].key].runs = @ + 1]
  /\ UNCHANGED <<jobs, session, decided, recovering, used>>

-----------------------------------------------------------------------------
(* The kernel, entered by run_job() ("run") or resume_job() ("resume").    *)

InKernel(t) == th[t].pc \in {"run", "resume"} /\ recovering = NoRecovery

(* A tool with side effects: intent, effect, done. *)
KernelIntent(t) ==
  /\ InKernel(t)
  /\ \/ th[t].doing = "pending"
     \/ th[t].doing = "open" /\ th[t].work < MaxWork
  /\ th' = [th EXCEPT ![t].work = @ + 1,
                      ![t].doing = IF @ = "pending" THEN "gated" ELSE "intent"]
  /\ tail' = [tail EXCEPT ![th[t].key] = "intent"]
  /\ UNCHANGED <<jobs, session, decided, _cancel, recovering, effects, used>>

KernelEffect(t) ==
  /\ InKernel(t) /\ th[t].doing \in {"intent", "gated"}
  /\ effects' = [effects EXCEPT ![th[t].key].tools = @ + 1,
                   ![th[t].key].gated = @ + (IF th[t].doing = "gated" THEN 1 ELSE 0)]
  /\ th' = [th EXCEPT ![t].doing = "ran"]
  /\ UNCHANGED <<jobs, session, tail, decided, _cancel, recovering, used>>

KernelDone(t) ==
  /\ InKernel(t) /\ th[t].doing = "ran"
  /\ th' = [th EXCEPT ![t].doing = "open"]
  /\ tail' = [tail EXCEPT ![th[t].key] = "open"]
  /\ UNCHANGED <<jobs, session, decided, _cancel, recovering, effects, used>>

(* A job has one gate in this model.  A set flag may go unseen: the kernel *)
(* reads it only before a model call and before a tool call.               *)
KernelReturn(t) ==
  /\ InKernel(t) /\ th[t].doing = "open"
  /\ \E r \in {"completed", "awaiting_approval", "cancelled", "stopped"} :
       /\ r = "cancelled" => th[t].flag
       /\ r = "awaiting_approval" => decided[th[t].key] = "none"
       /\ th' = [th EXCEPT ![t].result = r,
                           ![t].pc = IF @ = "run" THEN "unregister" ELSE "finish"]
       /\ tail' = [tail EXCEPT ![th[t].key] = CASE r = "completed" -> "final"
                                                [] r = "awaiting_approval" -> "gate"
                                                [] OTHER -> "stopped"]
  /\ UNCHANGED <<jobs, session, decided, _cancel, recovering, effects, used>>

(* Two kernels on one session collide on UNIQUE(session_id, seq), and one  *)
(* raises out of run_job() or resume_job(): the job's status stays.        *)
KernelRaise(t) ==
  /\ InKernel(t)
  /\ \E u \in Threads \ {t} : InKernel(u) /\ th[u].key = th[t].key
  /\ used' = [used EXCEPT !.raised = @ \cup {th[t].key}]
  /\ IF th[t].pc = "run" THEN th' = [th EXCEPT ![t].result = "raised", ![t].pc = "unregister"]
     ELSE Return(t)
  /\ UNCHANGED <<jobs, session, tail, decided, _cancel, recovering, effects>>

MutUnregister(t) ==
  /\ At(t, "unregister")
  /\ IF th[t].result = "raised" THEN Return(t) ELSE Goto(t, "finish")
  /\ UNCHANGED <<jobs, session, tail, decided, _cancel, recovering, effects, used>>

(* The finally block pops the job's flag, whosever it is.  A flag that a   *)
(* cancel request holds is from now on an event nobody reads.              *)
Unregister(t) ==
  /\ At(t, "unregister")
  /\ _cancel' = [_cancel EXCEPT ![th[t].key] = NoThread]
  /\ th' = [u \in Threads |->
              IF u = t THEN IF th[t].result = "raised" THEN Idle ELSE [th[t] EXCEPT !.pc = "finish"]
              ELSE IF th[u].cancels = t THEN [th[u] EXCEPT !.cancels = NoThread] ELSE th[u]]
  /\ UNCHANGED <<jobs, session, tail, decided, recovering, effects, used>>

Mut_status_for(r) == IF r = "awaiting_approval" THEN r ELSE "done"

(* resume_job() has no cancelled run: it wires no flag. *)
_status_for(r) ==
  CASE r = "completed" -> "done"
    [] r = "awaiting_approval" -> "awaiting_approval"
    [] r = "cancelled" -> "cancelled"
    [] OTHER -> "needs_review"

Finish(t) ==
  /\ At(t, "finish")
  /\ job_set_status(th[t].key, _status_for(th[t].result)) /\ Return(t)
  /\ UNCHANGED <<session, tail, decided, _cancel, recovering, effects, used>>

-----------------------------------------------------------------------------
(* POST /jobs/{id}/approve and /deny: the record, whose first value stays, *)
(* then resume_job().  It reads the tail and, unless that is the gate,     *)
(* returns resume_noop, which is needs_review.                             *)
DecideGate(t, k, verdict) ==
  /\ At(t, "idle") /\ jobs[k] # "absent" /\ used.decisions < MaxDecisions
  /\ used' = [used EXCEPT !.decisions = @ + 1]
  /\ decided' = IF decided[k] = "none" THEN [decided EXCEPT ![k] = verdict] ELSE decided
  /\ th' = [th EXCEPT ![t].key = k, ![t].pc = "load"]
  /\ UNCHANGED <<jobs, session, tail, _cancel, recovering, effects>>

MutResume(t) ==
  /\ At(t, "load")
  /\ IF tail[th[t].key] # "gate"
       THEN th' = [th EXCEPT ![t].result = "resume_noop", ![t].pc = "finish"]
       ELSE th' = [th EXCEPT ![t].pc = "resume", ![t].doing = "pending"]
  /\ UNCHANGED <<jobs, session, tail, decided, _cancel, recovering, effects, used>>

Resume(t) ==
  /\ At(t, "load")
  /\ LET k == th[t].key
     IN  IF tail[k] # "gate"
           THEN th' = [th EXCEPT ![t].result = "resume_noop", ![t].pc = "finish"]
           ELSE th' = [th EXCEPT ![t].pc = "resume", ![t].doing =
                         IF decided[k] = "approved" THEN "pending" ELSE "open"]
  /\ UNCHANGED <<jobs, session, tail, decided, _cancel, recovering, effects, used>>

(* POST /jobs/{id}/cancel: the flag under the lock, its setting with the   *)
(* kill of the process tree, the job, the session.                         *)
CancelLookup(t, k) ==
  /\ At(t, "idle") /\ jobs[k] # "absent" /\ used.cancels < MaxCancels
  /\ used' = [used EXCEPT !.cancels = @ + 1]
  /\ th' = [th EXCEPT ![t].key = k, ![t].cancels = _cancel[k], ![t].pc = "signal"]
  /\ UNCHANGED <<jobs, session, tail, decided, _cancel, recovering, effects>>

CancelSignal(t) ==
  /\ At(t, "signal")
  /\ LET u == th[t].cancels
     IN  IF u # NoThread /\ th[u].pc = "run"
           THEN th' = [th EXCEPT ![u].flag = TRUE, ![t].pc = "cancel_job"]
           ELSE Goto(t, "cancel_job")
  /\ UNCHANGED <<jobs, session, tail, decided, _cancel, recovering, effects, used>>

CancelJob(t) ==
  /\ At(t, "cancel_job")
  /\ job_set_status(th[t].key, "cancelled") /\ Goto(t, "cancel_session")
  /\ UNCHANGED <<session, tail, decided, _cancel, recovering, effects, used>>

CancelSession(t) ==
  /\ At(t, "cancel_session")
  /\ session' = [session EXCEPT ![th[t].key] = "cancelled"] /\ Return(t)
  /\ UNCHANGED <<jobs, tail, decided, _cancel, recovering, effects, used>>

-----------------------------------------------------------------------------
(* The process dies with all its threads; the tables stay. *)
Crash ==
  /\ used.crashes < MaxCrashes /\ used' = [used EXCEPT !.crashes = @ + 1]
  /\ th' = [t \in Threads |-> Idle] /\ _cancel' = [k \in Keys |-> NoThread]
  /\ recovering' = NoRecovery
  /\ UNCHANGED <<jobs, session, tail, decided, effects>>

(* recover_all(), before requests are served: kernel.recover() on each     *)
(* job left running, then its new status.  An intent is quarantined, or    *)
(* settled by its stored result; open stands for a clean tail and for a    *)
(* dangling model call.                                                    *)
RecoverJob(k) ==
  /\ \A t \in Threads : th[t].pc = "idle"
  /\ used.crashes > 0 /\ recovering = NoRecovery /\ jobs[k] = "running"
  /\ \E status \in {"done", "needs_review"}, last \in {tail[k], "review", "open"} :
       /\ CASE tail[k] = "intent" -> last \in {"review", "open"} /\ status = "needs_review"
            [] tail[k] = "open" -> last = "open"
            [] OTHER -> last = tail[k] /\ status = "done"
       /\ recovering' = [key |-> k, status |-> status]
       /\ tail' = [tail EXCEPT ![k] = last]
       /\ session' = [session EXCEPT ![k] =
                        IF tail[k] = "intent" /\ last = "review" THEN "needs_review" ELSE @]
  /\ UNCHANGED <<jobs, decided, _cancel, th, effects, used>>

RecoverSet ==
  /\ recovering # NoRecovery
  /\ job_set_status(recovering.key, recovering.status) /\ recovering' = NoRecovery
  /\ UNCHANGED <<session, tail, decided, _cancel, th, effects, used>>

Serve(t) ==
  \/ Insert(t) \/ Check(t) \/ PackageGuard(t) \/ Register(t)
  \/ KernelIntent(t) \/ KernelEffect(t) \/ KernelDone(t) \/ KernelReturn(t) \/ KernelRaise(t)
  \/ Unregister(t) \/ Finish(t) \/ Resume(t)
  \/ CancelSignal(t) \/ CancelJob(t) \/ CancelSession(t)

Request(t, k) ==
  \/ Post(t, k) \/ CancelLookup(t, k)
  \/ \E verdict \in {"approved", "denied"} : DecideGate(t, k, verdict)

Next ==
  \/ \E t \in Threads : Serve(t) \/ \E k \in Keys : Request(t, k)
  \/ Crash \/ RecoverSet \/ \E k \in Keys : RecoverJob(k)

Spec == Init /\ [][Next]_vars

-----------------------------------------------------------------------------
(* Properties *)

Quiet == recovering = NoRecovery /\ \A t \in Threads : th[t].pc = "idle"

\* The cancel registry and the runs agree: a registered flag is that of a run in
\* progress on that job, also when requests repeat a key, so a cancel signals no
\* other run; and a cancel that comes while the kernel runs a job that was posted
\* once finds the flag of that run.
FlagsMatchRuns ==
  /\ \A k \in Keys, t \in Threads :
       _cancel[k] = t => th[t].key = k /\ th[t].pc \in {"run", "unregister"}
  /\ \A t \in Threads :
       th[t].pc = "run" /\ used.posts[th[t].key] <= 1 => _cancel[th[t].key] = t

\* A call behind a gate whose recorded decision is a denial has not run,
\* however approve and deny requests race.
DeniedNeverRuns == \A k \in Keys : decided[k] = "denied" => effects[k].gated = 0

\* Nothing works on the cancelled job k: requests on it are cancels, or posts
\* that have not looked at its status.
Cancelled(k) ==
  /\ jobs[k] = "cancelled" /\ recovering.key # k
  /\ \A t \in Threads : th[t].key = k =>
       th[t].pc \in {"insert", "check", "signal", "cancel_job", "cancel_session"}

\* A job's status is true.  Once all requests are answered and no process has
\* died, only a kernel that raised leaves a job `running', and a job that was
\* posted once and decided at most once and is reported done has a finalized
\* session; also after a crash and recover_all(), it is not one with an
\* interrupted tool.  (Two decisions may resume one gate twice, and a second
\* death inside recover_all() hides the quarantine.)  A cancelled job that
\* nothing works on stays cancelled whatever is posted, cancelled or
\* recovered; only a decision brings it back.
StatusIsTrue ==
  /\ [](Quiet => \A k \in Keys :
          /\ jobs[k] = "running" /\ used.crashes = 0 => k \in used.raised
          /\ jobs[k] = "done" /\ used.posts[k] <= 1 /\ used.decisions <= 1 /\ used.crashes <= 1 =>
               /\ used.crashes = 0 => tail[k] = "final"
               /\ tail[k] \notin {"intent", "review"})
  /\ [][\A k \in Keys : Cancelled(k) =>
          Cancelled(k)' \/ \E t \in Threads : th'[t].key = k /\ th'[t].pc = "load"]_vars

\* sessions.py: "the same key never runs twice".
SameKeyRunsOnce == \A k \in Keys : effects[k].runs <= 1
=============================================================================
