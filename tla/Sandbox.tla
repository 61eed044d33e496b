------------------------------- MODULE Sandbox -------------------------------
(***************************************************************************)
(* Sandboxed workers (scr/sandbox.py, POSIX branch) and the cancel that    *)
(* kills them (SessionManager.cancel, SandboxRunner.kill_all).             *)
(*                                                                         *)
(* Each of Calls is one run_worker call of a session's tool batch, on a    *)
(* thread of its own; a canceller runs beside them.  A worker is a process *)
(* group: the leader and at most one process it starts, which holds the    *)
(* worker's pipes until it exits or detaches from them.  A signal to the   *)
(* group works as long as the leader has not been reaped by communicate(). *)
(***************************************************************************)
EXTENDS FiniteSets

CONSTANTS
    Calls           \* concurrent run_worker calls

VARIABLES
    pc,             \* per call: "idle" "start" "register" "wait" "unregister" "judge" "done"
    leader,         \* per call: "none" "run" "exit0" "exit1" "dead"
    child,          \* per call: "none" "run" "detached" "dead"
    _killed,        \* per call: SandboxProc._killed
    status,         \* per call: SandboxResult.status, "none" before
    result,         \* per call: what run_worker returns, "none" before
    _live,          \* SandboxRunner._live
    flag,           \* the job's cooperative cancel flag
    can,            \* canceller: "idle" "snapshot" "kill" "done"
    todo,           \* handles of the snapshot still to kill
    marked,         \* the handle whose kill() has set _killed and not signalled yet
    snap            \* history: the snapshot kill_all took

call == <<pc, leader, child, _killed, status, result>>
cancel == <<flag, can, todo, marked, snap>>
vars == <<call, _live, cancel>>

Reaped(w) == pc[w] \in {"unregister", "judge", "done"}
None == "none"
Alive == {"run", "detached"}

Init ==
    /\ pc = [w \in Calls |-> "idle"] /\ leader = [w \in Calls |-> None]
    /\ child = [w \in Calls |-> None] /\ _killed = [w \in Calls |-> FALSE]
    /\ status = [w \in Calls |-> None] /\ result = [w \in Calls |-> None]
    /\ _live = {} /\ flag = FALSE /\ can = "idle" /\ todo = {} /\ marked = {} /\ snap = {}

Goto(w, l) == pc' = [pc EXCEPT ![w] = l]

(* The kernel looks at the cancel flag before it runs a tool. *)
Begin(w) ==
    /\ pc[w] = "idle" /\ ~flag /\ Goto(w, "start")
    /\ UNCHANGED <<leader, child, _killed, status, result, _live, cancel>>

start(w) ==
    /\ pc[w] = "start" /\ Goto(w, "register")
    /\ leader' = [leader EXCEPT ![w] = "run"]
    /\ UNCHANGED <<child, _killed, status, result, _live, cancel>>

_register(w) ==
    /\ pc[w] = "register" /\ Goto(w, "wait") /\ _live' = _live \cup {w}
    /\ UNCHANGED <<leader, child, _killed, status, result, cancel>>

(* The worker process: it starts another one, and exits (0 or not). *)
Fork(w) ==
    /\ leader[w] = "run" /\ child[w] = None
    /\ child' = [child EXCEPT ![w] = "run"]
    /\ UNCHANGED <<pc, leader, _killed, status, result, _live, cancel>>

Exit(w, code) ==
    /\ leader[w] = "run"
    /\ leader' = [leader EXCEPT ![w] = code]
    /\ UNCHANGED <<pc, child, _killed, status, result, _live, cancel>>

Detach(w) ==
    /\ child[w] = "run" /\ child' = [child EXCEPT ![w] = "detached"]
    /\ UNCHANGED <<pc, leader, _killed, status, result, _live, cancel>>

ChildExit(w) ==
    /\ child[w] \in Alive /\ child' = [child EXCEPT ![w] = "dead"]
    /\ UNCHANGED <<pc, leader, _killed, status, result, _live, cancel>>

(* os.killpg: everything in the group dies; nothing happens once reaped. *)
Signal(w) ==
    /\ leader' = [leader EXCEPT ![w] = IF @ = "run" THEN "dead" ELSE @]
    /\ child' = [child EXCEPT ![w] = IF @ \in Alive /\ ~Reaped(w) THEN "dead" ELSE @]

(* wait: communicate() returns once the pipes are closed and the worker is  *)
(* gone, or it times out and kill() follows.                                *)
Ended(w) == leader[w] # "run" /\ child[w] # "run"

WaitDone(w) ==
    /\ pc[w] = "wait" /\ Ended(w) /\ Goto(w, "unregister")
    /\ status' = [status EXCEPT ![w] = IF _killed[w] THEN "killed"
                                       ELSE IF leader[w] = "exit0" THEN "ok" ELSE "error"]
    /\ UNCHANGED <<leader, child, _killed, result, _live, cancel>>

MutLeaderOnly(w) ==
    /\ pc[w] = "wait" /\ ~Ended(w) /\ Goto(w, "unregister")
    /\ _killed' = [_killed EXCEPT ![w] = TRUE] /\ leader' = [leader EXCEPT ![w] = "dead"]
    /\ status' = [status EXCEPT ![w] = "timeout"]
    /\ UNCHANGED <<child, result, _live, cancel>>

TimeOut(w) ==
    /\ pc[w] = "wait" /\ ~Ended(w) /\ Goto(w, "unregister")
    /\ _killed' = [_killed EXCEPT ![w] = TRUE] /\ Signal(w)
    /\ status' = [status EXCEPT ![w] = "timeout"]
    /\ UNCHANGED <<result, _live, cancel>>

_unregister(w) ==
    /\ pc[w] = "unregister" /\ Goto(w, "judge") /\ _live' = _live \ {w}
    /\ UNCHANGED <<leader, child, _killed, status, result, cancel>>

(* run_worker's answer; output that parses is the worker's own result. *)
Judge(w, parsed) ==
    /\ pc[w] = "judge" /\ Goto(w, "done")
    /\ result' = [result EXCEPT ![w] =
         CASE _killed[w] /\ status[w] # "timeout" -> "cancelled"
           [] status[w] = "timeout" -> "timeout"
           [] status[w] = "ok" /\ ~_killed[w] -> parsed
           [] OTHER -> "worker_crash"]
    /\ UNCHANGED <<leader, child, _killed, status, _live, cancel>>

(***************************************************************************)
(* cancel: set the flag, copy _live, then kill() each handle of the copy.  *)
(***************************************************************************)
SetFlag ==
    /\ can = "idle" /\ can' = "snapshot" /\ flag' = TRUE
    /\ UNCHANGED <<call, _live, todo, marked, snap>>

kill_all ==
    /\ can = "snapshot" /\ can' = "kill" /\ todo' = _live /\ snap' = _live
    /\ UNCHANGED <<call, _live, flag, marked>>

KillMark(w) ==
    /\ can = "kill" /\ marked = {} /\ w \in todo
    /\ _killed' = [_killed EXCEPT ![w] = TRUE] /\ marked' = {w}
    /\ UNCHANGED <<pc, leader, child, status, result, _live, flag, can, todo, snap>>

KillSignal(w) ==
    /\ w \in marked /\ marked' = {} /\ todo' = todo \ {w} /\ Signal(w)
    /\ UNCHANGED <<pc, _killed, status, result, _live, flag, can, snap>>

Cancelled ==
    /\ can = "kill" /\ todo = {} /\ can' = "done"
    /\ UNCHANGED <<call, _live, flag, todo, marked, snap>>

Outputs == {"parsed", "bad_worker_output"}
Step(w) == start(w) \/ _register(w) \/ WaitDone(w) \/ TimeOut(w) \/ _unregister(w) \/ \E o \in Outputs : Judge(w, o)
Process(w) == Fork(w) \/ Detach(w) \/ ChildExit(w) \/ \E c \in {"exit0", "exit1"} : Exit(w, c)
Canceller == SetFlag \/ kill_all \/ Cancelled \/ \E w \in Calls : KillMark(w) \/ KillSignal(w)
Next == Canceller \/ \E w \in Calls : Begin(w) \/ Step(w) \/ Process(w)

Spec == Init /\ [][Next]_vars

-----------------------------------------------------------------------------
(* run_worker's answer is true of the worker, however its end, the time-out *)
(* and a cancel interleave: after "timeout" neither the worker nor a        *)
(* process it started is running ("process tree killed"); "worker_crash"    *)
(* and a result are only given for workers that ended by themselves.  And   *)
(* kill_all reaches every worker that was registered when it looked: once   *)
(* cancel is through, none of them runs.                                    *)
WorkersAreAccounted ==
    /\ \A w \in Calls :
        /\ result[w] = "timeout" => leader[w] # "run" /\ child[w] \notin Alive
        /\ result[w] = "worker_crash" => leader[w] = "exit1"
        /\ result[w] \in Outputs => leader[w] = "exit0"
    /\ can = "done" => \A w \in snap : leader[w] # "run"
=============================================================================
