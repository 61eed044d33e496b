----------------------------- MODULE ServiceHost -----------------------------
(***************************************************************************)
(* The service host of scr/service_main.py: instances of scr-service on    *)
(* one home, started by the Windows Service Control Manager (SCM) or on a  *)
(* console.  An instance has a thread that builds the runner and reports   *)
(* to the SCM, a thread that serves, and the control handler; they run     *)
(* interleaved with the other instances.                                   *)
(*                                                                         *)
(* The lock is what WorkspaceLock promises of it: one holder, freed by     *)
(* release() and by the end of the process.  A request in progress is one  *)
(* flag.                                                                   *)
(***************************************************************************)
EXTENDS Naturals

CONSTANT NInstances   \* bound: instances ever started

Instances == 1 .. NInstances

VARIABLES
    inst,     \* per instance: its threads and its should_exit flag
    lock,     \* the holder of service.lock, 0 for none
    scm,      \* what the SCM shows of the service
    blocked   \* history: a start by the SCM failed on the lock of an instance that
              \* had reported its stop

vars == <<inst, lock, scm, blocked>>

Off == [mode |-> "none", main |-> "off", serve |-> "off", handler |-> "none",
        busy |-> FALSE, should_exit |-> FALSE]

Init == inst = [i \in Instances |-> Off] /\ lock = 0 /\ scm = "stopped" /\ blocked = FALSE

(* The SCM starts the service when the last instance has reported that it  *)
(* stopped; an operator runs a console at any time.                        *)
Launch(i, mode) ==
    /\ inst[i] = Off /\ \A j \in Instances : j < i => inst[j] # Off
    /\ mode = "service" => scm = "stopped"
    /\ scm' = IF mode = "service" THEN "start_pending" ELSE scm
    /\ inst' = [inst EXCEPT ![i].mode = mode, ![i].main = "build"]
    /\ UNCHANGED <<lock, blocked>>

(* _Runner(): the store is opened, then the lock is tried once.  LockHeld   *)
(* ends a console; in service_main it ends the callback, and the service   *)
(* is left as it is.                                                       *)
_Runner(i) ==
    /\ inst[i].main = "build"
    /\ IF lock = 0
       THEN lock' = i /\ inst' = [inst EXCEPT ![i].main = "built"] /\ UNCHANGED blocked
       ELSE /\ inst' = [inst EXCEPT ![i].main = "refused"]
            /\ blocked' = (blocked \/ (inst[i].mode = "service" /\ inst[lock].handler = "reported"))
            /\ UNCHANGED lock
    /\ UNCHANGED scm

serve_in_thread(i) ==
    /\ inst[i].main = "built"
    /\ inst' = [inst EXCEPT ![i].main = IF inst[i].mode = "service" THEN "started" ELSE "join",
                            ![i].serve = "starting"]
    /\ UNCHANGED <<lock, scm, blocked>>

Running(i) ==
    /\ inst[i].main = "started"
    /\ scm' = "running"
    /\ inst' = [inst EXCEPT ![i].main = "join"]
    /\ UNCHANGED <<lock, blocked>>

Joined(i) ==
    /\ inst[i].main = "join" /\ inst[i].serve = "gone"
    /\ scm' = IF inst[i].mode = "service" /\ inst[i].handler # "reported" THEN "stopped" ELSE scm
    /\ inst' = [inst EXCEPT ![i].main = "returned"]
    /\ UNCHANGED <<lock, blocked>>

(* The control handler; the SCM delivers a control while the service is    *)
(* running.  It reports the pending stop, tells the server to exit, and    *)
(* reports the stop.  On a console the server has a handler of its own.    *)
Control(i) ==
    /\ inst[i].main = "join" /\ inst[i].handler = "none"
    /\ inst[i].mode = "service" => scm = "running"
    /\ scm' = IF inst[i].mode = "service" THEN "stop_pending" ELSE scm
    /\ inst' = [inst EXCEPT ![i].handler = "pending"]
    /\ UNCHANGED <<lock, blocked>>

MutTell(i) ==
    /\ inst[i].handler = "pending"
    /\ inst' = [inst EXCEPT ![i].handler = "told"]
    /\ UNCHANGED <<lock, scm, blocked>>

Tell(i) ==
    /\ inst[i].handler = "pending"
    /\ inst' = [inst EXCEPT ![i].handler = "told", ![i].should_exit = TRUE]
    /\ UNCHANGED <<lock, scm, blocked>>

Report(i) ==
    /\ inst[i].handler = "told" /\ inst[i].mode = "service"
    /\ scm' = IF scm = "stop_pending" THEN "stopped" ELSE scm
    /\ inst' = [inst EXCEPT ![i].handler = "reported"]
    /\ UNCHANGED <<lock, blocked>>

(* The serving thread.  server.run() binds its port or fails; it returns   *)
(* when it was told to exit and the request in progress is answered.       *)
Startup(i) ==
    /\ inst[i].serve = "starting"
    /\ \E next \in {"up", "cleanup"} : inst' = [inst EXCEPT ![i].serve = next]
    /\ UNCHANGED <<lock, scm, blocked>>

Accept(i) ==
    /\ inst[i].serve = "up" /\ ~inst[i].busy /\ ~inst[i].should_exit
    /\ inst' = [inst EXCEPT ![i].busy = TRUE]
    /\ UNCHANGED <<lock, scm, blocked>>

Answer(i) ==
    /\ inst[i].serve = "up" /\ inst[i].busy
    /\ inst' = [inst EXCEPT ![i].busy = FALSE]
    /\ UNCHANGED <<lock, scm, blocked>>

ServerReturns(i) ==
    /\ inst[i].serve = "up" /\ ~inst[i].busy /\ inst[i].should_exit
    /\ inst' = [inst EXCEPT ![i].serve = "cleanup"]
    /\ UNCHANGED <<lock, scm, blocked>>

(* _cleanup(): the store is closed, and whether or not that raised, the    *)
(* lock released.                                                          *)
Close(i) ==
    /\ inst[i].serve = "cleanup"
    /\ inst' = [inst EXCEPT ![i].serve = "closed"]
    /\ UNCHANGED <<lock, scm, blocked>>

Release(i) ==
    /\ inst[i].serve = "closed"
    /\ lock' = IF lock = i THEN 0 ELSE lock
    /\ inst' = [inst EXCEPT ![i].serve = "gone"]
    /\ UNCHANGED <<scm, blocked>>

(* main() returns once the dispatcher does, which waits for the report of  *)
(* the stop; the serving thread is a daemon and ends with the process.     *)
Exit(i) ==
    /\ \/ inst[i].handler = "reported" \/ inst[i].main = "returned"
       \/ inst[i].mode = "console" /\ inst[i].main = "refused"
    /\ inst' = [inst EXCEPT ![i] = [Off EXCEPT !.mode = "ended"]]
    /\ lock' = IF lock = i THEN 0 ELSE lock
    /\ UNCHANGED <<scm, blocked>>

Threads(i) == \/ _Runner(i) \/ serve_in_thread(i) \/ Running(i) \/ Joined(i)
Handler(i) == Tell(i) \/ Report(i)
Server(i) == Startup(i) \/ Answer(i) \/ ServerReturns(i) \/ Close(i) \/ Release(i)

Next == \E i \in Instances :
    \/ \E mode \in {"service", "console"} : Launch(i, mode)
    \/ Threads(i) \/ Control(i) \/ Handler(i) \/ Accept(i) \/ Server(i) \/ Exit(i)

Spec == Init /\ [][Next]_vars

(* The threads of a process are scheduled and a request is answered (a run *)
(* of the kernel is bounded).  When the process ends is up to the SCM.     *)
FairSpec == Spec /\ \A i \in Instances :
    WF_vars(Threads(i)) /\ WF_vars(Handler(i)) /\ WF_vars(Server(i))

-----------------------------------------------------------------------------
(* No two instances serve on one home, and none starts to while another    *)
(* has not closed its store: through stops, failed starts, consoles beside *)
(* the service and processes that end in the middle of their clean-up      *)
(* (_Runner.__init__, _cleanup).                                           *)
OneServes ==
    \A i, j \in Instances :
        {inst[i].serve, inst[j].serve} \subseteq {"starting", "up", "cleanup"} => i = j

(* An instance that is told to stop gives up the lock, whatever request it *)
(* is in and whether or not its process ends first (handler, stop,         *)
(* _cleanup).                                                              *)
StopReleases == \A i \in Instances : (inst[i].handler = "pending") ~> (lock # i)

(* "release the single-writer workspace lock so a restart is never         *)
(* blocked": a start by the SCM, which follows a reported stop, does not   *)
(* fail on the lock of the instance that was stopped.                      *)
RestartNeverBlocked == ~blocked
=============================================================================
