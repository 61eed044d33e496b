------------------------------ MODULE MCDaemon ------------------------------
(***************************************************************************)
(* The processes of a home for TLC: the workspace lock (WorkspaceLock),    *)
(* the service host (ServiceHost), the control pipe (Pipe) and the MCP     *)
(* client with its servers (McpClient).  They share no state: part says    *)
(* which one a behaviour runs, and the others stay where they start.       *)
(***************************************************************************)
EXTENDS Naturals, Sequences

CONSTANTS
    Procs, Sup, NoOne, MaxInodes, MaxBoots, MaxProbes, MaxDeaths,
    NInstances,
    Clients, Stopper,
    Callers, NCalls, MaxRestarts, MaxCrashes, Errors

(* The supervisor is none of the processes; one thread calls MCP tools.     *)
ASSUME DaemonAssumption ==
    /\ Sup \notin Procs /\ NoOne \notin Procs \cup {Sup}
    /\ MaxInodes \in Nat /\ NInstances \in Nat
    /\ \E t \in Callers : Callers = {t}
    /\ NCalls \in Nat /\ MaxRestarts \in Nat /\ Errors \subseteq BOOLEAN

VARIABLES
    part,
    path, inodes, owner, meta, boot, p, sup, probes, deaths, stripped, unlinked,
    inst, lock, scm, blocked,
    psrv, _stop, pipe, client,
    proc, cur, started, restarts, srv, q, c, got, late, ran, crashes

wlock == <<path, inodes, owner, meta, boot, p, sup, probes, deaths, stripped, unlinked>>
host == <<inst, lock, scm, blocked>>
control == <<psrv, _stop, pipe, client>>
mcp == <<proc, cur, started, restarts, srv, q, c, got, late, ran, crashes>>
vars == <<part, wlock, host, control, mcp>>

L == INSTANCE WorkspaceLock
H == INSTANCE ServiceHost
P == INSTANCE Pipe WITH srv <- psrv, c <- client
C == INSTANCE McpClient

Init ==
    /\ part \in {"lock", "host", "pipe", "mcp"}
    /\ L!Init /\ H!Init /\ P!Init /\ C!Init

Next ==
    \/ part = "lock" /\ L!Next /\ UNCHANGED <<part, host, control, mcp>>
    \/ part = "host" /\ H!Next /\ UNCHANGED <<part, wlock, control, mcp>>
    \/ part = "pipe" /\ P!Next /\ UNCHANGED <<part, wlock, host, mcp>>
    \/ part = "mcp" /\ C!Next /\ UNCHANGED <<part, wlock, host, control>>

(* Each part's own fairness; a part that does not run has no step to take. *)
Fairness ==
    /\ \A a \in Procs : WF_wlock(part = "lock" /\ L!Acquire(a))
                       /\ WF_wlock(part = "lock" /\ L!UnlinkMeta(a))
    /\ WF_wlock(part = "lock" /\ L!Supervise)
    /\ \A i \in 1 .. NInstances : WF_host(part = "host" /\ H!Threads(i))
                                 /\ WF_host(part = "host" /\ H!Handler(i))
                                 /\ WF_host(part = "host" /\ H!Server(i))
    /\ WF_control(part = "pipe" /\ P!Server)
    /\ \A x \in Clients : WF_control(part = "pipe" /\ P!Client(x))
    /\ \A t \in Callers : WF_mcp(part = "mcp" /\ C!CallerStep(t))
    /\ \A g \in C!Gens : WF_mcp(part = "mcp" /\ C!Pump(g))

Spec == Init /\ [][Next]_vars /\ Fairness

-----------------------------------------------------------------------------

(* A home has a single writer: one process per inode of the workspace lock, *)
(* two holders only after break_stale unlinked an open file, and one        *)
(* instance of the service that serves.                                     *)
SingleWriter == L!Exclusive /\ H!OneServes

(* The sidecar names the holder, or was removed by a late release or break. *)
SidecarNamesHolder == L!SidecarNamesHolder

(* Processes that retry get the workspace again and again.                  *)
Obtainable == part = "lock" => L!Obtainable

(* A stopped instance of the service gives up the lock.                     *)
StopReleases == H!StopReleases

(* A client that has opened the control pipe is answered, and stop() ends   *)
(* the pipe server's thread.                                                *)
PipeServes == P!OpenedIsAnswered /\ P!StopEnds

(* Before any time-out an MCP call returns its own reply, and no restart    *)
(* leaves a server running that nothing can stop.                           *)
RepliesMatch == C!RepliesMatch /\ C!NoOrphans

(* Every MCP call returns.                                                  *)
CallReturns == C!CallReturns
=============================================================================
