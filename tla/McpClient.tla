------------------------------ MODULE McpClient ------------------------------
(***************************************************************************)
(* The stdio MCP client of scr/mcp_host.py: a server process behind two    *)
(* pipes, one reader thread per process that moves the server's lines into *)
(* a queue, and calls that send a request and take the next message of the *)
(* queue for their reply.  A call whose transport fails restarts the       *)
(* server and is sent once more.                                           *)
(*                                                                         *)
(* A process is a generation number.  A request is the call it belongs to  *)
(* (n = 0 is initialize); a reply names the request it answers, which the  *)
(* client never looks at.  A queue item is <<reply>> or <<>>, the EOF mark.*)
(* Nothing in the client keeps two threads from calling at once; nothing   *)
(* in the repository does it either, and the runs have one caller.  Lines  *)
(* that are no reply are dropped by _recv and are left out.                *)
(***************************************************************************)
EXTENDS Naturals, Sequences, FiniteSets

CONSTANTS
    Callers,      \* threads that call tools of this server
    NCalls,       \* bound: calls per thread
    MaxRestarts,  \* cfg.max_restarts
    MaxCrashes,   \* bound: crashes of a server by itself
    Errors        \* {FALSE}, or BOOLEAN: a reply may be a JSON-RPC error

VARIABLES
    proc,         \* self._proc: a generation, 0 for None
    cur,          \* the generation whose start() made self._q
    started,      \* generations started
    restarts,     \* self._restarts
    srv,          \* per generation: its state, its pipes, its reader thread
    q,            \* per generation: the queue its start() made
    c,            \* per caller: where its call_tool stands
    got,          \* history: the reply a call returned
    late,         \* history: some wait for a reply timed out
    ran,          \* history: how often a server executed a call
    crashes

vars == <<proc, cur, started, restarts, srv, q, c, got, late, ran, crashes>>

Gens == 1 .. 1 + MaxRestarts + Cardinality(Callers)
Calls == Callers \X (1 .. NCalls)
Requests == Callers \X (0 .. NCalls)
NoServer == [st |-> "none", inp |-> <<>>, busy |-> <<>>, out |-> <<>>, eof |-> FALSE]
Fresh == [NoServer EXCEPT !.st = "up"]

(* What it wrote stays in its pipe; what it had not read or answered is lost. *)
Dead(g) == [NoServer EXCEPT !.st = "dead", !.out = srv[g].out, !.eof = srv[g].eof]

(* add_server has started the first process and finished its handshake. *)
Init ==
    /\ proc = 1 /\ cur = 1 /\ started = 1 /\ restarts = 0 /\ crashes = 0 /\ late = FALSE
    /\ srv = [g \in Gens |-> IF g = 1 THEN Fresh ELSE NoServer]
    /\ q = [g \in Gens |-> <<>>]
    /\ c = [t \in Callers |-> [pc |-> "idle", n |-> 0, try |-> 0, q |-> 1]]
    /\ got = [k \in Calls |-> <<>>] /\ ran = [k \in Calls |-> 0]

server == <<proc, cur, started, restarts, crashes, ran>>

Call(t) ==
    /\ c[t].pc = "idle" /\ c[t].n < NCalls
    /\ c' = [c EXCEPT ![t].pc = "send", ![t].n = @ + 1, ![t].try = 1]
    /\ UNCHANGED <<server, srv, q, got, late>>

(* The call returns its reply or raises. *)
End(t) == c' = [c EXCEPT ![t].pc = "idle", ![t].try = 0]

(* _send: "server not running" is an MCPError; a dead process's pipe raises *)
(* OSError, which is no _TransportError.                                    *)
Send(t) ==
    /\ c[t].pc \in {"send", "hsend"}
    /\ IF proc = 0 \/ srv[proc].st = "dead" THEN End(t) /\ UNCHANGED srv
       ELSE /\ srv' = [srv EXCEPT ![proc].inp = Append(@,
                            <<t, IF c[t].pc = "send" THEN c[t].n ELSE 0>>)]
            /\ c' = [c EXCEPT ![t].pc = IF @ = "send" THEN "recv" ELSE "hrecv",
                              ![t].q = cur]
    /\ UNCHANGED <<server, q, got, late>>

(* A _TransportError in the first attempt leads to the restart; in the      *)
(* handshake or the second attempt it ends the call as an MCPError.         *)
TransportError(t) ==
    IF c[t].pc = "recv" /\ c[t].try = 1
    THEN c' = [c EXCEPT ![t].pc = "restart"]
    ELSE End(t)

(* _recv and the rest of _rpc: the next message is the reply. *)
Recv(t) ==
    /\ c[t].pc \in {"recv", "hrecv"} /\ q[c[t].q] # <<>>
    /\ q' = [q EXCEPT ![c[t].q] = Tail(@)]
    /\ LET item == Head(q[c[t].q]) IN
       IF item = <<>> THEN TransportError(t) /\ UNCHANGED got
       ELSE IF item[1].err THEN End(t) /\ UNCHANGED got
       ELSE IF c[t].pc = "hrecv"
       THEN /\ c' = [c EXCEPT ![t].pc = "notify"]
            /\ UNCHANGED got
       ELSE /\ End(t)
            /\ got' = [got EXCEPT ![<<t, c[t].n>>] = item[1].to]
    /\ UNCHANGED <<server, srv, late>>

MutTimeout(t) == c[t].pc = "hrecv" /\ q[c[t].q] = <<>> /\ TransportError(t)
                 /\ late' = TRUE /\ UNCHANGED <<server, srv, q, got>>

(* The queue stays empty for call_timeout. *)
Timeout(t) ==
    /\ c[t].pc \in {"recv", "hrecv"} /\ q[c[t].q] = <<>>
    /\ TransportError(t) /\ late' = TRUE
    /\ UNCHANGED <<server, srv, q, got>>

(* notifications/initialized, then the second attempt of the call. *)
Notify(t) ==
    /\ c[t].pc = "notify"
    /\ IF proc = 0 \/ srv[proc].st = "dead" THEN End(t)
       ELSE c' = [c EXCEPT ![t].pc = "send", ![t].try = 2]
    /\ UNCHANGED <<server, srv, q, got, late>>

(* _restart: the limit is read in one step and counted in the next. *)
Restart(t) ==
    /\ c[t].pc = "restart"
    /\ IF restarts >= MaxRestarts THEN End(t)
       ELSE c' = [c EXCEPT ![t].pc = "stop"]
    /\ UNCHANGED <<server, srv, q, got, late>>

Stop(t) ==
    /\ c[t].pc = "stop"
    /\ restarts' = restarts + 1
    /\ proc' = 0
    /\ srv' = [g \in Gens |-> IF g = proc THEN Dead(g) ELSE srv[g]]
    /\ c' = [c EXCEPT ![t].pc = "start"]
    /\ UNCHANGED <<cur, started, crashes, ran, q, got, late>>

MutStart(t) ==
    /\ c[t].pc = "start" /\ started + 1 \in Gens
    /\ started' = started + 1
    /\ proc' = started'
    /\ cur' = started'
    /\ srv' = [srv EXCEPT ![started'] = [Fresh EXCEPT !.inp = <<<<t, 0>>>>]]
    /\ c' = [c EXCEPT ![t].pc = "notify"]
    /\ UNCHANGED <<restarts, crashes, ran, q, got, late>>

(* start: the new process, its queue and its reader thread.  A queue that   *)
(* was replaced is gone unless a caller still waits on it.                  *)
Awaited(g) == \E u \in Callers : c[u].pc \in {"recv", "hrecv"} /\ c[u].q = g
Start(t) ==
    /\ c[t].pc = "start" /\ started + 1 \in Gens
    /\ started' = started + 1
    /\ proc' = started'
    /\ cur' = started'
    /\ srv' = [srv EXCEPT ![started'] = Fresh]
    /\ q' = [g \in Gens |-> IF Awaited(g) THEN q[g] ELSE <<>>]
    /\ c' = [c EXCEPT ![t].pc = "hsend"]
    /\ UNCHANGED <<restarts, crashes, ran, got, late>>

(***************************************************************************)
(* The server process and its reader thread.                               *)
(***************************************************************************)
Execute(g) ==
    /\ srv[g].st = "up" /\ srv[g].busy = <<>> /\ srv[g].inp # <<>>
    /\ srv' = [srv EXCEPT ![g].busy = <<Head(srv[g].inp)>>, ![g].inp = Tail(@)]
    /\ ran' = [k \in Calls |-> IF k = Head(srv[g].inp) THEN ran[k] + 1 ELSE ran[k]]
    /\ UNCHANGED <<proc, cur, started, restarts, crashes, q, c, got, late>>

Reply(g, err) ==
    /\ srv[g].st = "up" /\ srv[g].busy # <<>>
    /\ srv' = [srv EXCEPT ![g].busy = <<>>,
                          ![g].out = Append(@, [to |-> srv[g].busy[1], err |-> err])]
    /\ UNCHANGED <<server, q, c, got, late>>

ServerCrash(g) ==
    /\ srv[g].st = "up" /\ crashes < MaxCrashes
    /\ srv' = [srv EXCEPT ![g] = Dead(g)]
    /\ crashes' = crashes + 1
    /\ UNCHANGED <<proc, cur, started, restarts, ran, q, c, got, late>>

(* _pump puts into self._q, which is the queue of the latest start(), and   *)
(* the EOF mark once the process is gone and its pipe is drained.           *)
Pump(g) ==
    /\ \/ /\ srv[g].out # <<>>
          /\ srv' = [srv EXCEPT ![g].out = Tail(@)]
          /\ q' = [q EXCEPT ![cur] = Append(@, <<Head(srv[g].out)>>)]
       \/ /\ srv[g].st = "dead" /\ srv[g].out = <<>> /\ ~srv[g].eof
          /\ srv' = [srv EXCEPT ![g].eof = TRUE]
          /\ q' = [q EXCEPT ![cur] = Append(@, <<>>)]
    /\ UNCHANGED <<server, c, got, late>>

CallerStep(t) == \/ Send(t) \/ Recv(t) \/ Timeout(t) \/ Notify(t)
                 \/ Restart(t) \/ Stop(t) \/ Start(t)
ServerStep(g) == Execute(g) \/ (\E err \in Errors : Reply(g, err))
                 \/ ServerCrash(g)

(* All threads have made their calls and the pipes are drained. *)
Done == /\ \A t \in Callers : c[t].pc = "idle" /\ c[t].n = NCalls
        /\ UNCHANGED vars

Next == \/ \E t \in Callers : Call(t) \/ CallerStep(t)
        \/ \E g \in Gens : ServerStep(g) \/ Pump(g)
        \/ Done

Spec == Init /\ [][Next]_vars

(* Threads are scheduled and a time-out expires; a server owes nothing. *)
FairSpec == Spec /\ \A t \in Callers : WF_vars(CallerStep(t))
                 /\ \A g \in Gens : WF_vars(Pump(g))

-----------------------------------------------------------------------------
(* With one caller, every live server process is the one self._proc names:  *)
(* no restart path leaves a process running that nothing can stop.          *)
NoOrphans == \A g \in Gens : srv[g].st = "up" => g = proc

(* A call returns, whether its server answers, hangs, crashes or crashes    *)
(* again during the restart.                                                *)
CallReturns == \A t \in Callers : (c[t].pc = "send") ~> (c[t].pc = "idle")

(* As long as no wait timed out, the reply a call returns is the reply to   *)
(* that call, across crashes, restarts and error replies, although _recv    *)
(* compares no reply's id.                                                  *)
RepliesMatch == ~late => \A k \in Calls : got[k] # <<>> => got[k] = k

(* "an interrupted MCP call is quarantined by the kernel, never silently   *)
(* replayed": one call of a tool, idempotent or not, is executed by no     *)
(* server a second time (call_tool).                                       *)
NeverReplayed == \A k \in Calls : ran[k] <= 1
=============================================================================
