-------------------------------- MODULE Pipe --------------------------------
(***************************************************************************)
(* The named-pipe control channel of scr/pipe_transport.py: a server       *)
(* thread that creates one pipe instance, serves one request on it and     *)
(* starts over, clients that open, ask and read, and stop(), which sets a  *)
(* flag and then makes a request of its own to wake the server.            *)
(*                                                                         *)
(* A client makes one request.  Kernel buffers are modelled by what the    *)
(* calls guarantee: FlushFileBuffers returns when the other end has read   *)
(* everything or is gone, DisconnectNamedPipe drops what is unread.        *)
(***************************************************************************)
CONSTANTS
    Clients,    \* callers of pipe_client_request
    Stopper,    \* the caller of stop()
    NoOne

VARIABLES
    srv,        \* the server thread
    _stop,      \* the stop event
    pipe,       \* the pipe instance: does it exist, who has opened it, unread data
    c           \* per client: where its request stands

vars == <<srv, _stop, pipe, c>>

NoPipe == [exists |-> FALSE, peer |-> NoOne, request |-> FALSE, reply |-> FALSE]
Gone == {"dead", "answered"}    \* a client that has closed its handle

Init == srv = "check" /\ _stop = FALSE /\ pipe = NoPipe /\ c = [x \in Clients |-> "idle"]

(* serve_forever and serve_one. *)
Check == /\ srv = "check" /\ srv' = IF _stop THEN "ended" ELSE "create"
         /\ UNCHANGED <<_stop, pipe, c>>

CreateNamedPipe ==
    /\ srv = "create"
    /\ \/ srv' = "connect" /\ pipe' = [NoPipe EXCEPT !.exists = TRUE]
       \/ srv' = "ended" /\ UNCHANGED pipe        \* OSError ends the loop
    /\ UNCHANGED <<_stop, c>>

(* Blocks until a client has opened the instance; one that has opened and  *)
(* closed it already is an error, and nothing is served.                   *)
ConnectNamedPipe ==
    /\ srv = "connect" /\ pipe.peer # NoOne
    /\ srv' = IF c[pipe.peer] \in Gone THEN "close" ELSE "read"
    /\ UNCHANGED <<_stop, pipe, c>>

(* _read_line, the handler, whose exceptions become a reply too, and       *)
(* WriteFile, whose failure is ignored.                                    *)
Handle ==
    /\ srv = "read" /\ (pipe.request \/ c[pipe.peer] \in Gone)
    /\ srv' = "flush"
    /\ pipe' = [pipe EXCEPT !.request = FALSE, !.reply = c[pipe.peer] \notin Gone]
    /\ UNCHANGED <<_stop, c>>

MutFlush == srv = "flush" /\ srv' = "close" /\ UNCHANGED <<_stop, pipe, c>>

FlushFileBuffers ==
    /\ srv = "flush" /\ (~pipe.reply \/ c[pipe.peer] \in Gone)
    /\ srv' = "close"
    /\ UNCHANGED <<_stop, pipe, c>>

Close == srv = "close" /\ srv' = "check" /\ pipe' = NoPipe /\ UNCHANGED <<_stop, c>>

(* stop() sets the flag and goes on as a client. *)
Stop ==
    /\ c[Stopper] = "idle" /\ c' = [c EXCEPT ![Stopper] = "open"]
    /\ _stop' = TRUE
    /\ UNCHANGED <<srv, pipe>>

(* pipe_client_request. *)
Request(x) ==
    /\ x # Stopper /\ c[x] = "idle" /\ c' = [c EXCEPT ![x] = "open"]
    /\ UNCHANGED <<srv, _stop, pipe>>

CreateFile(x) ==
    /\ c[x] = "open" /\ pipe.exists /\ pipe.peer = NoOne
    /\ pipe' = [pipe EXCEPT !.peer = x] /\ c' = [c EXCEPT ![x] = "write"]
    /\ UNCHANGED <<srv, _stop>>

GiveUp(x) ==
    /\ c[x] = "open" /\ c' = [c EXCEPT ![x] = "failed"]
    /\ UNCHANGED <<srv, _stop, pipe>>

Write(x) ==
    /\ c[x] = "write" /\ c' = [c EXCEPT ![x] = "flush"]
    /\ pipe' = IF pipe.peer = x THEN [pipe EXCEPT !.request = TRUE] ELSE pipe
    /\ UNCHANGED <<srv, _stop>>

Flush(x) ==
    /\ c[x] = "flush" /\ ~(pipe.peer = x /\ pipe.request)
    /\ c' = [c EXCEPT ![x] = "read"]
    /\ UNCHANGED <<srv, _stop, pipe>>

(* An instance that was disconnected gives no bytes, and no bytes are no   *)
(* JSON.                                                                   *)
Read(x) ==
    /\ c[x] = "read"
    /\ IF pipe.peer = x
       THEN /\ pipe.reply
            /\ pipe' = [pipe EXCEPT !.reply = FALSE] /\ c' = [c EXCEPT ![x] = "answered"]
       ELSE c' = [c EXCEPT ![x] = "failed"] /\ UNCHANGED pipe
    /\ UNCHANGED <<srv, _stop>>

Die(x) ==
    /\ x # Stopper /\ c[x] \notin {"idle", "answered", "failed", "dead"}
    /\ c' = [c EXCEPT ![x] = "dead"]
    /\ UNCHANGED <<srv, _stop, pipe>>

Server == \/ Check \/ CreateNamedPipe \/ ConnectNamedPipe \/ Handle
          \/ FlushFileBuffers \/ Close
Client(x) == CreateFile(x) \/ GiveUp(x) \/ Write(x) \/ Flush(x) \/ Read(x)

Next == Server \/ Stop \/ \E x \in Clients : Request(x) \/ Client(x) \/ Die(x)

Spec == Init /\ [][Next]_vars

(* The server thread and the clients run; the handler returns. *)
FairSpec == Spec /\ WF_vars(Server)
                 /\ \A x \in Clients : WF_vars(Client(x))

-----------------------------------------------------------------------------
(* A client that has opened the pipe gets its reply, also when stop() is   *)
(* called at that moment and when other clients die: the instance is not   *)
(* closed under it (serve_one, pipe_client_request).                       *)
OpenedIsAnswered == \A x \in Clients : (c[x] = "write") ~> (c[x] \in Gone)

(* After stop() the server thread ends.  The one exception is that stop()'s *)
(* own request timed out before the server had created its next instance,  *)
(* on which the thread then waits for one more client (stop,               *)
(* serve_forever).                                                         *)
StopEnds == (c[Stopper] = "open") ~>
            (srv = "ended" \/ (srv = "connect" /\ c[Stopper] = "failed"))
=============================================================================
