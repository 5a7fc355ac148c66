------------------------------ MODULE HttpServer ------------------------------
(***************************************************************************)
(* HttpServer of src/src/http/http_server.{h,cc}: callbacks on one libuv   *)
(* loop.  A callback runs to its end before the next, so a callback is an  *)
(* action; what is concurrent is the order in which the loop delivers      *)
(* reads, finished writes and finished closes of several connections.      *)
(*                                                                         *)
(* A request is a number of chunks; its headers end in chunk HeaderChunks, *)
(* and a client may go on sending (a body, a second request).  uv_close()  *)
(* on a handle that is closing already fails an assertion of libuv, and a  *)
(* callback that reaches into a destroyed server has no defined behaviour: *)
(* in both cases the model stops (aborted).  The names every specification *)
(* has start with Http here, so that HostObjectsProofs can extend          *)
(* KodeScope as well.                                                      *)
(***************************************************************************)
EXTENDS Naturals

CONSTANTS Conns,         \* connections clients may open
          HeaderChunks,  \* reads until the end of the headers
          MaxChunks      \* bound: reads with data on one connection

ASSUME ChunksAssumption ==
    HeaderChunks \in Nat \ {0} /\ MaxChunks \in Nat /\ HeaderChunks <= MaxChunks

VARIABLES
    running_,    \* HttpServer::running_
    listener,    \* the server_ handle
    destroyed,   \* whether ~HttpServer() has run, and in which state
    conn,        \* connection -> state of its client handle
    buffer,      \* connection -> chunks appended to conn->buffer
    responded,   \* connection -> conn->responded
    answer,      \* connection -> who produced the response
    pending,     \* connection -> write requests in flight
    written,     \* connection -> responses fully written
    aborted      \* which handle was closed twice, or a dangling server was used

httpVars == <<running_, listener, destroyed, conn, buffer, responded, answer, pending, written, aborted>>

serverVars == <<running_, listener, destroyed>>
requestVars == <<buffer, responded, answer>>

HttpTypeOK ==
    /\ running_ \in BOOLEAN
    /\ listener \in {"init", "listening", "closing", "closed"}
    /\ destroyed \in {"no", "idle", "busy"}
    /\ conn \in [Conns -> {"none", "refused", "open", "closing", "freed"}]
    /\ buffer \in [Conns -> 0..MaxChunks]
    /\ responded \in [Conns -> BOOLEAN]
    /\ answer \in [Conns -> {"none", "route", "handler", "default"}]
    /\ pending \in [Conns -> Nat]
    /\ written \in [Conns -> Nat]
    /\ aborted \in {"no", "client", "server", "dangling"}

HttpInit ==
    /\ running_ = FALSE
    /\ listener = "init"
    /\ destroyed = "no"
    /\ conn = [c \in Conns |-> "none"]
    /\ buffer = [c \in Conns |-> 0]
    /\ responded = [c \in Conns |-> FALSE]
    /\ answer = [c \in Conns |-> "none"]
    /\ pending = [c \in Conns |-> 0]
    /\ written = [c \in Conns |-> 0]
    /\ aborted = "no"

-----------------------------------------------------------------------------
(* The listener                                                            *)

\* start(): bind and listen succeed, or fail before running_ is set.  They
\* fail on a handle that was closed by stop().
Start ==
    /\ destroyed = "no"
    /\ \/ ~running_ /\ listener = "init" /\ running_' = TRUE /\ listener' = "listening"
       \/ UNCHANGED <<running_, listener>>
    /\ UNCHANGED <<destroyed, conn, requestVars, pending, written, aborted>>

\* uv_close(&server_, nullptr)
CloseListener ==
    IF listener = "listening"
      THEN listener' = "closing" /\ UNCHANGED aborted
      ELSE aborted' = "server" /\ UNCHANGED listener

\* Mutant: the flag is left set.
MutantStopAgain == CloseListener /\ UNCHANGED running_

\* stop() of a server that runs
StopRunning == running_' = FALSE /\ CloseListener

Stop ==
    /\ destroyed = "no" /\ running_
    /\ StopRunning
    /\ UNCHANGED <<destroyed, conn, requestVars, pending, written>>

\* Nothing of the server is needed any more: its handle is closed, and every open
\* connection has been answered.
Idle == listener = "closed" /\ \A c \in Conns : conn[c] = "open" => responded[c]

\* ~HttpServer(): stop(), and the memory of the handle and of the routes is gone,
\* also if the loop is not through with closing the handle and connections still
\* point to the server.
Destroy ==
    /\ destroyed = "no"
    /\ destroyed' = IF Idle THEN "idle" ELSE "busy"
    /\ IF running_ THEN StopRunning ELSE UNCHANGED <<running_, listener, aborted>>
    /\ UNCHANGED <<conn, requestVars, pending, written>>

\* The loop is through with closing the listener, whose handle is a member of the
\* server.
ListenerClosed ==
    /\ listener = "closing"
    /\ IF destroyed = "no" THEN listener' = "closed" /\ UNCHANGED aborted
                            ELSE aborted' = "dangling" /\ UNCHANGED listener
    /\ UNCHANGED <<running_, destroyed, conn, requestVars, pending, written>>

-----------------------------------------------------------------------------
(* A connection                                                            *)

\* uv_close(client, on_client_closed)
CloseClient(c) ==
    IF conn[c] = "open"
      THEN conn' = [conn EXCEPT ![c] = "closing"] /\ UNCHANGED aborted
      ELSE aborted' = "client" /\ UNCHANGED conn

\* on_new_connection(): an error status leaves nothing behind; a failed accept
\* closes the handle that was just made.
OnNewConnection(c) ==
    /\ listener = "listening" /\ conn[c] = "none"
    /\ \E s \in {"refused", "open", "closing"} : conn' = [conn EXCEPT ![c] = s]
    /\ UNCHANGED <<serverVars, requestVars, pending, written, aborted>>

\* The response of handle_request(): a route whose body is not empty, else the
\* fallback handler, else the default body.
Answers == {"route", "handler", "default"}

\* Mutant: the responded flag is not set.
MutantHandleRequest(c) ==
    /\ UNCHANGED responded
    /\ \E a \in Answers : answer' = [answer EXCEPT ![c] = a]
    /\ pending' = [pending EXCEPT ![c] = @ + 1]

\* handle_request(): responded = true, a response, uv_write
HandleRequest(c) ==
    /\ responded' = [responded EXCEPT ![c] = TRUE]
    /\ \E a \in Answers : answer' = [answer EXCEPT ![c] = a]
    /\ pending' = [pending EXCEPT ![c] = @ + 1]

\* read_cb() with data: reading goes on while the response is written, so data
\* may arrive after the request was answered.  The end of the headers calls
\* conn->server->handle_request(), whether the server is still there or not.
ReadData(c) ==
    /\ conn[c] = "open" /\ buffer[c] < MaxChunks
    /\ buffer' = [buffer EXCEPT ![c] = @ + 1]
    /\ IF ~responded[c] /\ buffer[c] + 1 >= HeaderChunks
         THEN \/ destroyed = "no" /\ HandleRequest(c) /\ UNCHANGED aborted
              \/ destroyed # "no" /\ aborted' = "dangling" /\ UNCHANGED <<responded, answer, pending>>
         ELSE UNCHANGED <<responded, answer, pending, aborted>>
    /\ UNCHANGED <<serverVars, conn, written>>

\* read_cb() with UV_EOF or an error
ReadEnd(c) ==
    /\ conn[c] = "open"
    /\ CloseClient(c)
    /\ UNCHANGED <<serverVars, requestVars, pending, written>>

\* Mutant: the connection is kept after the response.
MutantAfterWriteKeeps(c) ==
    /\ pending[c] > 0 /\ conn[c] = "open"
    /\ pending' = [pending EXCEPT ![c] = @ - 1]
    /\ written' = [written EXCEPT ![c] = @ + 1]
    /\ UNCHANGED <<serverVars, requestVars, conn, aborted>>

\* Mutant: the connection is kept for the next request.
MutantKeepAlive(c) ==
    /\ pending[c] > 0 /\ conn[c] = "open"
    /\ pending' = [pending EXCEPT ![c] = @ - 1]
    /\ written' = [written EXCEPT ![c] = @ + 1]
    /\ responded' = [responded EXCEPT ![c] = FALSE]
    /\ UNCHANGED <<serverVars, buffer, answer, conn, aborted>>

\* after_write_cb(): the write is through (its status is not looked at)
AfterWrite(c) ==
    /\ pending[c] > 0 /\ conn[c] = "open"
    /\ pending' = [pending EXCEPT ![c] = @ - 1]
    /\ written' = [written EXCEPT ![c] = @ + 1]
    /\ CloseClient(c)
    /\ UNCHANGED <<serverVars, requestVars>>

\* The loop finishes a close.  A write still in flight is cancelled first: its
\* callback, after_write_cb(), runs on the closing handle.
CancelWrite(c) ==
    /\ conn[c] = "closing" /\ pending[c] > 0
    /\ pending' = [pending EXCEPT ![c] = @ - 1]
    /\ CloseClient(c)
    /\ UNCHANGED <<serverVars, requestVars, written>>

\* libuv calls the close callback when the callbacks of the writes it has cancelled
\* have returned.
WritesCancelled(c) == pending[c] = 0

\* on_client_closed(): delete conn
OnClientClosed(c) ==
    /\ conn[c] = "closing" /\ WritesCancelled(c)
    /\ conn' = [conn EXCEPT ![c] = "freed"]
    /\ UNCHANGED <<serverVars, requestVars, pending, written, aborted>>

-----------------------------------------------------------------------------

ConnStep(c) ==
    \/ OnNewConnection(c) \/ ReadData(c) \/ ReadEnd(c)
    \/ AfterWrite(c) \/ CancelWrite(c) \/ OnClientClosed(c)

HttpNext ==
    /\ aborted = "no"
    /\ Start \/ Stop \/ Destroy \/ ListenerClosed \/ \E c \in Conns : ConnStep(c)

HttpSpec == HttpInit /\ [][HttpNext]_httpVars

\* The loop delivers every finished write and every finished close; clients
\* may send, hang up, or do nothing.
HttpFairness ==
    \A c \in Conns :
        /\ WF_httpVars(aborted = "no" /\ (AfterWrite(c) \/ CancelWrite(c)))
        /\ WF_httpVars(aborted = "no" /\ OnClientClosed(c))

HttpFairSpec == HttpSpec /\ HttpFairness

-----------------------------------------------------------------------------
(* Correctness                                                             *)

\* One response per connection: chunks that arrive after the headers, while
\* the response is still being written, do not start another.
OneResponse == \A c \in Conns : pending[c] + written[c] <= 1

\* A server may be destroyed while responses are being written and connections
\* closed: once its listener is closed and every open connection has been
\* answered, no callback reaches into it any more, whatever clients still send.
\* (Destroyed before that, it is: the destructor waits for nothing.)
DestroyedIdleUntouched == aborted = "dangling" => destroyed = "busy"

\* A connection that was answered is freed in the end: the client need not
\* hang up.
AnsweredIsFreed ==
    \A c \in Conns : responded[c] ~> conn[c] = "freed" \/ aborted # "no"

\* uv_close() of a handle that is already closing ends the process.  It happens
\* in one way only: the client hung up, or a read failed, before its response
\* was written.  stop() followed by the destructor, a stop() after a failed
\* start() and a connection that could not be accepted close nothing twice.
OnlyHangupAborts ==
    /\ aborted # "server"
    /\ aborted = "client" =>
         \E c \in Conns : conn[c] = "closing" /\ responded[c] /\ written[c] = 0
=============================================================================
