---------------------------- MODULE SocketServer ----------------------------
(***************************************************************************)
(* The socket server of src/socket_server.c: the thread that owns it calls *)
(* start, push_callback, get_last_error, stop and free; each start makes a *)
(* server thread, which opens, binds and listens, sets IsRunning, and then *)
(* serves one connection after the other until NeedToStop is set.          *)
(*                                                                         *)
(* A critical section of the mutex is one step; what the code reads or     *)
(* writes without the mutex is a step of its own.  Sockets, the network    *)
(* and the clients are external: a call succeeds or fails.  An allocation  *)
(* fails only where the code tests for it.                                 *)
(***************************************************************************)
EXTENDS Integers, FiniteSets

CONSTANTS
    MaxStarts,     \* bound: server threads created in a behaviour
    MaxConns,      \* bound: connections the clients make
    MaxChunks,     \* bound: full RECV_SIZE chunks a client sends
    MaxCallbacks,  \* bound: calls of socket_server_push_callback
    LocalHost,     \* is the ip_mode of the server IpMode_LocalHost, not IpMode_Any?
    Hasty          \* may the owner start a server without callbacks, push one
                   \* to a server that runs, and call start and free before
                   \* the thread it started has set IsRunning?

ASSUME SocketServerAssumption ==
    /\ MaxStarts \in Nat \ {0}
    /\ MaxConns \in Nat /\ MaxChunks \in Nat /\ MaxCallbacks \in Nat \ {0}
    /\ LocalHost \in BOOLEAN /\ Hasty \in BOOLEAN

Servers == 1 .. MaxStarts   \* server threads, in the order of thread_create

VARIABLES
    server,       \* the SocketServer struct
    mutex,        \* the Mutex its mutex field points to
    thread,       \* its thread field, 0 when uninitialized
    needToStop, isRunning,   \* its flags
    error,        \* its error field: 0, or 1 for any error
    callbacks,    \* its callbacks: their number, 0 for the NULL array
    moving,       \* the array is being reallocated
    pushed,       \* history: the calls of push_callback that have returned true
    failed,       \* history: one has returned false
    opc, freeing, got,
                  \* the owner's place; socket_server_stop was called by
                  \* socket_server_free; the local of get_last_error
    spc,          \* the place of each server thread
    socket,       \* the server threads that have an open server socket
    connection,   \* those that have an open connection
    chunks, called,  \* full chunks received, callbacks called for it
    pending, connected  \* connections to accept, and made so far

fieldVars  == <<server, mutex, thread, needToStop, isRunning>>
ownerVars  == <<opc, freeing, got>>
serverVars == <<spc, socket, connection, chunks, called>>
netVars    == <<pending, connected>>
vars == <<fieldVars, error, callbacks, moving, pushed, failed, ownerVars, serverVars, netVars>>

OwnerPCs  == {"idle", "push", "error", "stop", "join", "unset", "free", "done"}
ServerPCs == {"none", "socket", "address", "bind", "listen", "running", "loop",
              "select", "recv", "calling", "send", "finish", "close", "unset",
              "exited", "noaddress", "fault", "overrun"}

\* A server thread has returned from socket_server_main_loop, "noaddress" for
\* the one that could not make its address; or it has read callbacks where
\* there are none ("fault") or copied (size_t)-1 bytes ("overrun"), which is
\* the end of the process.
Ended(s) == spc[s] \in {"exited", "noaddress"}
Crashed == \E s \in Servers : spc[s] \in {"fault", "overrun"}

\* A server thread that has started and not ended.
Active(s) == spc[s] \notin {"none", "exited", "noaddress", "fault", "overrun"}

\* One that has set IsRunning and not unset it.
Serving(s) == spc[s] \in {"loop", "select", "recv", "calling", "send", "finish",
                          "close", "unset", "fault", "overrun"}

TypeOK ==
    /\ server \in {"none", "live", "freed"} /\ mutex \in {"null", "live", "freed"}
    /\ thread \in Servers \union {0}
    /\ needToStop \in BOOLEAN /\ isRunning \in BOOLEAN
    /\ error \in {0, 1} /\ got \in {0, 1}
    /\ callbacks \in 0 .. MaxCallbacks /\ moving \in BOOLEAN
    /\ pushed \in 0 .. MaxCallbacks /\ failed \in BOOLEAN
    /\ opc \in OwnerPCs /\ freeing \in BOOLEAN
    /\ spc \in [Servers -> ServerPCs]
    /\ socket \in SUBSET Servers /\ connection \in SUBSET Servers
    /\ chunks \in [Servers -> 0 .. MaxChunks]
    /\ called \in [Servers -> 0 .. MaxCallbacks]
    /\ pending \in 0 .. MaxConns /\ connected \in 0 .. MaxConns

Init ==
    /\ server = "none" /\ mutex = "null" /\ thread = 0
    /\ needToStop = FALSE /\ isRunning = FALSE
    /\ error = 0 /\ got = 0
    /\ callbacks = 0 /\ moving = FALSE /\ pushed = 0 /\ failed = FALSE
    /\ opc = "idle" /\ freeing = FALSE
    /\ spc = [s \in Servers |-> "none"]
    /\ socket = {} /\ connection = {}
    /\ chunks = [s \in Servers |-> 0] /\ called = [s \in Servers |-> 0]
    /\ pending = 0 /\ connected = 0

-----------------------------------------------------------------------------
(* The owner *)

\* The error field is not initialized: it may hold anything.
ServerNew ==
    /\ server = "none"
    /\ server' = "live"
    /\ error' \in {0, 1}
    /\ UNCHANGED <<mutex, thread, needToStop, isRunning, callbacks>>
    /\ UNCHANGED <<moving, pushed, failed>>
    /\ UNCHANGED <<ownerVars, serverVars, netVars>>

\* The owner between two calls; after a crash it makes none.  Unless it is
\* hasty it has seen IsRunning, or the end of a thread that failed, before it
\* starts again or frees.
Ready == server = "live" /\ opc = "idle" /\ ~Crashed
Settled == Hasty \/ \A s \in Servers : Active(s) => Serving(s)

Starting == Cardinality({s \in Servers : spc[s] # "none"})

\* The test of IsRunning takes no lock; a new mutex replaces the old one.
ServerStart ==
    /\ Ready /\ Settled
    /\ IF isRunning
       THEN /\ error' = 1
            /\ UNCHANGED <<mutex, thread, spc>>
       ELSE /\ Starting < MaxStarts
            /\ Hasty \/ pushed > 0
            /\ mutex' = "live"
            /\ thread' = Starting + 1
            /\ spc' = [spc EXCEPT ![thread'] = "socket"]
            /\ UNCHANGED error
    /\ UNCHANGED <<server, needToStop, isRunning, callbacks, moving, pushed, failed>>
    /\ UNCHANGED <<ownerVars, socket, connection, chunks, called, netVars>>

\* push_callback allocates the array anew, then stores the callback and counts.
PushCallback ==
    /\ Ready
    /\ Hasty \/ \A s \in Servers : ~Active(s)
    /\ pushed < MaxCallbacks
    /\ opc' = "push" /\ moving' = TRUE
    /\ UNCHANGED <<fieldVars, error, callbacks, pushed, failed, freeing, got>>
    /\ UNCHANGED <<serverVars, netVars>>

\* malloc or realloc fails, and its NULL is the array from now on: with a
\* realloc, the callbacks that were in it are gone.
PushFail ==
    /\ opc = "push"
    /\ opc' = "idle" /\ moving' = FALSE
    /\ callbacks' = 0 /\ failed' = TRUE
    /\ UNCHANGED <<fieldVars, error, pushed, freeing, got, serverVars, netVars>>

\* Mutant: the new callback is not counted.
PushReturnUncounted ==
    /\ opc = "push"
    /\ opc' = "idle" /\ moving' = FALSE
    /\ pushed' = pushed + 1
    /\ UNCHANGED <<fieldVars, error, callbacks, failed>>
    /\ UNCHANGED <<freeing, got, serverVars, netVars>>

PushReturn ==
    /\ opc = "push"
    /\ opc' = "idle" /\ moving' = FALSE
    /\ callbacks' = callbacks + 1 /\ pushed' = pushed + 1
    /\ UNCHANGED <<fieldVars, error, failed, freeing, got, serverVars, netVars>>

\* get_last_error reads the field, then clears it.
GetLastError ==
    /\ Ready
    /\ opc' = "error"
    /\ got' = error
    /\ UNCHANGED <<fieldVars, error, callbacks, moving, pushed, failed>>
    /\ UNCHANGED <<freeing, serverVars, netVars>>

GetLastErrorReturn ==
    /\ opc = "error"
    /\ opc' = "idle"
    /\ error' = 0 /\ got' = 0
    /\ UNCHANGED <<fieldVars, callbacks, moving, pushed, failed>>
    /\ UNCHANGED <<freeing, serverVars, netVars>>

\* socket_server_stop is for a server that was started and not yet stopped.
ServerStop ==
    /\ Ready
    /\ mutex = "live"
    /\ opc' = "stop"
    /\ UNCHANGED <<fieldVars, error, callbacks, moving, pushed, failed, freeing, got>>
    /\ UNCHANGED <<serverVars, netVars>>

StopFlag ==
    /\ opc = "stop"
    /\ needToStop' = TRUE
    /\ opc' = "join"
    /\ UNCHANGED <<server, mutex, thread, isRunning, error, callbacks>>
    /\ UNCHANGED <<moving, pushed, failed>>
    /\ UNCHANGED <<freeing, got, serverVars, netVars>>

StopJoin ==
    /\ opc = "join"
    /\ Ended(thread)
    /\ opc' = "unset"
    /\ UNCHANGED <<fieldVars, error, callbacks, moving, pushed, failed>>
    /\ UNCHANGED <<freeing, got, serverVars, netVars>>

StopReturn ==
    /\ opc = "unset"
    /\ needToStop' = FALSE
    /\ mutex' = "freed"
    /\ opc' = IF freeing THEN "free" ELSE "idle"
    /\ UNCHANGED <<server, thread, isRunning, error, callbacks, moving, pushed, failed>>
    /\ UNCHANGED <<freeing, got, serverVars, netVars>>

\* Mutant: a server that runs is freed without being stopped.
ServerFreeAtOnce ==
    /\ Ready /\ Settled
    /\ opc' = "free" /\ freeing' = TRUE
    /\ UNCHANGED <<fieldVars, error, callbacks, moving, pushed, failed>>
    /\ UNCHANGED <<got, serverVars, netVars>>

\* socket_server_free stops a server whose IsRunning it sees, without a lock.
ServerFree ==
    /\ Ready /\ Settled
    /\ opc' = IF isRunning THEN "stop" ELSE "free"
    /\ freeing' = TRUE
    /\ UNCHANGED <<fieldVars, error, callbacks, moving, pushed, failed>>
    /\ UNCHANGED <<got, serverVars, netVars>>

FreeReturn ==
    /\ opc = "free"
    /\ opc' = "done"
    /\ server' = "freed"
    /\ UNCHANGED <<mutex, thread, needToStop, isRunning, error, callbacks>>
    /\ UNCHANGED <<moving, pushed, failed>>
    /\ UNCHANGED <<freeing, got, serverVars, netVars>>

-----------------------------------------------------------------------------
(* A server thread *)

\* Frames: what no step of a server thread writes, and what few of them do.
ServerFrame == UNCHANGED <<server, mutex, thread, needToStop, callbacks, moving,
                           pushed, failed, ownerVars>>

Go(s, from, to) == spc[s] = from /\ spc' = [spc EXCEPT ![s] = to]

\* socket_server_log with an error code
LogError == error' = 1

\* Mutant: a socket that could not be bound stays open.
SetUpKeepsSocket(s, from, to) ==
    /\ \/ Go(s, from, to) /\ socket' = socket \union {s} /\ UNCHANGED error
       \/ Go(s, from, "exited") /\ LogError /\ UNCHANGED socket
    /\ ServerFrame
    /\ UNCHANGED <<isRunning, connection, chunks, called, netVars>>

\* socket_new, socket_bind and socket_listen: a failure closes the socket, is
\* logged, and ends the thread.
SetUp(s, from, to) ==
    /\ \/ Go(s, from, to) /\ socket' = socket \union {s} /\ UNCHANGED error
       \/ Go(s, from, "exited") /\ socket' = socket \ {s} /\ LogError
    /\ ServerFrame
    /\ UNCHANGED <<isRunning, connection, chunks, called, netVars>>

\* The address of IpMode_Any is a constant, that of IpMode_LocalHost is made by
\* inet_pton.  When that fails the thread returns at once: the socket stays
\* open and nothing is logged.
MakeAddress(s) ==
    /\ \/ Go(s, "address", "bind")
       \/ Go(s, "address", "noaddress") /\ LocalHost
    /\ ServerFrame
    /\ UNCHANGED <<isRunning, error, socket, connection, chunks, called, netVars>>

SetRunning(s) ==
    /\ Go(s, "running", "loop")
    /\ isRunning' = TRUE
    /\ ServerFrame
    /\ UNCHANGED <<error, socket, connection, chunks, called, netVars>>

\* Mutant: NeedToStop is not looked at.
LoopTopBlind(s) ==
    /\ Go(s, "loop", "select")
    /\ ServerFrame
    /\ UNCHANGED <<isRunning, error, socket, connection, chunks, called, netVars>>

\* The top of the loop, in the mutex.
LoopTop(s) ==
    /\ Go(s, "loop", IF needToStop THEN "close" ELSE "select")
    /\ ServerFrame
    /\ UNCHANGED <<isRunning, error, socket, connection, chunks, called, netVars>>

\* select times out or fails, or a connection is accepted, or the accept fails.
Select(s) ==
    /\ \/ Go(s, "select", "loop") /\ UNCHANGED <<connection, pending, error>>
       \/ /\ Go(s, "select", "recv") /\ pending > 0
          /\ pending' = pending - 1
          /\ connection' = connection \union {s}
          /\ UNCHANGED error
       \/ /\ Go(s, "select", "loop") /\ pending > 0
          /\ pending' = pending - 1
          /\ UNCHANGED connection
          /\ LogError
    /\ chunks' = [chunks EXCEPT ![s] = 0] /\ called' = [called EXCEPT ![s] = 0]
    /\ ServerFrame
    /\ UNCHANGED <<isRunning, socket, connected>>

\* A full chunk and a larger buffer; the last chunk, perhaps an empty one; or
\* no buffer, whose loss is logged only when it is realloc that failed.  An
\* error, or a client that sends nothing before the timeout, makes socket_recv
\* return -1, which is not the 0 the code looks for, and memcpy is asked for
\* (size_t)-1 bytes.
Recv(s) ==
    /\ \/ /\ Go(s, "recv", "recv") /\ chunks[s] < MaxChunks
          /\ chunks' = [chunks EXCEPT ![s] = @ + 1]
          /\ UNCHANGED error
       \/ Go(s, "recv", "calling") /\ UNCHANGED <<chunks, error>>
       \/ /\ Go(s, "recv", "finish") /\ UNCHANGED chunks
          /\ IF chunks[s] > 0 THEN LogError ELSE UNCHANGED error
       \/ Go(s, "recv", "overrun") /\ UNCHANGED <<chunks, error>>
    /\ ServerFrame
    /\ UNCHANGED <<isRunning, socket, connection, called, netVars>>

\* The array is read anew for each callback.  The NULL array is a fault; one
\* that is just being reallocated may be one, or may still be in its place.
Calling(s) ==
    /\ \/ /\ callbacks = 0 \/ moving
          /\ Go(s, "calling", "fault") /\ UNCHANGED called
       \/ /\ spc[s] = "calling" /\ called[s] < callbacks
          /\ called' = [called EXCEPT ![s] = @ + 1] /\ UNCHANGED spc
       \/ /\ callbacks > 0 \/ moving
          /\ called[s] >= callbacks
          /\ Go(s, "calling", "send") /\ UNCHANGED called
    /\ ServerFrame
    /\ UNCHANGED <<isRunning, error, socket, connection, chunks, netVars>>

\* The size is sent back; a socket_send that sends nothing is logged.
Send(s) ==
    /\ Go(s, "send", "finish")
    /\ UNCHANGED error \/ LogError
    /\ ServerFrame
    /\ UNCHANGED <<isRunning, socket, connection, chunks, called, netVars>>

Finish(s) ==
    /\ Go(s, "finish", "loop")
    /\ connection' = connection \ {s}
    /\ ServerFrame
    /\ UNCHANGED <<isRunning, error, socket, chunks, called, netVars>>

Close(s) ==
    /\ Go(s, "close", "unset")
    /\ socket' = socket \ {s}
    /\ ServerFrame
    /\ UNCHANGED <<isRunning, error, connection, chunks, called, netVars>>

\* Mutant: the flag is not unset.
UnsetRunningForgets(s) ==
    /\ Go(s, "unset", "exited")
    /\ ServerFrame
    /\ UNCHANGED <<isRunning, error, socket, connection, chunks, called, netVars>>

UnsetRunning(s) ==
    /\ Go(s, "unset", "exited")
    /\ isRunning' = FALSE
    /\ ServerFrame
    /\ UNCHANGED <<error, socket, connection, chunks, called, netVars>>

ServerStep(s) ==
    \/ SetUp(s, "socket", "address") \/ MakeAddress(s)
    \/ SetUp(s, "bind", "listen") \/ SetUp(s, "listen", "running")
    \/ SetRunning(s) \/ LoopTop(s) \/ Select(s) \/ Recv(s) \/ Calling(s)
    \/ Send(s) \/ Finish(s) \/ Close(s) \/ UnsetRunning(s)

\* A client connects: external.
Connect ==
    /\ connected < MaxConns
    /\ \E s \in socket : Serving(s) /\ Active(s)
    /\ connected' = connected + 1 /\ pending' = pending + 1
    /\ UNCHANGED <<fieldVars, error, callbacks, moving, pushed, failed>>
    /\ UNCHANGED <<ownerVars, serverVars>>

-----------------------------------------------------------------------------
OwnerCall ==
    \/ ServerNew \/ ServerStart \/ PushCallback \/ GetLastError \/ ServerStop
    \/ ServerFree

OwnerStep ==
    \/ PushReturn \/ PushFail \/ GetLastErrorReturn \/ StopFlag \/ StopJoin \/ StopReturn
    \/ FreeReturn

Next ==
    \/ OwnerCall
    \/ OwnerStep
    \/ \E s \in Servers : ServerStep(s)
    \/ Connect

Spec == Init /\ [][Next]_vars

(***************************************************************************)
(* Threads that can run do run; select returns after at most a second,     *)
(* callbacks return, and a client's data ends.                             *)
(***************************************************************************)
FairSpec ==
    /\ Spec
    /\ WF_vars(OwnerStep)
    /\ \A s \in Servers : WF_vars(ServerStep(s))

(***************************************************************************)
(* Properties                                                              *)
(***************************************************************************)

\* socket_server.h, socket_server_free: "Stops the socket server and frees
\* it".  When the struct is gone, no thread is left that uses it.
FreeStops == server = "freed" => \A s \in Servers : ~Active(s)

\* A server thread works with the mutex of its server, which no stop has
\* freed, and only one thread serves; and a thread closes its connection and
\* its socket on every path to its end but one: for IpMode_LocalHost, the
\* return after a failed inet_pton leaves the socket open.
ResourcesExact ==
    /\ (\E s \in Servers : Active(s)) => mutex = "live"
    /\ Cardinality({s \in Servers : Active(s)}) <= 1
    /\ \A s \in Servers : Ended(s) =>
        /\ s \notin connection
        /\ s \in socket => LocalHost /\ spc[s] = "noaddress"

\* As long as push_callback has always returned true, what a connection sends
\* is given to every callback the owner has pushed, and the array is there;
\* after a push that returned false, the thread can find the NULL array, and
\* no other one that it may not read.
CallbacksAllRun ==
    \A s \in Servers :
        /\ ~failed /\ spc[s] = "send" => called[s] = pushed
        /\ spc[s] = "fault" => failed /\ callbacks = 0

\* IsRunning, which start, is_running and free read without the mutex, is
\* set just while a thread is in its loop; and when stop has returned, the
\* server can be started again: nothing runs, and no flag is left to stop the
\* next thread.
FlagsExact ==
    /\ TypeOK
    /\ isRunning <=> \E s \in Servers : Serving(s)
    /\ server = "live" /\ mutex = "freed" /\ opc # "unset" =>
        /\ \A s \in Servers : ~Active(s)
        /\ ~needToStop

\* socket_server_stop returns, also one that comes before the thread has set
\* IsRunning, one that comes in the middle of a connection, and one of a thread
\* that could not open its socket; unless the process has crashed meanwhile.
StopReturns == opc \in {"stop", "join"} ~> opc \in {"idle", "done"} \/ Crashed

=============================================================================
