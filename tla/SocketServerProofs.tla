------------------------- MODULE SocketServerProofs -------------------------
(***************************************************************************)
(* Proofs about SocketServer, for any number of starts, connections,       *)
(* chunks and callbacks.  TypeOK, and where a thread has its socket and     *)
(* its connection, are proved of every owner; the rest of one that is      *)
(* not hasty.                                                              *)
(***************************************************************************)
EXTENDS SocketServer, FiniteSetTheorems, TLAPS

-----------------------------------------------------------------------------
(* The inductive invariants *)

\* The counters: the array of callbacks holds what was pushed, unless a push
\* has failed; it moves just during a push; and a thread calls no more
\* callbacks than were pushed.
Counts ==
    /\ callbacks <= pushed
    /\ failed \/ callbacks = pushed
    /\ moving = (opc = "push")
    /\ opc = "push" => pushed < MaxCallbacks
    /\ \A s \in Servers : called[s] <= pushed
    /\ pending <= connected

\* Threads are created in the order of their number.
InOrder == \A s \in Servers : spc[s] # "none" <=> s <= Starting

\* Where in its code a thread has a socket and a connection: exactly there, and
\* for ever in one that returned after a failed inet_pton.
Handles ==
    \A s \in Servers :
        /\ s \in socket <=> spc[s] \notin {"none", "socket", "unset", "exited"}
        /\ s \in connection <=> spc[s] \in {"recv", "calling", "send", "finish",
                                           "fault", "overrun"}
        /\ spc[s] = "noaddress" => LocalHost

AnyOwner == TypeOK /\ Counts /\ InOrder /\ Handles

\* The only thread that can be active is the one the struct knows, with a
\* live mutex, a callback pushed, no crash, and no push, free or second stop
\* under way.
OneThread ==
    \A s \in Servers : Active(s) =>
        /\ s = thread
        /\ server = "live" /\ mutex = "live" /\ pushed > 0 /\ ~Crashed
        /\ opc \notin {"push", "unset", "free", "done"}

\* No callback is called from a moving array, and from a missing one only after
\* a failed push; without one, a thread that answers has called them all.
NoFault ==
    \A s \in Servers :
        /\ ~failed /\ spc[s] = "send" => called[s] = pushed
        /\ spc[s] = "fault" => failed /\ callbacks = 0 /\ opc # "push"

\* IsRunning is set just while a thread serves.
RunningFlag == isRunning = \E s \in Servers : Serving(s)

\* What the owner in socket_server_stop relies on.
Stopping ==
    /\ opc \in {"stop", "join", "unset"} => mutex = "live"
    /\ needToStop => opc \in {"join", "unset"}

PatientOwner == AnyOwner /\ OneThread /\ NoFault /\ RunningFlag /\ Stopping

-----------------------------------------------------------------------------
(* Counting threads *)

\* The interval 1 .. n has n elements.
LEMMA IntervalSize ==
    ASSUME NEW n \in Nat
    PROVE  IsFiniteSet(1 .. n) /\ Cardinality(1 .. n) = n
  <1>1. IsFiniteSet(1 .. n) /\ Cardinality(1 .. n) = IF 1 > n THEN 0 ELSE n - 1 + 1
    BY FS_Interval
  <1>2. QED BY <1>1

\* Starting is the number of some thread, or 0.
LEMMA StartingRange ==
    Starting \in 0 .. MaxStarts
  <1>1. IsFiniteSet(Servers) /\ Cardinality(Servers) = MaxStarts
    BY IntervalSize, SocketServerAssumption DEF Servers, SocketServerAssumption
  <1>2. {s \in Servers : spc[s] # "none"} \subseteq Servers
    OBVIOUS
  <1>3. Starting \in Nat /\ Starting <= Cardinality(Servers)
    BY <1>1, <1>2, FS_Subset, FS_CardinalityType DEF Starting
  <1>4. QED
    BY <1>1, <1>3, SocketServerAssumption DEF SocketServerAssumption

\* A step that creates no thread leaves their number alone.
LEMMA StartingFrame ==
    ASSUME InOrder, \A s \in Servers : spc'[s] = "none" <=> spc[s] = "none"
    PROVE  InOrder'
  <1>1. {s \in Servers : spc'[s] # "none"} = {s \in Servers : spc[s] # "none"}
    OBVIOUS
  <1>2. Starting' = Starting
    BY <1>1 DEF Starting
  <1>3. QED BY <1>2 DEF InOrder

\* socket_server_start creates the next thread.
LEMMA StartingNext ==
    ASSUME TypeOK, InOrder, Starting < MaxStarts, NEW p \in ServerPCs \ {"none"},
           spc' = [spc EXCEPT ![Starting + 1] = p]
    PROVE  Starting + 1 \in Servers /\ InOrder'
  <1>1. Starting \in Nat /\ Starting + 1 \in Servers /\ Starting + 1 <= MaxStarts
    BY StartingRange, SocketServerAssumption DEF SocketServerAssumption, Servers
  <1>2. \A s \in Servers : spc'[s] # "none" <=> s <= Starting + 1
    BY <1>1 DEF TypeOK, InOrder, Servers
  <1>3. Starting' = Starting + 1
    <2>1. {s \in Servers : spc'[s] # "none"} = 1 .. (Starting + 1)
      BY <1>1, <1>2, SocketServerAssumption DEF SocketServerAssumption, Servers
    <2>2. Cardinality(1 .. (Starting + 1)) = Starting + 1
      BY <1>1, IntervalSize
    <2>3. Starting' = Cardinality({s \in Servers : spc'[s] # "none"})
      BY DEF Starting
    <2>4. QED BY <2>1, <2>2, <2>3
  <1>4. QED BY <1>1, <1>2, <1>3 DEF InOrder

-----------------------------------------------------------------------------
(* Any owner: every step keeps the types, the counters and the handles *)

\* AnyOwner holds at first, and the steps of the owner and the server keep it.
LEMMA AnyInit == Init => AnyOwner
  <1> SUFFICES ASSUME Init PROVE AnyOwner
    OBVIOUS
  <1> USE SocketServerAssumption DEF Init, SocketServerAssumption
  <1>1. TypeOK
    <2>1. /\ needToStop \in BOOLEAN /\ isRunning \in BOOLEAN
          /\ moving \in BOOLEAN /\ freeing \in BOOLEAN /\ failed \in BOOLEAN
      OBVIOUS
    <2>2. spc \in [Servers -> ServerPCs] /\ opc \in OwnerPCs
      BY DEF ServerPCs, OwnerPCs
    <2>3. QED BY <2>1, <2>2 DEF TypeOK
  <1>2. Counts
    <2>1. moving = (opc = "push") OBVIOUS
    <2>2. QED BY <2>1 DEF Counts
  <1>3. Handles
    BY DEF Handles
  <1>4. InOrder
    <2>1. {s \in Servers : spc[s] # "none"} = {} OBVIOUS
    <2>2. Starting = 0 BY <2>1, FS_EmptySet DEF Starting
    <2>3. QED BY <2>2 DEF InOrder, Servers
  <1>5. QED BY <1>1, <1>2, <1>3, <1>4 DEF AnyOwner

LEMMA AnyOwnerStep == AnyOwner /\ (OwnerCall \/ OwnerStep) => AnyOwner'
  <1> SUFFICES ASSUME AnyOwner, OwnerCall \/ OwnerStep PROVE AnyOwner'
    OBVIOUS
  <1> USE SocketServerAssumption DEF SocketServerAssumption
  <1> TypeOK /\ Counts /\ InOrder /\ Handles
    BY DEF AnyOwner
  <1> USE DEF fieldVars, ownerVars, serverVars, netVars
  <1>1. ASSUME TypeOK', Counts', UNCHANGED serverVars PROVE AnyOwner'
    BY <1>1, StartingFrame DEF AnyOwner, Handles
  <1>2. CASE ServerNew
    <2>1. TypeOK' BY <1>2 DEF ServerNew, TypeOK
    <2>2. QED BY <1>1, <1>2, <2>1 DEF ServerNew, Counts
  <1>3. CASE ServerStart
    <2>1. CASE isRunning
      <3>1. TypeOK' BY <1>3, <2>1 DEF ServerStart, TypeOK
      <3>2. QED BY <1>1, <1>3, <2>1, <3>1 DEF ServerStart, Counts
    <2>2. CASE ~isRunning
      <3>1. Starting + 1 \in Servers /\ InOrder' /\ spc[Starting + 1] = "none"
        <4>1. Starting \in Nat BY StartingRange
        <4>2. spc' = [spc EXCEPT ![Starting + 1] = "socket"] /\ Starting < MaxStarts
          BY <1>3, <2>2 DEF ServerStart
        <4>3. Starting + 1 \in Servers /\ InOrder'
          BY <4>2, StartingNext DEF ServerPCs
        <4>4. QED BY <4>1, <4>3 DEF InOrder
      <3>2. TypeOK' BY <1>3, <2>2, <3>1 DEF ServerStart, TypeOK, ServerPCs
      <3>3. Counts' BY <1>3, <2>2 DEF ServerStart, Counts
      <3>4. Handles' BY <1>3, <2>2, <3>1 DEF ServerStart, Handles, TypeOK
      <3>5. QED BY <3>1, <3>2, <3>3, <3>4 DEF AnyOwner
    <2>3. QED BY <2>1, <2>2
  <1>4. CASE PushCallback
    <2>1. TypeOK' BY <1>4 DEF PushCallback, TypeOK, OwnerPCs
    <2>2. QED BY <1>1, <1>4, <2>1 DEF PushCallback, Counts
  <1>5. CASE GetLastError
    <2>1. TypeOK' BY <1>5 DEF GetLastError, TypeOK, OwnerPCs
    <2>2. QED BY <1>1, <1>5, <2>1 DEF GetLastError, Ready, Counts
  <1>6. CASE ServerStop
    <2>1. TypeOK' BY <1>6 DEF ServerStop, TypeOK, OwnerPCs
    <2>2. QED BY <1>1, <1>6, <2>1 DEF ServerStop, Ready, Counts
  <1>7. CASE ServerFree
    <2>1. opc' \in OwnerPCs /\ freeing' \in BOOLEAN
      BY <1>7 DEF ServerFree, OwnerPCs
    <2>2. TypeOK' BY <1>7, <2>1 DEF ServerFree, TypeOK
    <2>3. QED BY <1>1, <1>7, <2>2 DEF ServerFree, Ready, Counts
  <1>8. CASE PushReturn
    <2>1. callbacks' \in 0 .. MaxCallbacks /\ pushed' \in 0 .. MaxCallbacks
      BY <1>8 DEF PushReturn, TypeOK, Counts
    <2>2. opc' \in OwnerPCs /\ moving' \in BOOLEAN
      BY <1>8 DEF PushReturn, OwnerPCs
    <2>3. TypeOK' BY <1>8, <2>1, <2>2 DEF PushReturn, TypeOK
    <2>4. QED BY <1>1, <1>8, <2>3 DEF PushReturn, Counts, TypeOK
  <1>9. CASE GetLastErrorReturn
    <2>1. TypeOK' BY <1>9 DEF GetLastErrorReturn, TypeOK, OwnerPCs
    <2>2. QED BY <1>1, <1>9, <2>1 DEF GetLastErrorReturn, Counts
  <1>10. CASE StopFlag
    <2>1. TypeOK' BY <1>10 DEF StopFlag, TypeOK, OwnerPCs
    <2>2. QED BY <1>1, <1>10, <2>1 DEF StopFlag, Counts
  <1>11. CASE StopJoin
    <2>1. TypeOK' BY <1>11 DEF StopJoin, TypeOK, OwnerPCs
    <2>2. QED BY <1>1, <1>11, <2>1 DEF StopJoin, Counts
  <1>12. CASE StopReturn
    <2>1. TypeOK' BY <1>12 DEF StopReturn, TypeOK, OwnerPCs
    <2>2. QED BY <1>1, <1>12, <2>1 DEF StopReturn, Counts
  <1>13. CASE FreeReturn
    <2>1. TypeOK' BY <1>13 DEF FreeReturn, TypeOK, OwnerPCs
    <2>2. QED BY <1>1, <1>13, <2>1 DEF FreeReturn, Counts
  <1>14. CASE PushFail
    <2>1. opc' \in OwnerPCs /\ moving' \in BOOLEAN /\ failed' \in BOOLEAN
      BY <1>14 DEF PushFail, OwnerPCs
    <2>2. TypeOK' BY <1>14, <2>1 DEF PushFail, TypeOK
    <2>3. moving' = (opc' = "push") BY <1>14 DEF PushFail
    <2>4. Counts' BY <1>14, <2>3 DEF PushFail, Counts, TypeOK
    <2>5. QED BY <1>1, <1>14, <2>2, <2>4 DEF PushFail
  <1>15. QED
    BY <1>2, <1>3, <1>4, <1>5, <1>6, <1>7, <1>8, <1>9, <1>10, <1>11, <1>12, <1>13, <1>14
       DEF OwnerCall, OwnerStep

LEMMA AnyServerStep == ASSUME AnyOwner, NEW s \in Servers, ServerStep(s) PROVE AnyOwner'
  <1> USE SocketServerAssumption DEF SocketServerAssumption
  <1> TypeOK /\ Counts /\ InOrder /\ Handles
    BY DEF AnyOwner
  <1> USE DEF ServerFrame, fieldVars, ownerVars, serverVars, netVars
  <1>1. ASSUME TypeOK', Counts', Handles', NEW p \in ServerPCs \ {"none"},
               spc[s] # "none", spc' = [spc EXCEPT ![s] = p]
        PROVE  AnyOwner'
    <2>1. \A q \in Servers : spc'[q] = "none" <=> spc[q] = "none"
      BY <1>1 DEF TypeOK
    <2>2. QED BY <1>1, <2>1, StartingFrame DEF AnyOwner
  <1>2. ASSUME NEW from \in {"socket", "bind", "listen"},
               NEW to \in {"address", "listen", "running"},
               SetUp(s, from, to)
        PROVE  AnyOwner'
    <2>1. TypeOK' BY <1>2 DEF SetUp, Go, LogError, TypeOK, ServerPCs
    <2>2. Counts' BY <1>2 DEF SetUp, Counts
    <2>3. Handles' BY <1>2 DEF SetUp, Go, Handles, TypeOK
    <2>4. QED BY <1>1, <1>2, <2>1, <2>2, <2>3 DEF SetUp, Go, ServerPCs
  <1>3. CASE SetRunning(s)
    <2>1. isRunning' \in BOOLEAN BY <1>3 DEF SetRunning
    <2>2. TypeOK' BY <1>3, <2>1 DEF SetRunning, Go, TypeOK, ServerPCs
    <2>3. Counts' BY <1>3 DEF SetRunning, Counts
    <2>4. Handles' BY <1>3 DEF SetRunning, Go, Handles, TypeOK
    <2>5. QED BY <1>1, <1>3, <2>2, <2>3, <2>4 DEF SetRunning, Go, ServerPCs
  <1>4. CASE LoopTop(s)
    <2>1. TypeOK' BY <1>4 DEF LoopTop, Go, TypeOK, ServerPCs
    <2>2. Counts' BY <1>4 DEF LoopTop, Counts
    <2>3. Handles' BY <1>4 DEF LoopTop, Go, Handles, TypeOK
    <2>4. QED BY <1>1, <1>4, <2>1, <2>2, <2>3 DEF LoopTop, Go, ServerPCs
  <1>5. CASE Select(s)
    <2>1. PICK p \in {"loop", "recv"} : Go(s, "select", p)
      BY <1>5 DEF Select
    <2>2. pending' \in 0 .. MaxConns /\ pending' <= connected
      BY <1>5 DEF Select, TypeOK, Counts
    <2>3. connection' \in SUBSET Servers /\ error' \in {0, 1}
      BY <1>5 DEF Select, TypeOK, LogError
    <2>4. TypeOK' BY <1>5, <2>1, <2>2, <2>3 DEF Select, Go, TypeOK, ServerPCs
    <2>5. Counts' BY <1>5, <2>2 DEF Select, Counts, TypeOK
    <2>6. Handles' BY <1>5 DEF Select, Go, Handles, TypeOK
    <2>7. QED BY <1>1, <2>1, <2>4, <2>5, <2>6 DEF Go, ServerPCs
  <1>6. CASE Recv(s)
    <2>1. PICK p \in {"recv", "calling", "finish", "overrun"} : Go(s, "recv", p)
      BY <1>6 DEF Recv
    <2>2. chunks' \in [Servers -> 0 .. MaxChunks] /\ error' \in {0, 1}
      BY <1>6 DEF Recv, TypeOK, LogError
    <2>3. /\ UNCHANGED <<fieldVars, callbacks, moving, pushed, failed, ownerVars, netVars>>
          /\ UNCHANGED <<socket, connection, called>>
      BY <1>6 DEF Recv
    <2>4. spc' \in [Servers -> ServerPCs] BY <2>1 DEF Go, TypeOK, ServerPCs
    <2>5. TypeOK' BY <2>2, <2>3, <2>4 DEF TypeOK
    <2>6. Counts' BY <2>3 DEF Counts
    <2>7. Handles' BY <2>1, <2>3 DEF Go, Handles, TypeOK
    <2>8. QED BY <1>1, <2>1, <2>5, <2>6, <2>7 DEF Go, ServerPCs
  <1>7. CASE Calling(s)
    <2>1. PICK p \in {"calling", "send", "fault"} : spc' = [spc EXCEPT ![s] = p]
      BY <1>7 DEF Calling, Go, TypeOK
    <2>2. called' \in [Servers -> 0 .. MaxCallbacks] /\ \A q \in Servers : called'[q] <= pushed
      BY <1>7 DEF Calling, Counts, TypeOK
    <2>3. /\ UNCHANGED <<fieldVars, error, callbacks, moving, pushed, failed, ownerVars, netVars>>
          /\ UNCHANGED <<socket, connection, chunks>>
      BY <1>7 DEF Calling
    <2>4. spc' \in [Servers -> ServerPCs] BY <2>1 DEF TypeOK, ServerPCs
    <2>5. TypeOK' BY <2>2, <2>3, <2>4 DEF TypeOK
    <2>6. Counts' BY <2>2, <2>3 DEF Counts
    <2>7. spc[s] = "calling" BY <1>7 DEF Calling, Go
    <2>8. Handles' BY <2>1, <2>3, <2>7 DEF Handles, TypeOK
    <2>9. QED BY <1>1, <2>1, <2>5, <2>6, <2>7, <2>8 DEF ServerPCs
  <1>8. CASE Send(s)
    <2>1. TypeOK' BY <1>8 DEF Send, Go, LogError, TypeOK, ServerPCs
    <2>2. Counts' BY <1>8 DEF Send, Counts
    <2>3. Handles' BY <1>8 DEF Send, Go, Handles, TypeOK
    <2>4. QED BY <1>1, <1>8, <2>1, <2>2, <2>3 DEF Send, Go, ServerPCs
  <1>9. CASE Finish(s)
    <2>1. TypeOK' BY <1>9 DEF Finish, Go, TypeOK, ServerPCs
    <2>2. Counts' BY <1>9 DEF Finish, Counts
    <2>3. Handles' BY <1>9 DEF Finish, Go, Handles, TypeOK
    <2>4. QED BY <1>1, <1>9, <2>1, <2>2, <2>3 DEF Finish, Go, ServerPCs
  <1>10. CASE Close(s)
    <2>1. TypeOK' BY <1>10 DEF Close, Go, TypeOK, ServerPCs
    <2>2. Counts' BY <1>10 DEF Close, Counts
    <2>3. Handles' BY <1>10 DEF Close, Go, Handles, TypeOK
    <2>4. QED BY <1>1, <1>10, <2>1, <2>2, <2>3 DEF Close, Go, ServerPCs
  <1>11. CASE UnsetRunning(s)
    <2>1. isRunning' \in BOOLEAN BY <1>11 DEF UnsetRunning
    <2>2. TypeOK' BY <1>11, <2>1 DEF UnsetRunning, Go, TypeOK, ServerPCs
    <2>3. Counts' BY <1>11 DEF UnsetRunning, Counts
    <2>4. Handles' BY <1>11 DEF UnsetRunning, Go, Handles, TypeOK
    <2>5. QED BY <1>1, <1>11, <2>2, <2>3, <2>4 DEF UnsetRunning, Go, ServerPCs
  <1>12. CASE MakeAddress(s)
    <2>1. PICK p \in {"bind", "noaddress"} : Go(s, "address", p)
      BY <1>12 DEF MakeAddress
    <2>2. TypeOK' BY <1>12, <2>1 DEF MakeAddress, Go, TypeOK, ServerPCs
    <2>3. Counts' BY <1>12 DEF MakeAddress, Counts
    <2>4. Handles' BY <1>12 DEF MakeAddress, Go, Handles, TypeOK
    <2>5. QED BY <1>1, <2>1, <2>2, <2>3, <2>4 DEF Go, ServerPCs
  <1>13. QED
    BY <1>2, <1>3, <1>4, <1>5, <1>6, <1>7, <1>8, <1>9, <1>10, <1>11, <1>12 DEF ServerStep

\* AnyOwner is inductive.
LEMMA AnyNext == AnyOwner /\ [Next]_vars => AnyOwner'
  <1>1. AnyOwner /\ UNCHANGED vars => AnyOwner'
    BY StartingFrame DEF AnyOwner, vars, fieldVars, ownerVars, serverVars, netVars,
       TypeOK, Counts, Handles
  <1>2. ASSUME AnyOwner, Connect PROVE AnyOwner'
    <2> USE DEF fieldVars, ownerVars, serverVars
    <2>1. TypeOK' BY <1>2, SocketServerAssumption DEF AnyOwner, TypeOK, Counts, Connect,
                     SocketServerAssumption
    <2>2. Counts' BY <1>2 DEF AnyOwner, Counts, Connect, TypeOK
    <2>3. QED BY <1>2, <2>1, <2>2, StartingFrame DEF AnyOwner, Handles, Connect
  <1>3. QED BY <1>1, <1>2, AnyOwnerStep, AnyServerStep DEF Next

-----------------------------------------------------------------------------
(* An owner that is not hasty *)

\* PatientOwner holds at first.
LEMMA PatientInit == Init => PatientOwner
  <1> SUFFICES ASSUME Init PROVE PatientOwner
    OBVIOUS
  <1>1. AnyOwner
    BY AnyInit
  <1>2. \A s \in Servers : spc[s] = "none"
    BY DEF Init
  <1>3. OneThread /\ NoFault
    BY <1>2 DEF OneThread, NoFault, Active
  <1>4. RunningFlag
    BY <1>2 DEF Init, RunningFlag, Serving
  <1>5. Stopping
    BY DEF Init, Stopping
  <1>6. QED BY <1>1, <1>3, <1>4, <1>5 DEF PatientOwner

\* With a patient owner, IsRunning not set means that no thread is left.
LEMMA NoneActive ==
    ASSUME PatientOwner, ~Hasty, Settled, ~isRunning
    PROVE  \A s \in Servers : ~Active(s)
  BY DEF Settled, PatientOwner, RunningFlag

\* A step of the owner that leaves the threads alone.
LEMMA ThreadsFrame ==
    ASSUME UNCHANGED spc
    PROVE  /\ UNCHANGED isRunning /\ RunningFlag => RunningFlag'
           /\ \A s \in Servers : Active(s)' <=> Active(s)
           /\ Crashed' <=> Crashed
  BY DEF RunningFlag, Serving, Active, Crashed

\* The owner's calls, when the owner is not hasty.
LEMMA PatientOwnerStep ==
    ASSUME PatientOwner, ~Hasty, OwnerCall \/ OwnerStep
    PROVE  OneThread' /\ NoFault' /\ RunningFlag' /\ Stopping'
  <1> USE DEF fieldVars, ownerVars, serverVars, netVars
  <1> TypeOK /\ Counts /\ OneThread /\ NoFault /\ RunningFlag /\ Stopping
    BY DEF PatientOwner, AnyOwner
  <1>1. CASE ServerStart
    <2>1. CASE isRunning
      BY <1>1, <2>1, ThreadsFrame DEF ServerStart, OneThread, NoFault, Stopping
    <2>2. CASE ~isRunning
      <3>1. \A s \in Servers : ~Active(s)
        BY <1>1, <2>2, NoneActive DEF ServerStart
      <3>2. /\ thread' = Starting + 1 /\ thread' \in Servers
            /\ spc' = [spc EXCEPT ![thread'] = "socket"]
            /\ mutex' = "live" /\ pushed > 0 /\ server = "live" /\ opc = "idle"
            /\ UNCHANGED <<server, opc, pushed, failed, callbacks, needToStop, isRunning, called>>
            /\ ~Crashed
        BY <1>1, <2>2, StartingNext
           DEF ServerStart, Ready, PatientOwner, AnyOwner, ServerPCs
      <3>3. OneThread' BY <3>1, <3>2 DEF OneThread, Active, Crashed, TypeOK
      <3>4. NoFault' BY <3>2 DEF NoFault, TypeOK
      <3>5. RunningFlag' BY <2>2, <3>2 DEF RunningFlag, Serving, TypeOK
      <3>6. Stopping' BY <3>2 DEF Stopping
      <3>7. QED BY <3>3, <3>4, <3>5, <3>6
    <2>3. QED BY <2>1, <2>2
  <1>2. CASE ServerNew
    BY <1>2, ThreadsFrame DEF ServerNew, OneThread, NoFault, Stopping
  <1>3. CASE PushCallback
    BY <1>3, ThreadsFrame DEF PushCallback, Ready, Crashed, OneThread, NoFault, Stopping
  <1>4. CASE GetLastError
    BY <1>4, ThreadsFrame DEF GetLastError, Ready, OneThread, NoFault, Stopping
  <1>5. CASE ServerStop
    BY <1>5, ThreadsFrame DEF ServerStop, Ready, OneThread, NoFault, Stopping
  <1>6. CASE ServerFree
    <2>1. CASE isRunning
      <3>1. mutex = "live"
        BY <1>6, <2>1 DEF ServerFree, Ready, Crashed, RunningFlag, Serving, Active, OneThread
      <3>2. QED
        BY <1>6, <2>1, <3>1, ThreadsFrame DEF ServerFree, Ready, OneThread, NoFault, Stopping
    <2>2. CASE ~isRunning
      <3>1. \A s \in Servers : ~Active(s)
        BY <1>6, <2>2, NoneActive DEF ServerFree
      <3>2. QED
        BY <1>6, <2>2, <3>1, ThreadsFrame DEF ServerFree, Ready, OneThread, NoFault, Stopping
    <2>3. QED BY <2>1, <2>2
  <1>7. CASE PushReturn
    <2>1. \A s \in Servers : ~Active(s)
      BY <1>7 DEF PushReturn, OneThread
    <2>2. QED
      BY <1>7, <2>1, ThreadsFrame DEF PushReturn, OneThread, NoFault, Stopping, Active
  <1>8. CASE GetLastErrorReturn
    BY <1>8, ThreadsFrame DEF GetLastErrorReturn, OneThread, NoFault, Stopping
  <1>9. CASE StopFlag
    BY <1>9, ThreadsFrame DEF StopFlag, OneThread, NoFault, Stopping
  <1>10. CASE StopJoin
    <2>1. \A s \in Servers : ~Active(s)
      BY <1>10 DEF StopJoin, Ended, OneThread, Active
    <2>2. QED
      BY <1>10, <2>1, ThreadsFrame DEF StopJoin, OneThread, NoFault, Stopping
  <1>11. CASE StopReturn
    <2>1. \A s \in Servers : ~Active(s)
      BY <1>11 DEF StopReturn, OneThread
    <2>2. QED
      BY <1>11, <2>1, ThreadsFrame DEF StopReturn, OneThread, NoFault, Stopping
  <1>12. CASE FreeReturn
    <2>1. \A s \in Servers : ~Active(s)
      BY <1>12 DEF FreeReturn, OneThread
    <2>2. QED
      BY <1>12, <2>1, ThreadsFrame DEF FreeReturn, OneThread, NoFault, Stopping
  <1>13. CASE PushFail
    BY <1>13, ThreadsFrame DEF PushFail, OneThread, NoFault, Stopping
  <1>14. QED
    BY <1>1, <1>2, <1>3, <1>4, <1>5, <1>6, <1>7, <1>8, <1>9, <1>10, <1>11, <1>12, <1>13
       DEF OwnerCall, OwnerStep

\* A thread that goes from one place in its loop to another one, or from one
\* place before its loop to another one or to its end.
LEMMA PatientMove ==
    ASSUME PatientOwner, NEW s \in Servers, NEW p \in ServerPCs \ {"none"},
           p = "fault" => failed /\ callbacks = 0, Active(s), spc' = [spc EXCEPT ![s] = p],
           Serving(s)' <=> Serving(s), ~failed /\ p = "send" => called'[s] = pushed,
           \A q \in Servers \ {s} : called'[q] = called[q],
           ServerFrame, UNCHANGED isRunning
    PROVE  OneThread' /\ NoFault' /\ RunningFlag' /\ Stopping'
  <1> USE DEF ServerFrame, ownerVars
  <1> TypeOK /\ OneThread /\ NoFault /\ RunningFlag /\ Stopping
    BY DEF PatientOwner, AnyOwner
  <1>1. \A q \in Servers : Active(q)' => Active(q)
    BY DEF Active, TypeOK
  <1>2. OneThread'
    <2>1. ASSUME NEW q \in Servers, Active(q)' PROVE ~Crashed'
      <3>1. q = thread /\ s = thread /\ ~Crashed BY <1>1, <2>1 DEF OneThread
      <3>2. QED BY <2>1, <3>1 DEF Crashed, Active, TypeOK
    <2>2. QED BY <1>1, <2>1 DEF OneThread
  <1>3. NoFault' BY DEF NoFault, TypeOK, OneThread
  <1>4. \A q \in Servers : Serving(q)' <=> Serving(q)
    BY DEF Serving, TypeOK
  <1>5. RunningFlag' BY <1>4 DEF RunningFlag
  <1>6. Stopping' BY DEF Stopping
  <1>7. QED BY <1>2, <1>3, <1>5, <1>6

\* The steps of a server thread.
LEMMA PatientServerStep ==
    ASSUME PatientOwner, NEW s \in Servers, ServerStep(s)
    PROVE  OneThread' /\ NoFault' /\ RunningFlag' /\ Stopping'
  <1> USE DEF Go
  <1> TypeOK /\ Counts /\ OneThread /\ NoFault /\ RunningFlag /\ Stopping
    BY DEF PatientOwner, AnyOwner
  <1>1. ASSUME NEW p \in ServerPCs \ {"none"},
               p = "fault" => failed /\ callbacks = 0, Active(s),
               spc' = [spc EXCEPT ![s] = p], Serving(s)' <=> Serving(s),
               ~failed /\ p = "send" => called'[s] = pushed,
               \A q \in Servers \ {s} : called'[q] = called[q],
               ServerFrame, UNCHANGED isRunning
        PROVE  OneThread' /\ NoFault' /\ RunningFlag' /\ Stopping'
    BY <1>1, PatientMove
  <1> USE DEF Active, Serving, ServerPCs, TypeOK
  <1>2. ASSUME NEW from \in {"socket", "bind", "listen"},
               NEW to \in {"address", "listen", "running"}, SetUp(s, from, to)
        PROVE  OneThread' /\ NoFault' /\ RunningFlag' /\ Stopping'
    BY <1>1, <1>2 DEF SetUp
  <1>3. CASE SetRunning(s)
    <2>1. \A q \in Servers : Active(q)' <=> Active(q)
      BY <1>3 DEF SetRunning
    <2>2. Serving(s)' /\ isRunning' = TRUE
      BY <1>3 DEF SetRunning
    <2>3. Crashed' <=> Crashed
      BY <1>3 DEF SetRunning, Crashed
    <2>4. QED
      BY <1>3, <2>1, <2>2, <2>3 DEF SetRunning, ServerFrame, ownerVars, OneThread, NoFault,
         RunningFlag, Stopping
  <1>4. CASE LoopTop(s) BY <1>1, <1>4 DEF LoopTop
  <1>5. CASE Select(s) BY <1>1, <1>5 DEF Select
  <1>6. CASE Recv(s) BY <1>1, <1>6 DEF Recv
  <1>7. CASE Calling(s)
    <2>1. ~moving /\ called[s] <= pushed /\ (failed \/ callbacks = pushed) /\ pushed > 0
      <3>1. pushed > 0 /\ opc # "push"
        BY <1>7 DEF Calling, OneThread
      <3>2. ~moving
        BY <3>1, Zenon DEF Counts
      <3>3. QED BY <3>1, <3>2 DEF Counts
    <2>2. CASE Go(s, "calling", "fault") /\ callbacks = 0 /\ UNCHANGED called
      <3>1. failed BY <2>1, <2>2
      <3>2. QED BY <1>1, <1>7, <2>2, <3>1, Zenon DEF Calling
    <2>3. CASE called[s] < callbacks /\ called' = [called EXCEPT ![s] = @ + 1] /\ UNCHANGED spc
      <3>1. spc[s] = "calling" /\ spc' = [spc EXCEPT ![s] = "calling"]
        BY <1>7, <2>3 DEF Calling
      <3>2. QED BY <1>1, <1>7, <2>3, <3>1 DEF Calling
    <2>4. CASE Go(s, "calling", "send") /\ called[s] >= callbacks /\ UNCHANGED called
      <3>1. ~failed => called'[s] = pushed
        BY <2>1, <2>4
      <3>2. QED BY <1>1, <1>7, <2>4, <3>1 DEF Calling
    <2>5. QED BY <1>7, <2>1, <2>2, <2>3, <2>4 DEF Calling
  <1>8. CASE Send(s) BY <1>1, <1>8 DEF Send
  <1>9. CASE Finish(s) BY <1>1, <1>9 DEF Finish
  <1>10. CASE Close(s) BY <1>1, <1>10 DEF Close
  <1>11. CASE UnsetRunning(s)
    <2>1. \A q \in Servers : ~Active(q)'
      BY <1>11 DEF UnsetRunning, OneThread
    <2>2. \A q \in Servers : ~Serving(q)'
      BY <1>11, <2>1 DEF UnsetRunning, OneThread, Crashed
    <2>3. QED
      BY <1>11, <2>1, <2>2 DEF UnsetRunning, ServerFrame, ownerVars, OneThread, NoFault,
         RunningFlag, Stopping
  <1>12. CASE MakeAddress(s) BY <1>1, <1>12 DEF MakeAddress
  <1>13. QED
    BY <1>2, <1>3, <1>4, <1>5, <1>6, <1>7, <1>8, <1>9, <1>10, <1>11, <1>12 DEF ServerStep

\* PatientOwner is inductive.
LEMMA PatientNext == PatientOwner /\ ~Hasty /\ [Next]_vars => PatientOwner'
  <1> SUFFICES ASSUME PatientOwner, ~Hasty, [Next]_vars
               PROVE  OneThread' /\ NoFault' /\ RunningFlag' /\ Stopping'
    BY AnyNext DEF PatientOwner
  <1>1. CASE UNCHANGED vars \/ Connect
    <2>1. UNCHANGED <<fieldVars, callbacks, pushed, failed, ownerVars, serverVars>>
      BY <1>1 DEF vars, Connect
    <2>2. QED
      BY <2>1, ThreadsFrame DEF PatientOwner, fieldVars, ownerVars, serverVars,
         OneThread, NoFault, Stopping
  <1>2. QED BY <1>1, PatientOwnerStep, PatientServerStep DEF Next

-----------------------------------------------------------------------------
(* The theorems *)

\* Whatever the owner does, and whatever fails: a thread has its socket and its
\* connection exactly between the calls that open and close them, so that of the
\* threads that have returned only the one that got no address from inet_pton
\* has a socket; and the array holds what was pushed until a push fails.
THEOREM AnyOwnerInvariant == Spec => []AnyOwner
  BY AnyInit, AnyNext, PTL DEF Spec

\* With an owner that is not hasty the whole invariant holds.
THEOREM PatientOwnerInvariant == ~Hasty => (Spec => []PatientOwner)
  <1> SUFFICES ASSUME ~Hasty PROVE Spec => []PatientOwner
    OBVIOUS
  <1>1. PatientOwner /\ [Next]_vars => PatientOwner'
    BY PatientNext
  <1>2. QED BY <1>1, PatientInit, PTL DEF Spec

\* socket_server_free stops the server it frees: an owner that has seen the
\* thread run or end frees the struct only when no thread is left that uses
\* it, also after a stop, a start that failed, or a stop before IsRunning.
THEOREM FreeStopsAlways == ~Hasty => (Spec => []FreeStops)
  <1> SUFFICES ASSUME ~Hasty PROVE Spec => []FreeStops
    OBVIOUS
  <1>1. PatientOwner => FreeStops
    BY DEF PatientOwner, OneThread, FreeStops
  <1>2. QED BY <1>1, PatientOwnerInvariant, PTL

\* A thread of the server has a mutex that socket_server_stop has not freed,
\* no two threads serve, and every path through socket_server_main_loop to its
\* end closes the connection and, but for a failed inet_pton, the socket.
THEOREM ResourcesExactAlways == ~Hasty => (Spec => []ResourcesExact)
  <1> SUFFICES ASSUME ~Hasty PROVE Spec => []ResourcesExact
    OBVIOUS
  <1>1. PatientOwner => ResourcesExact
    <2> SUFFICES ASSUME PatientOwner PROVE ResourcesExact
      OBVIOUS
    <2>1. {s \in Servers : Active(s)} \subseteq {thread}
      BY DEF PatientOwner, OneThread
    <2>2. IsFiniteSet({thread}) /\ Cardinality({thread}) = 1
      BY FS_Singleton
    <2>3. Cardinality({s \in Servers : Active(s)}) <= 1
      BY <2>1, <2>2, FS_Subset
    <2>4. QED
      BY <2>3 DEF PatientOwner, AnyOwner, OneThread, Handles, Ended, ResourcesExact
  <1>2. QED BY <1>1, PatientOwnerInvariant, PTL

\* As long as every push has returned true, every connection's data goes to every
\* callback that was pushed; the thread finds no array to call from only after a
\* push that returned false.
THEOREM CallbacksAllRunAlways == ~Hasty => (Spec => []CallbacksAllRun)
  <1> SUFFICES ASSUME ~Hasty PROVE Spec => []CallbacksAllRun
    OBVIOUS
  <1>1. PatientOwner => CallbacksAllRun
    BY DEF PatientOwner, NoFault, CallbacksAllRun
  <1>2. QED BY <1>1, PatientOwnerInvariant, PTL

\* IsRunning, read without the mutex, says exactly whether a thread serves,
\* and a server that was stopped can be started again.
THEOREM FlagsExactAlways == ~Hasty => (Spec => []FlagsExact)
  <1> SUFFICES ASSUME ~Hasty PROVE Spec => []FlagsExact
    OBVIOUS
  <1>1. PatientOwner => FlagsExact
    BY DEF PatientOwner, AnyOwner, OneThread, RunningFlag, Stopping, FlagsExact
  <1>2. QED BY <1>1, PatientOwnerInvariant, PTL

=============================================================================
