-------------------------- MODULE ThreadPoolProofs --------------------------
(***************************************************************************)
(* Proofs about ThreadPool, for any number of workers, clients and works.  *)
(* First what the queues hold and who runs what, with the inductive        *)
(* invariant PoolInv; then the life of a pool: when its queues exist, when *)
(* its workers are registered, what threadpool_wait gives a client, what   *)
(* threadpool_release leaves behind, and that the pool implements          *)
(* WorkLedger.                                                             *)
(***************************************************************************)
EXTENDS ThreadPool, FiniteSetTheorems, TLAPS

-----------------------------------------------------------------------------
(* Indices *)

\* What the proofs need of the worker indices 0 .. WorkersCount - 1.
LEMMA IdxFacts ==
    /\ 0 \in Idx
    /\ WorkersCount > 1 => 1 \in Idx
    /\ \A n \in Idx : n + 1 < WorkersCount => n + 1 \in Idx
    /\ \A n \in Idx : n + 1 # WorkersCount => n + 1 \in Idx
  BY PoolAssumption DEF Idx, PoolAssumption

\* Reductions modulo a positive number: the round robin and the victims of
\* threadpool_try_steal stay inside the array of workers.
LEMMA ModRange ==
    ASSUME NEW a \in Int, NEW b \in Nat \ {0}
    PROVE  a % b \in 0 .. (b - 1)
  OBVIOUS

LEMMA TargetInRange ==
    ASSUME PoolType, NEW t \in Threads
    PROVE  Target(t) \in Idx /\ NextSubmit \in 0 .. (SubmitModulus - 1)
  <1>1. submit_rr + 1 \in Int /\ WorkersCount \in Nat \ {0} /\ SubmitModulus \in Nat \ {0}
    BY PoolAssumption DEF PoolType, PoolAssumption
  <1>2. NextSubmit \in 0 .. (SubmitModulus - 1)
    BY <1>1, ModRange DEF NextSubmit
  <1>3. NextSubmit % WorkersCount \in Idx
    BY <1>1, <1>2, ModRange DEF Idx
  <1>4. QED BY <1>2, <1>3 DEF Target

LEMMA VictimInRange ==
    ASSUME WorkerType, NEW i \in Idx
    PROVE  Victim(i) \in Idx
  <1>1. i + off[i] \in Int /\ WorkersCount \in Nat \ {0}
    BY PoolAssumption DEF WorkerType, Idx, PoolAssumption
  <1>2. QED BY <1>1, ModRange DEF Victim, Idx

-----------------------------------------------------------------------------
(* What the threads hold *)

\* threadpool_init starts the workers one by one, in the order of their index.
Startup ==
    /\ phase \in {"none", "queues", "failed"} => \A i \in Idx : wpc[i] = "unborn"
    /\ phase = "start" => \A i \in Idx : i >= k => wpc[i] = "unborn"

\* A worker holds a work exactly in work_execute, and a thread that is inside
\* threadpool_work_add is in a work function or, for a client, between calls.
\* TypeOK is not inductive without it: a function passes on waiter[work[i]].
Hands ==
    /\ \A i \in Idx : wpc[i] \in {"exec", "run", "free"} <=> work[i] # NoWork
    /\ \A i \in Idx : submit[i] # NoWork => wpc[i] = "run"
    /\ \A c \in Clients : submit[c] # NoWork => cpc[c] = "idle"

-----------------------------------------------------------------------------
(* Type correctness *)

LEMMA TypeInit == Init => TypeOK
  <1> SUFFICES ASSUME Init PROVE TypeOK
    OBVIOUS
  <1> USE PoolAssumption DEF Init, PoolAssumption
  <1>1. PoolType
    <2>1. phase \in Phases /\ k \in Idx BY IdxFacts DEF Phases
    <2>2. submit_rr \in 0 .. (SubmitModulus - 1) OBVIOUS
    <2>3. stop \in BOOLEAN OBVIOUS
    <2>4. QED BY <2>1, <2>2, <2>3 DEF PoolType
  <1>2. WorkerType
    <2>1. wpc \in [Idx -> WorkerPCs] BY DEF WorkerPCs
    <2>2. off \in [Idx -> Idx] BY IdxFacts
    <2>3. QED BY <2>1, <2>2 DEF WorkerType
  <1>3. ClientType
    BY IdxFacts DEF ClientType, ClientPCs
  <1>4. adder \in [Works -> Threads]
    BY DEF Threads
  <1>5. WorkType
    BY <1>4 DEF WorkType, Fates
  <1>6. QED BY <1>1, <1>2, <1>3, <1>5 DEF TypeOK

\* A part of the state that a step leaves alone keeps its type.
LEMMA TypeFrame ==
    /\ PoolType /\ UNCHANGED poolVars => PoolType'
    /\ WorkerType /\ UNCHANGED workerVars => WorkerType'
    /\ ClientType /\ UNCHANGED clientVars => ClientType'
    /\ WorkType /\ UNCHANGED workVars => WorkType'
  BY DEF PoolType, poolVars, WorkerType, workerVars, ClientType, clientVars,
         WorkType, workVars

LEMMA TypeWorkNew ==
    ASSUME WorkType, NEW t \in Threads, NEW wt \in Waiters \union {NoWaiter},
           WorkNew(t, wt)
    PROVE  WorkType'
  BY PoolAssumption DEF WorkType, WorkNew, PoolAssumption, Works

LEMMA TypeWorkFree ==
    ASSUME WorkType, NEW w \in Works, WorkFree(w)
    PROVE  heap' \in SUBSET Works /\ counter' \in [Waiters -> Int]
  BY DEF WorkType, WorkFree

LEMMA TypeTryDequeue ==
    ASSUME TypeOK, NEW i \in Idx, NEW j \in Idx, TryDequeue(i, j)
    PROVE  TypeOK'
  <1>1. PICK w \in queue[j] :
            /\ queue' = [queue EXCEPT ![j] = @ \ {w}]
            /\ work' = [work EXCEPT ![i] = w]
            /\ wpc' = [wpc EXCEPT ![i] = "exec"]
            /\ off' = [off EXCEPT ![i] = 0]
            /\ UNCHANGED <<poolVars, working, clientVars, workVars>>
    BY DEF TryDequeue
  <1>2. w \in Works
    BY DEF TypeOK
  <1>3. WorkerType'
    BY <1>1, <1>2, IdxFacts DEF TypeOK, WorkerType, WorkerPCs
  <1>4. queue' \in [Idx -> SUBSET Works]
    BY <1>1 DEF TypeOK
  <1>5. QED BY <1>1, <1>3, <1>4, TypeFrame DEF TypeOK

LEMMA TypeEnqueue ==
    ASSUME TypeOK, NEW t \in Threads, WorkEnqueue(t)
    PROVE  TypeOK'
  <1>1. submit[t] \in Works
    BY DEF TypeOK, WorkType, WorkEnqueue
  <1>2. PoolType'
    BY TargetInRange DEF TypeOK, PoolType, WorkEnqueue
  <1>3. queue' \in [Idx -> SUBSET Works]
    BY <1>1 DEF TypeOK, WorkEnqueue
  <1>4. WorkType'
    BY <1>1, TypeWorkFree DEF TypeOK, WorkType, WorkEnqueue, Fates, NoWork
  <1>5. QED BY <1>2, <1>3, <1>4, TypeFrame DEF TypeOK, WorkEnqueue

LEMMA TypeOwner == TypeOK /\ OwnerNext => TypeOK'
  <1> SUFFICES ASSUME TypeOK, OwnerNext PROVE TypeOK'
    OBVIOUS
  <1> USE DEF TypeOK
  <1>1. CASE InitAlloc
    <2>1. PoolType' BY <1>1 DEF PoolType, InitAlloc, Phases
    <2>2. QED BY <1>1, <2>1, TypeFrame DEF InitAlloc
  <1>2. CASE InitQueue
    <2>1. phase' \in Phases /\ k' \in Idx
      BY <1>2, IdxFacts DEF PoolType, InitQueue, Phases
    <2>2. queues' \in SUBSET Idx BY <1>2 DEF PoolType, InitQueue
    <2>3. PoolType' BY <1>2, <2>1, <2>2 DEF PoolType, InitQueue
    <2>4. QED BY <1>2, <2>3, TypeFrame DEF InitQueue
  <1>3. CASE InitStart
    <2>1. PoolType' BY <1>3, IdxFacts DEF PoolType, InitStart, Phases
    <2>2. WorkerType' BY <1>3 DEF WorkerType, InitStart, WorkerPCs
    <2>3. QED BY <1>3, <2>1, <2>2, TypeFrame DEF InitStart
  <1>4. CASE InitReturn
    <2>1. PoolType' BY <1>4 DEF PoolType, InitReturn, Phases
    <2>2. QED BY <1>4, <2>1, TypeFrame DEF InitReturn
  <1>5. CASE Release
    <2>1. PoolType' BY <1>5, IdxFacts DEF PoolType, Release, Phases
    <2>2. QED BY <1>5, <2>1, TypeFrame DEF Release
  <1>6. CASE ReleaseJoin
    <2>1. PoolType' BY <1>6, IdxFacts DEF PoolType, ReleaseJoin, Phases
    <2>2. QED BY <1>6, <2>1, TypeFrame DEF ReleaseJoin
  <1>7. CASE ReleaseDrain
    <2>1. PICK w \in queue[k] :
              /\ queue' = [queue EXCEPT ![k] = @ \ {w}]
              /\ WorkFree(w)
              /\ fate' = [fate EXCEPT ![w] = "dropped"]
      BY <1>7 DEF ReleaseDrain
    <2>2. w \in Works BY DEF PoolType
    <2>3. WorkType'
      BY <1>7, <2>1, <2>2, TypeWorkFree DEF ReleaseDrain, WorkType, Fates
    <2>4. queue' \in [Idx -> SUBSET Works] BY <2>1
    <2>5. QED BY <1>7, <2>3, <2>4, TypeFrame DEF ReleaseDrain
  <1>8. CASE ReleaseDestroy
    <2>1. PoolType' BY <1>8, IdxFacts DEF PoolType, ReleaseDestroy, Phases
    <2>2. QED BY <1>8, <2>1, TypeFrame DEF ReleaseDestroy
  <1>9. QED
    BY <1>1, <1>2, <1>3, <1>4, <1>5, <1>6, <1>7, <1>8 DEF OwnerNext

LEMMA TypeWorker == ASSUME TypeOK, Hands, NEW i \in Idx, WorkerNext(i) PROVE TypeOK'
  <1> USE DEF TypeOK
  <1> i \in Threads
    BY DEF Threads
  <1>1. CASE WorkerStart(i)
    <2>1. PoolType' BY <1>1 DEF PoolType, WorkerStart
    <2>2. WorkerType' BY <1>1 DEF WorkerType, WorkerStart, WorkerPCs
    <2>3. QED BY <1>1, <2>1, <2>2, TypeFrame DEF WorkerStart
  <1>2. CASE WorkerCheckStop(i)
    <2>1. WorkerType' BY <1>2 DEF WorkerType, WorkerCheckStop, WorkerPCs
    <2>2. QED BY <1>2, <2>1, TypeFrame DEF WorkerCheckStop
  <1>3. CASE WorkerOwn(i)
    <2>1. CASE TryDequeue(i, i) BY <2>1, TypeTryDequeue
    <2>2. CASE ~TryDequeue(i, i)
      <3>1. WorkerType'
        BY <1>3, <2>2, IdxFacts DEF WorkerType, WorkerOwn, WorkerPCs
      <3>2. QED BY <1>3, <2>2, <3>1, TypeFrame DEF WorkerOwn
    <2>3. QED BY <2>1, <2>2
  <1>4. CASE WorkerSteal(i)
    <2>1. CASE TryDequeue(i, Victim(i)) BY <2>1, TypeTryDequeue, VictimInRange
    <2>2. CASE ~TryDequeue(i, Victim(i))
      <3>1. WorkerType'
        BY <1>4, <2>2, IdxFacts DEF WorkerType, WorkerSteal, WorkerPCs
      <3>2. QED BY <1>4, <2>2, <3>1, TypeFrame DEF WorkerSteal
    <2>3. QED BY <2>1, <2>2
  <1>5. CASE WorkerExecute(i)
    <2>1. WorkerType' BY <1>5 DEF WorkerType, WorkerExecute, WorkerPCs
    <2>2. WorkType' BY <1>5 DEF WorkType, WorkerExecute, Fates
    <2>3. QED BY <1>5, <2>1, <2>2, TypeFrame DEF WorkerExecute
  <1>6. CASE WorkerReturn(i)
    <2>1. WorkerType' BY <1>6 DEF WorkerType, WorkerReturn, WorkerPCs
    <2>2. WorkType' BY <1>6 DEF WorkType, WorkerReturn, Fates
    <2>3. QED BY <1>6, <2>1, <2>2, TypeFrame DEF WorkerReturn
  <1>7. CASE WorkerFree(i)
    <2>1. WorkerType' BY <1>7 DEF WorkerType, WorkerFree, WorkerPCs
    <2>2. work[i] \in Works BY <1>7 DEF WorkerFree, Hands, WorkerType
    <2>3. WorkType' BY <1>7, <2>2, TypeWorkFree DEF WorkType, WorkerFree
    <2>4. QED BY <1>7, <2>1, <2>3, TypeFrame DEF WorkerFree
  <1>8. CASE WorkerLeave(i)
    <2>1. PoolType' BY <1>8 DEF PoolType, WorkerLeave
    <2>2. WorkerType' BY <1>8 DEF WorkerType, WorkerLeave, WorkerPCs
    <2>3. QED BY <1>8, <2>1, <2>2, TypeFrame DEF WorkerLeave
  <1>9. CASE WorkerWorkAdd(i)
    <2>1. PICK wt \in {waiter[work[i]], NoWaiter} : WorkNew(i, wt)
      BY <1>9 DEF WorkerWorkAdd
    <2>2. waiter[work[i]] \in Waiters \union {NoWaiter}
      BY <1>9 DEF WorkerWorkAdd, Hands, WorkerType, WorkType
    <2>3. WorkType' BY <2>1, <2>2, TypeWorkNew
    <2>4. UNCHANGED <<poolVars, queue, workerVars, clientVars>>
      BY <1>9, <2>1 DEF WorkNew, WorkerWorkAdd, clientVars
    <2>5. QED BY <2>3, <2>4, TypeFrame
  <1>10. CASE WorkEnqueue(i) BY <1>10, TypeEnqueue
  <1>11. QED
    BY <1>1, <1>2, <1>3, <1>4, <1>5, <1>6, <1>7, <1>8, <1>9, <1>10 DEF WorkerNext

LEMMA TypeClient == ASSUME TypeOK, NEW c \in Clients, ClientNext(c) PROVE TypeOK'
  <1> USE DEF TypeOK
  <1> c \in Threads
    BY DEF Threads
  <1>1. CASE ClientWorkAdd(c)
    <2>1. PICK wt \in {c, NoWaiter} : WorkNew(c, wt)
      BY <1>1 DEF ClientWorkAdd
    <2>2. WorkType' BY <2>1, TypeWorkNew DEF Waiters
    <2>3. UNCHANGED <<poolVars, queue, workerVars, scan>>
      BY <2>1 DEF WorkNew
    <2>4. ClientType' BY <1>1, <2>3 DEF ClientWorkAdd, ClientType, ClientPCs
    <2>5. QED BY <2>2, <2>3, <2>4, TypeFrame
  <1>2. CASE WorkEnqueue(c) BY <1>2, TypeEnqueue
  <1>3. ASSUME UNCHANGED <<poolVars, queue, workerVars, workVars>>, ClientType'
        PROVE  TypeOK'
    BY <1>3, TypeFrame
  <1>4. CASE WaiterWait(c)
    BY <1>3, <1>4 DEF WaiterWait, ClientStep, ClientType, ClientPCs
  <1>5. CASE WaiterReturn(c)
    BY <1>3, <1>5 DEF WaiterReturn, ClientStep, ClientType, ClientPCs
  <1>6. CASE PoolWait(c)
    BY <1>3, <1>6 DEF PoolWait, ClientStep, ClientType, ClientPCs
  <1>7. CASE PoolWaitLoad(c)
    BY <1>3, <1>7 DEF PoolWaitLoad, ClientStep, ClientType, ClientPCs
  <1>8. CASE PoolWaitScan(c)
    <2>1. cpc' \in [Clients -> ClientPCs]
      BY <1>8 DEF PoolWaitScan, ClientStep, ClientType, ClientPCs
    <2>2. scan' \in [Clients -> Idx]
      BY <1>8, IdxFacts DEF PoolWaitScan, ClientType
    <2>3. UNCHANGED <<poolVars, queue, workerVars, workVars>>
      BY <1>8 DEF PoolWaitScan, ClientStep
    <2>4. QED BY <1>3, <2>1, <2>2, <2>3 DEF ClientType
  <1>9. QED
    BY <1>1, <1>2, <1>4, <1>5, <1>6, <1>7, <1>8 DEF ClientNext

LEMMA TypeNext == TypeOK /\ Hands /\ [Next]_vars => TypeOK'
  <1>1. TypeOK /\ UNCHANGED vars => TypeOK'
    BY TypeFrame DEF TypeOK, vars
  <1>2. QED BY <1>1, TypeOwner, TypeWorker, TypeClient DEF Next

LEMMA StartupInit == Init => Startup
  BY DEF Init, Startup

LEMMA StartupNext == TypeOK /\ Startup /\ [Next]_vars => Startup'
  <1> SUFFICES ASSUME TypeOK, Startup, [Next]_vars PROVE Startup'
    OBVIOUS
  <1> USE DEF Startup
  <1>1. CASE UNCHANGED <<phase, k, wpc>> BY <1>1
  <1>2. CASE OwnerNext
    <2> USE DEF workerVars, poolVars
    <2>1. CASE InitAlloc BY <2>1 DEF InitAlloc
    <2>2. CASE InitQueue BY <2>2 DEF InitQueue
    <2>3. CASE InitStart
      BY <2>3 DEF InitStart, TypeOK, PoolType, WorkerType, Idx
    <2>4. CASE InitReturn BY <2>4 DEF InitReturn
    <2>5. CASE Release BY <2>5 DEF Release
    <2>6. CASE ReleaseJoin BY <2>6 DEF ReleaseJoin
    <2>7. CASE ReleaseDrain BY <2>7 DEF ReleaseDrain
    <2>8. CASE ReleaseDestroy BY <2>8 DEF ReleaseDestroy
    <2>9. QED
      BY <1>2, <2>1, <2>2, <2>3, <2>4, <2>5, <2>6, <2>7, <2>8 DEF OwnerNext
  <1>3. ASSUME NEW i \in Idx, WorkerNext(i) PROVE Startup'
    <2>1. UNCHANGED <<phase, k>>
      BY <1>3 DEF WorkerNext, WorkerStart, WorkerCheckStop, WorkerOwn, WorkerSteal,
         TryDequeue, WorkerExecute, WorkerReturn, WorkerFree, WorkerLeave,
         WorkerWorkAdd, WorkNew, WorkEnqueue, poolVars
    <2>2. \A j \in Idx : wpc[j] = "unborn" => wpc'[j] = "unborn"
      BY <1>3 DEF WorkerNext, WorkerStart, WorkerCheckStop, WorkerOwn, WorkerSteal,
         TryDequeue, WorkerExecute, WorkerReturn, WorkerFree, WorkerLeave,
         WorkerWorkAdd, WorkNew, WorkEnqueue, workerVars, TypeOK, WorkerType
    <2>3. QED BY <2>1, <2>2
  <1>4. ASSUME NEW c \in Clients, ClientNext(c) PROVE Startup'
    BY <1>1, <1>4 DEF ClientNext, ClientWorkAdd, WorkNew, WorkEnqueue, WaiterWait,
       WaiterReturn, PoolWait, PoolWaitLoad, PoolWaitScan, ClientStep, poolVars, workerVars
  <1>5. QED BY <1>1, <1>2, <1>3, <1>4 DEF Next, vars, poolVars, workerVars

LEMMA HandsInit == Init => Hands
  BY DEF Init, Hands, Threads

LEMMA HandsNext == TypeOK /\ Startup /\ Hands /\ [Next]_vars => Hands'
  <1> SUFFICES ASSUME TypeOK, Startup, Hands, [Next]_vars PROVE Hands'
    OBVIOUS
  <1> USE DEF Hands
  <1> Idx \subseteq Threads /\ Clients \subseteq Threads /\ Idx \intersect Clients = {}
    BY PoolAssumption DEF Threads, Idx, PoolAssumption
  <1>1. CASE UNCHANGED <<wpc, work, submit, cpc>> BY <1>1
  <1>2. CASE OwnerNext
    <2>1. CASE InitStart
      <3>1. wpc[k] = "unborn"
        BY <2>1 DEF InitStart, TypeOK, PoolType, Startup, Idx
      <3>2. QED BY <2>1, <3>1 DEF InitStart, TypeOK, PoolType, WorkerType, clientVars, workVars
    <2>2. CASE ~InitStart
      BY <1>2, <2>2 DEF OwnerNext, InitAlloc, InitQueue, InitReturn, Release,
         ReleaseJoin, ReleaseDrain, ReleaseDestroy, workerVars, clientVars, workVars
    <2>3. QED BY <2>1, <2>2
  <1>3. ASSUME NEW i \in Idx, WorkerNext(i) PROVE Hands'
    <2> USE DEF TypeOK, WorkerType, WorkType, workerVars, clientVars, workVars
    <2>1. CASE WorkerStart(i) BY <2>1 DEF WorkerStart
    <2>2. CASE WorkerCheckStop(i) BY <2>2 DEF WorkerCheckStop
    <2>3. ASSUME NEW j \in Idx, TryDequeue(i, j), wpc[i] \in {"own", "steal"} PROVE Hands'
      BY <2>3 DEF TryDequeue, NoWork, Works
    <2>4. CASE WorkerOwn(i) BY <2>3, <2>4 DEF WorkerOwn
    <2>5. CASE WorkerSteal(i) BY <2>3, <2>5, VictimInRange DEF WorkerSteal
    <2>6. CASE WorkerExecute(i) BY <2>6 DEF WorkerExecute
    <2>7. CASE WorkerReturn(i) BY <2>7 DEF WorkerReturn
    <2>8. CASE WorkerFree(i) BY <2>8 DEF WorkerFree
    <2>9. CASE WorkerLeave(i) BY <2>9 DEF WorkerLeave
    <2>10. CASE WorkerWorkAdd(i)
      <3>1. UNCHANGED <<wpc, work, cpc>> /\ submit' = [submit EXCEPT ![i] = born + 1]
            /\ wpc[i] = "run"
        BY <2>10 DEF WorkerWorkAdd, WorkNew
      <3>2. QED BY <3>1
    <2>11. CASE WorkEnqueue(i)
      <3>1. UNCHANGED <<wpc, work, cpc>> /\ submit' = [submit EXCEPT ![i] = NoWork]
        BY <2>11 DEF WorkEnqueue
      <3>2. QED BY <3>1
    <2>12. QED
      BY <1>3, <2>1, <2>2, <2>4, <2>5, <2>6, <2>7, <2>8, <2>9, <2>10, <2>11 DEF WorkerNext
  <1>4. ASSUME NEW c \in Clients, ClientNext(c) PROVE Hands'
    <2> USE DEF TypeOK, ClientType, WorkType, workerVars, clientVars, workVars
    <2>1. CASE ClientWorkAdd(c)
      <3>1. UNCHANGED <<wpc, work>> /\ submit' = [submit EXCEPT ![c] = born + 1]
            /\ cpc' = [cpc EXCEPT ![c] = "idle"]
        BY <2>1 DEF ClientWorkAdd, WorkNew
      <3>2. QED BY <3>1
    <2>2. CASE WorkEnqueue(c)
      <3>1. UNCHANGED <<wpc, work, cpc>> /\ submit' = [submit EXCEPT ![c] = NoWork]
        BY <2>2 DEF WorkEnqueue
      <3>2. QED BY <3>1
    <2>3. CASE WaiterWait(c) BY <2>3 DEF WaiterWait, ClientStep, Ready
    <2>4. CASE WaiterReturn(c) BY <2>4 DEF WaiterReturn, ClientStep
    <2>5. CASE PoolWait(c) BY <2>5 DEF PoolWait, ClientStep, Ready
    <2>6. CASE PoolWaitLoad(c) BY <2>6 DEF PoolWaitLoad, ClientStep
    <2>7. CASE PoolWaitScan(c) BY <2>7 DEF PoolWaitScan, ClientStep
    <2>8. QED
      BY <1>4, <2>1, <2>2, <2>3, <2>4, <2>5, <2>6, <2>7 DEF ClientNext
  <1>5. QED BY <1>1, <1>2, <1>3, <1>4 DEF Next, vars, workerVars, clientVars, workVars

\* The state always has its type, and a thread holds a work only where the
\* code says it does.
LEMMA TypeAndHands == Spec => [](TypeOK /\ Startup /\ Hands)
  <1>1. Init => TypeOK /\ Startup /\ Hands
    BY TypeInit, StartupInit, HandsInit
  <1>2. TypeOK /\ Startup /\ Hands /\ [Next]_vars => (TypeOK /\ Startup /\ Hands)'
    BY TypeNext, StartupNext, HandsNext
  <1>3. QED BY <1>1, <1>2, PTL DEF Spec

\* Type correctness: in particular every index used on the array of workers,
\* by the round robin and by the thieves, is in range.
THEOREM TypeCorrect == Spec => []TypeOK
  BY TypeAndHands, PTL

-----------------------------------------------------------------------------
(* Ownership of works *)

\* Works are numbered in the order of their allocation.
Fresh == heap \subseteq 1 .. born

Places == Fresh /\ SingleOwner /\ NoLeak

placeVars == <<queue, work, submit, heap, born>>

LEMMA PlacesFrame == Places /\ UNCHANGED placeVars => Places'
  BY DEF Places, Fresh, SingleOwner, NoLeak, Queued, Executing, Offered, placeVars

\* The steps that move a work from one place to another, stripped of what
\* they do elsewhere.
MoveNew(t) ==
    /\ submit[t] = NoWork
    /\ born' = born + 1
    /\ heap' = heap \union {born + 1}
    /\ submit' = [submit EXCEPT ![t] = born + 1]
    /\ UNCHANGED <<queue, work>>

MoveAccept(t, j) ==
    /\ submit[t] # NoWork
    /\ submit' = [submit EXCEPT ![t] = NoWork]
    /\ queue' = [queue EXCEPT ![j] = @ \union {submit[t]}]
    /\ UNCHANGED <<work, heap, born>>

MoveRefuse(t) ==
    /\ submit[t] # NoWork
    /\ submit' = [submit EXCEPT ![t] = NoWork]
    /\ heap' = heap \ {submit[t]}
    /\ UNCHANGED <<queue, work, born>>

MoveTake(i, j, w) ==
    /\ w \in queue[j]
    /\ work[i] = NoWork
    /\ queue' = [queue EXCEPT ![j] = @ \ {w}]
    /\ work' = [work EXCEPT ![i] = w]
    /\ UNCHANGED <<submit, heap, born>>

MoveFree(i) ==
    /\ work[i] # NoWork
    /\ work' = [work EXCEPT ![i] = NoWork]
    /\ heap' = heap \ {work[i]}
    /\ UNCHANGED <<queue, submit, born>>

MoveDrop(j, w) ==
    /\ w \in queue[j]
    /\ queue' = [queue EXCEPT ![j] = @ \ {w}]
    /\ heap' = heap \ {w}
    /\ UNCHANGED <<work, submit, born>>

Moves ==
    \/ \E t \in Threads : MoveNew(t) \/ MoveRefuse(t) \/ \E j \in Idx : MoveAccept(t, j)
    \/ \E i \in Idx : MoveFree(i)
    \/ \E i \in Idx, j \in Idx, w \in Works : MoveTake(i, j, w)
    \/ \E j \in Idx, w \in Works : MoveDrop(j, w)

\* Every step of the pool moves at most one work.
LEMMA NextMoves ==
    ASSUME TypeOK, Hands, [Next]_vars
    PROVE  Moves \/ UNCHANGED placeVars
  <1> USE DEF placeVars
  <1> Idx \subseteq Threads /\ Clients \subseteq Threads
    BY DEF Threads
  <1>1. ASSUME NEW t \in Threads, NEW wt, WorkNew(t, wt) PROVE Moves
    <2>1. MoveNew(t) BY <1>1 DEF WorkNew, MoveNew, workerVars
    <2>2. QED BY <2>1 DEF Moves
  <1>2. ASSUME NEW t \in Threads, WorkEnqueue(t) PROVE Moves
    <2>1. Target(t) \in Idx BY TargetInRange DEF TypeOK
    <2>2. MoveAccept(t, Target(t)) \/ MoveRefuse(t)
      BY <1>2 DEF WorkEnqueue, MoveAccept, MoveRefuse, WorkFree, workerVars
    <2>3. QED BY <2>1, <2>2 DEF Moves
  <1>3. ASSUME NEW i \in Idx, NEW j \in Idx, TryDequeue(i, j), wpc[i] \in {"own", "steal"}
        PROVE  Moves
    <2>1. PICK w \in queue[j] :
              /\ queue' = [queue EXCEPT ![j] = @ \ {w}]
              /\ work' = [work EXCEPT ![i] = w]
              /\ UNCHANGED workVars
      BY <1>3 DEF TryDequeue
    <2>2. work[i] = NoWork BY <1>3 DEF Hands
    <2>3. MoveTake(i, j, w) BY <2>1, <2>2 DEF MoveTake, workVars
    <2>4. w \in Works BY DEF TypeOK
    <2>5. QED BY <2>3, <2>4 DEF Moves
  <1>4. CASE OwnerNext
    <2>1. CASE ReleaseDrain
      <3>1. PICK w \in queue[k] : queue' = [queue EXCEPT ![k] = @ \ {w}] /\ WorkFree(w)
        BY <2>1 DEF ReleaseDrain
      <3>2. k \in Idx /\ w \in Works BY DEF TypeOK, PoolType
      <3>3. MoveDrop(k, w)
        BY <2>1, <3>1 DEF MoveDrop, ReleaseDrain, WorkFree, workerVars
      <3>4. QED BY <3>2, <3>3 DEF Moves
    <2>2. CASE ~ReleaseDrain
      BY <1>4, <2>2 DEF OwnerNext, InitAlloc, InitQueue, InitStart, InitReturn, Release,
         ReleaseJoin, ReleaseDestroy, workerVars, workVars
    <2>3. QED BY <2>1, <2>2
  <1>5. ASSUME NEW i \in Idx, WorkerNext(i) PROVE Moves \/ UNCHANGED placeVars
    <2>1. CASE WorkerOwn(i) BY <1>3, <2>1 DEF WorkerOwn, workVars
    <2>2. CASE WorkerSteal(i)
      BY <1>3, <2>2, VictimInRange DEF WorkerSteal, workVars, TypeOK
    <2>3. CASE WorkerFree(i)
      <3>1. MoveFree(i) BY <2>3 DEF WorkerFree, MoveFree, Hands, WorkFree
      <3>2. QED BY <3>1 DEF Moves
    <2>4. CASE WorkerWorkAdd(i) BY <1>1, <2>4 DEF WorkerWorkAdd
    <2>5. CASE WorkEnqueue(i) BY <1>2, <2>5
    <2>6. CASE WorkerStart(i) \/ WorkerCheckStop(i) \/ WorkerExecute(i)
               \/ WorkerReturn(i) \/ WorkerLeave(i)
      BY <2>6 DEF WorkerStart, WorkerCheckStop, WorkerExecute, WorkerReturn, WorkerLeave,
         workVars
    <2>7. QED
      BY <1>5, <2>1, <2>2, <2>3, <2>4, <2>5, <2>6 DEF WorkerNext
  <1>6. ASSUME NEW c \in Clients, ClientNext(c) PROVE Moves \/ UNCHANGED placeVars
    <2>1. CASE ClientWorkAdd(c) BY <1>1, <2>1 DEF ClientWorkAdd
    <2>2. CASE WorkEnqueue(c) BY <1>2, <2>2
    <2>3. CASE WaiterWait(c) \/ WaiterReturn(c) \/ PoolWait(c) \/ PoolWaitLoad(c)
               \/ PoolWaitScan(c)
      BY <2>3 DEF WaiterWait, WaiterReturn, PoolWait, PoolWaitLoad, PoolWaitScan,
         ClientStep, workerVars, workVars
    <2>4. QED BY <1>6, <2>1, <2>2, <2>3 DEF ClientNext
  <1>7. QED
    BY <1>4, <1>5, <1>6 DEF Next, vars, workerVars, workVars

LEMMA PlacesInit == Init => Places
  BY DEF Init, Places, Fresh, SingleOwner, NoLeak

LEMMA PlacesNext == TypeOK /\ Hands /\ Places /\ [Next]_vars => Places'
  <1> SUFFICES ASSUME TypeOK, Hands, Places, [Next]_vars PROVE Places'
    OBVIOUS
  <1> USE DEF Places, Fresh
  <1>0. /\ queue \in [Idx -> SUBSET Works] /\ work \in [Idx -> Works \union {NoWork}]
        /\ submit \in [Threads -> Works \union {NoWork}] /\ heap \subseteq Works
        /\ born \in Nat /\ NoWork = 0 /\ Works \subseteq Nat \ {0}
    BY PoolAssumption DEF TypeOK, WorkerType, WorkType, NoWork, Works, PoolAssumption
  <1>1. ASSUME NEW t \in Threads, MoveNew(t) PROVE Places'
    <2>1. born + 1 \notin heap /\ born + 1 # NoWork BY <1>0
    <2>2. Fresh' BY <1>0, <1>1 DEF MoveNew
    <2>3. SingleOwner' BY <1>0, <1>1, <2>1 DEF MoveNew, SingleOwner
    <2>4. NoLeak' BY <1>0, <1>1, <2>1 DEF MoveNew, NoLeak, Queued, Executing, Offered
    <2>5. QED BY <2>2, <2>3, <2>4
  <1>2. ASSUME NEW t \in Threads, MoveRefuse(t) PROVE Places'
    <2>1. SingleOwner' BY <1>0, <1>2 DEF MoveRefuse, SingleOwner
    <2>2. NoLeak' BY <1>0, <1>2 DEF MoveRefuse, NoLeak, Queued, Executing, Offered
    <2>3. QED BY <1>2, <2>1, <2>2 DEF MoveRefuse
  <1>3. ASSUME NEW t \in Threads, NEW j \in Idx, MoveAccept(t, j) PROVE Places'
    <2>1. SingleOwner' BY <1>0, <1>3 DEF MoveAccept, SingleOwner
    <2>2. NoLeak' BY <1>0, <1>3 DEF MoveAccept, NoLeak, Queued, Executing, Offered
    <2>3. QED BY <1>3, <2>1, <2>2 DEF MoveAccept
  <1>4. ASSUME NEW i \in Idx, MoveFree(i) PROVE Places'
    <2>1. SingleOwner' BY <1>0, <1>4 DEF MoveFree, SingleOwner
    <2>2. NoLeak' BY <1>0, <1>4 DEF MoveFree, NoLeak, Queued, Executing, Offered
    <2>3. QED BY <1>4, <2>1, <2>2 DEF MoveFree
  <1>5. ASSUME NEW i \in Idx, NEW j \in Idx, NEW w \in Works, MoveTake(i, j, w) PROVE Places'
    <2>1. SingleOwner' BY <1>0, <1>5 DEF MoveTake, SingleOwner
    <2>2. NoLeak' BY <1>0, <1>5 DEF MoveTake, NoLeak, Queued, Executing, Offered
    <2>3. QED BY <1>5, <2>1, <2>2 DEF MoveTake
  <1>6. ASSUME NEW j \in Idx, NEW w \in Works, MoveDrop(j, w) PROVE Places'
    <2>1. SingleOwner' BY <1>0, <1>6 DEF MoveDrop, SingleOwner
    <2>2. NoLeak' BY <1>0, <1>6 DEF MoveDrop, NoLeak, Queued, Executing, Offered
    <2>3. QED BY <1>6, <2>1, <2>2 DEF MoveDrop
  <1>7. QED
    BY <1>1, <1>2, <1>3, <1>4, <1>5, <1>6, NextMoves, PlacesFrame DEF Moves

-----------------------------------------------------------------------------
(* The counters of the waiters *)

\* The allocated works of waiter c.
Outstanding(c) == {w \in heap : waiter[w] = c}

LEMMA OutstandingFinite ==
    ASSUME TypeOK, NEW c
    PROVE  IsFiniteSet(Outstanding(c)) /\ Cardinality(Outstanding(c)) \in Nat
  <1>1. IsFiniteSet(Works)
    BY FS_Interval, PoolAssumption DEF Works, PoolAssumption
  <1>2. Outstanding(c) \subseteq Works
    BY DEF Outstanding, TypeOK, WorkType
  <1>3. QED BY <1>1, <1>2, FS_Subset, FS_CardinalityType

LEMMA WaiterInit == Init => WaiterExact
  <1> SUFFICES ASSUME Init, NEW c \in Waiters
               PROVE  counter[c] = Cardinality({w \in heap : waiter[w] = c})
    BY DEF WaiterExact
  <1>1. {w \in heap : waiter[w] = c} = {} BY DEF Init
  <1>2. QED BY <1>1, FS_EmptySet DEF Init

\* work_new adds one to the waiter and one work to its outstanding works.
LEMMA WaiterWorkNew ==
    ASSUME TypeOK, Places, WaiterExact, NEW t \in Threads,
           NEW wt \in Waiters \union {NoWaiter}, WorkNew(t, wt)
    PROVE  WaiterExact'
  <1> SUFFICES ASSUME NEW c \in Waiters
               PROVE  counter'[c] = Cardinality(Outstanding(c)')
    BY DEF WaiterExact, Outstanding
  <1>1. counter[c] = Cardinality(Outstanding(c)) BY DEF WaiterExact, Outstanding
  <1>2. born + 1 \in Works /\ born + 1 \notin heap
    BY PoolAssumption DEF TypeOK, WorkType, WorkNew, Works, Places, Fresh, PoolAssumption
  <1>3. waiter' = [waiter EXCEPT ![born + 1] = wt] /\ heap' = heap \union {born + 1}
        /\ counter' = IF wt = NoWaiter THEN counter ELSE [counter EXCEPT ![wt] = @ + 1]
    BY DEF WorkNew
  <1>4. waiter \in [Works -> Waiters \union {NoWaiter}] /\ heap \subseteq Works
        /\ counter \in [Waiters -> Int] /\ NoWaiter \notin Waiters
    BY PoolAssumption DEF TypeOK, WorkType, Waiters, PoolAssumption
  <1>5. CASE wt = c
    <2>1. Outstanding(c)' = Outstanding(c) \union {born + 1}
      BY <1>2, <1>3, <1>4, <1>5 DEF Outstanding
    <2>2. born + 1 \notin Outstanding(c) BY <1>2 DEF Outstanding
    <2>3. Cardinality(Outstanding(c)') = Cardinality(Outstanding(c)) + 1
      BY <2>1, <2>2, OutstandingFinite, FS_AddElement
    <2>4. counter'[c] = counter[c] + 1 BY <1>3, <1>4, <1>5
    <2>5. QED BY <1>1, <2>3, <2>4
  <1>6. CASE wt # c
    <2>1. Outstanding(c)' = Outstanding(c)
      BY <1>2, <1>3, <1>4, <1>6 DEF Outstanding
    <2>2. counter'[c] = counter[c] BY <1>3, <1>4, <1>6
    <2>3. QED BY <1>1, <2>1, <2>2
  <1>7. QED BY <1>5, <1>6

\* work_free takes both away again.
LEMMA WaiterWorkFree ==
    ASSUME TypeOK, WaiterExact, NEW w \in heap, WorkFree(w), waiter' = waiter
    PROVE  WaiterExact'
  <1> SUFFICES ASSUME NEW c \in Waiters
               PROVE  counter'[c] = Cardinality(Outstanding(c)')
    BY DEF WaiterExact, Outstanding
  <1>1. counter[c] = Cardinality(Outstanding(c)) BY DEF WaiterExact, Outstanding
  <1>2. heap' = heap \ {w} /\ counter' = IF waiter[w] = NoWaiter THEN counter
                                        ELSE [counter EXCEPT ![waiter[w]] = @ - 1]
    BY DEF WorkFree
  <1>3. waiter[w] \in Waiters \union {NoWaiter} /\ counter \in [Waiters -> Int]
        /\ NoWaiter \notin Waiters
    BY PoolAssumption DEF TypeOK, WorkType, Waiters, PoolAssumption
  <1>4. CASE waiter[w] = c
    <2>1. Outstanding(c)' = Outstanding(c) \ {w} /\ w \in Outstanding(c)
      BY <1>2, <1>4 DEF Outstanding
    <2>2. Cardinality(Outstanding(c)') = Cardinality(Outstanding(c)) - 1
      BY <2>1, OutstandingFinite, FS_RemoveElement
    <2>3. counter'[c] = counter[c] - 1 BY <1>2, <1>3, <1>4
    <2>4. QED BY <1>1, <2>2, <2>3
  <1>5. CASE waiter[w] # c
    <2>1. Outstanding(c)' = Outstanding(c) BY <1>2, <1>5 DEF Outstanding
    <2>2. counter'[c] = counter[c] BY <1>2, <1>3, <1>5
    <2>3. QED BY <1>1, <2>1, <2>2
  <1>6. QED BY <1>4, <1>5

LEMMA WaiterNext ==
    TypeOK /\ Hands /\ Places /\ WaiterExact /\ [Next]_vars => WaiterExact'
  <1> SUFFICES ASSUME TypeOK, Hands, Places, WaiterExact, [Next]_vars PROVE WaiterExact'
    OBVIOUS
  <1> Idx \subseteq Threads /\ Clients \subseteq Threads
    BY DEF Threads
  <1>1. CASE UNCHANGED <<heap, waiter, counter>> BY <1>1 DEF WaiterExact
  <1>2. ASSUME NEW t \in Threads, WorkEnqueue(t) PROVE WaiterExact'
    <2>1. submit[t] \in heap
      BY <1>2 DEF WorkEnqueue, Places, SingleOwner
    <2>2. QED BY <1>1, <1>2, <2>1, WaiterWorkFree DEF WorkEnqueue
  <1>3. CASE OwnerNext
    <2>1. CASE ReleaseDrain
      <3>1. PICK w \in queue[k] : WorkFree(w) BY <2>1 DEF ReleaseDrain
      <3>2. w \in heap BY DEF Places, SingleOwner, TypeOK, PoolType
      <3>3. QED BY <2>1, <3>1, <3>2, WaiterWorkFree DEF ReleaseDrain
    <2>2. CASE ~ReleaseDrain
      BY <1>1, <1>3, <2>2 DEF OwnerNext, InitAlloc, InitQueue, InitStart, InitReturn,
         Release, ReleaseJoin, ReleaseDestroy, workVars
    <2>3. QED BY <2>1, <2>2
  <1>4. ASSUME NEW i \in Idx, WorkerNext(i) PROVE WaiterExact'
    <2>1. CASE WorkerFree(i)
      <3>1. work[i] \in heap
        BY <2>1 DEF WorkerFree, Hands, Places, SingleOwner
      <3>2. QED BY <2>1, <3>1, WaiterWorkFree DEF WorkerFree
    <2>2. CASE WorkerWorkAdd(i)
      <3>1. PICK wt \in {waiter[work[i]], NoWaiter} : WorkNew(i, wt)
        BY <2>2 DEF WorkerWorkAdd
      <3>2. waiter[work[i]] \in Waiters \union {NoWaiter}
        BY <2>2 DEF WorkerWorkAdd, Hands, TypeOK, WorkerType, WorkType
      <3>3. QED BY <3>1, <3>2, WaiterWorkNew
    <2>3. CASE WorkEnqueue(i) BY <1>2, <2>3
    <2>4. CASE ~WorkerFree(i) /\ ~WorkerWorkAdd(i) /\ ~WorkEnqueue(i)
      BY <1>1, <1>4, <2>4 DEF WorkerNext, WorkerStart, WorkerCheckStop, WorkerOwn,
         WorkerSteal, TryDequeue, WorkerExecute, WorkerReturn, WorkerLeave, workVars
    <2>5. QED BY <2>1, <2>2, <2>3, <2>4
  <1>5. ASSUME NEW c \in Clients, ClientNext(c) PROVE WaiterExact'
    <2>1. CASE ClientWorkAdd(c)
      BY <2>1, WaiterWorkNew DEF ClientWorkAdd, Waiters
    <2>2. CASE WorkEnqueue(c) BY <1>2, <2>2
    <2>3. CASE ~ClientWorkAdd(c) /\ ~WorkEnqueue(c)
      BY <1>1, <1>5, <2>3 DEF ClientNext, WaiterWait, WaiterReturn, PoolWait,
         PoolWaitLoad, PoolWaitScan, ClientStep, workVars
    <2>4. QED BY <2>1, <2>2, <2>3
  <1>6. QED BY <1>1, <1>3, <1>4, <1>5 DEF Next, vars, workVars

\* The inductive invariant of the pool's works.
WorksInv == TypeOK /\ Startup /\ Hands /\ Places /\ WaiterExact

LEMMA WorksInductive == Spec => []WorksInv
  <1>1. Init => WorksInv
    BY TypeInit, StartupInit, HandsInit, PlacesInit, WaiterInit DEF WorksInv
  <1>2. WorksInv /\ [Next]_vars => WorksInv'
    BY TypeNext, StartupNext, HandsNext, PlacesNext, WaiterNext DEF WorksInv
  <1>3. QED BY <1>1, <1>2, PTL DEF Spec

\* No work is ever in two places or used after work_free.
THEOREM OwnersAreUnique == Spec => []SingleOwner
  <1>1. WorksInv => SingleOwner BY DEF WorksInv, Places
  <1>2. QED BY <1>1, WorksInductive, PTL

\* No allocated work is ever lost.
THEOREM WorksDoNotLeak == Spec => []NoLeak
  <1>1. WorksInv => NoLeak BY DEF WorksInv, Places
  <1>2. QED BY <1>1, WorksInductive, PTL

\* A waiter's counter is at all times the number of its allocated works.
THEOREM WaitersCountExactly == Spec => []WaiterExact
  <1>1. WorksInv => WaiterExact BY DEF WorksInv
  <1>2. QED BY <1>1, WorksInductive, PTL

-----------------------------------------------------------------------------
(* What becomes of each work *)

Finished == {"done", "refused", "dropped"}

\* The fate of a work is told by the place it is in.
FateInv ==
    /\ \A w \in Works : w > born => fate[w] = "pending"
    /\ \A w \in 1 .. born : w \notin heap => fate[w] \in Finished
    /\ \A i \in Idx : \A w \in queue[i] : fate[w] = "pending"
    /\ \A t \in Threads : submit[t] # NoWork => fate[submit[t]] = "pending"
    /\ \A i \in Idx :
          /\ wpc[i] = "exec" => fate[work[i]] = "pending"
          /\ wpc[i] = "run" => fate[work[i]] = "running"
          /\ wpc[i] = "free" => fate[work[i]] = "done"

LEMMA FateInit == Init => FateInv
  BY DEF Init, FateInv, NoWork

LEMMA FateNext ==
    TypeOK /\ Startup /\ Hands /\ Places /\ FateInv /\ [Next]_vars => FateInv'
  <1> SUFFICES ASSUME TypeOK, Startup, Hands, Places, FateInv, [Next]_vars PROVE FateInv'
    OBVIOUS
  <1>0. /\ queue \in [Idx -> SUBSET Works] /\ work \in [Idx -> Works \union {NoWork}]
        /\ submit \in [Threads -> Works \union {NoWork}] /\ heap \subseteq Works
        /\ born \in Nat /\ NoWork = 0 /\ Works = 1 .. MaxWorks /\ fate \in [Works -> Fates]
        /\ wpc \in [Idx -> WorkerPCs] /\ MaxWorks \in Nat /\ born <= MaxWorks
    BY PoolAssumption DEF TypeOK, WorkerType, WorkType, NoWork, Works, PoolAssumption
  <1> Idx \subseteq Threads /\ Clients \subseteq Threads
    BY DEF Threads
  <1>1. CASE UNCHANGED <<queue, work, submit, heap, born, fate, wpc>> BY <1>1 DEF FateInv
  <1>2. ASSUME NEW t \in Threads, NEW wt, WorkNew(t, wt) PROVE FateInv'
    <2>1. /\ born' = born + 1 /\ heap' = heap \union {born + 1} /\ born < MaxWorks
          /\ submit' = [submit EXCEPT ![t] = born + 1]
          /\ UNCHANGED <<queue, work, fate, wpc>>
      BY <1>2 DEF WorkNew, workerVars
    <2>2. QED BY <1>0, <2>1 DEF FateInv
  <1>3. ASSUME NEW t \in Threads, WorkEnqueue(t) PROVE FateInv'
    <2>1. submit[t] \in heap /\ Target(t) \in Idx
      BY <1>3, TargetInRange DEF WorkEnqueue, Places, SingleOwner, TypeOK
    <2>2. submit[t] # NoWork /\ submit' = [submit EXCEPT ![t] = NoWork]
          /\ UNCHANGED <<work, born, wpc>>
      BY <1>3 DEF WorkEnqueue, workerVars
    <2>3. CASE queue' = [queue EXCEPT ![Target(t)] = @ \union {submit[t]}]
               /\ UNCHANGED <<heap, fate>>
      BY <1>0, <2>1, <2>2, <2>3 DEF FateInv
    <2>4. CASE /\ heap' = heap \ {submit[t]} /\ UNCHANGED queue
               /\ fate' = [fate EXCEPT ![submit[t]] = "refused"]
      <3>1. \A w \in Works : w > born' => fate'[w] = "pending"
        BY <1>0, <2>1, <2>2, <2>4 DEF FateInv, Places, Fresh
      <3>2. \A w \in 1 .. born' : w \notin heap' => fate'[w] \in Finished
        BY <1>0, <2>1, <2>2, <2>4 DEF FateInv, Finished
      <3>3. \A i \in Idx : \A w \in queue'[i] : fate'[w] = "pending"
        BY <1>0, <2>1, <2>2, <2>4 DEF FateInv, Places, SingleOwner
      <3>4. \A u \in Threads : submit'[u] # NoWork => fate'[submit'[u]] = "pending"
        BY <1>0, <2>1, <2>2, <2>4 DEF FateInv, Places, SingleOwner
      <3>5. \A i \in Idx : work[i] # submit[t]
        BY <2>2 DEF Places, SingleOwner
      <3>6. \A i \in Idx : fate'[work[i]] = fate[work[i]] \/ work[i] = NoWork
        BY <1>0, <2>4, <3>5
      <3>7. QED BY <2>2, <3>1, <3>2, <3>3, <3>4, <3>6 DEF FateInv, Hands
    <2>5. QED BY <1>3, <2>3, <2>4 DEF WorkEnqueue, WorkFree
  <1>4. CASE OwnerNext
    <2>1. CASE ReleaseDrain
      <3>1. PICK w \in queue[k] :
                /\ queue' = [queue EXCEPT ![k] = @ \ {w}]
                /\ heap' = heap \ {w}
                /\ fate' = [fate EXCEPT ![w] = "dropped"]
        BY <2>1 DEF ReleaseDrain, WorkFree
      <3>2. UNCHANGED <<work, submit, born, wpc>> BY <2>1 DEF ReleaseDrain, workerVars
      <3>3. w \in heap /\ k \in Idx /\ w \in Works
        BY <1>0 DEF Places, SingleOwner, TypeOK, PoolType
      <3>4. \A x \in Works : x > born' => fate'[x] = "pending"
        BY <1>0, <3>1, <3>2, <3>3 DEF FateInv, Places, Fresh
      <3>5. \A x \in 1 .. born' : x \notin heap' => fate'[x] \in Finished
        BY <1>0, <3>1, <3>2, <3>3 DEF FateInv, Finished
      <3>6. \A i \in Idx : \A x \in queue'[i] : fate'[x] = "pending"
        BY <1>0, <3>1, <3>2, <3>3 DEF FateInv, Places, SingleOwner
      <3>7. \A t \in Threads : submit'[t] # NoWork => fate'[submit'[t]] = "pending"
        BY <1>0, <3>1, <3>2, <3>3 DEF FateInv, Places, SingleOwner
      <3>8. \A i \in Idx : fate'[work[i]] = fate[work[i]] \/ work[i] = NoWork
        BY <1>0, <3>1, <3>3 DEF Places, SingleOwner
      <3>9. QED BY <3>2, <3>4, <3>5, <3>6, <3>7, <3>8 DEF FateInv, Hands
    <2>2. CASE InitStart
      BY <1>0, <2>2 DEF InitStart, FateInv, workVars, TypeOK, PoolType
    <2>3. CASE ~ReleaseDrain /\ ~InitStart
      BY <1>1, <1>4, <2>3 DEF OwnerNext, InitAlloc, InitQueue, InitReturn, Release,
         ReleaseJoin, ReleaseDestroy, workerVars, workVars
    <2>4. QED BY <2>1, <2>2, <2>3
  <1>5. ASSUME NEW i \in Idx, WorkerNext(i) PROVE FateInv'
    <2>1. ASSUME NEW j \in Idx, TryDequeue(i, j) PROVE FateInv'
      <3>1. PICK w \in queue[j] :
                /\ queue' = [queue EXCEPT ![j] = @ \ {w}]
                /\ work' = [work EXCEPT ![i] = w]
                /\ wpc' = [wpc EXCEPT ![i] = "exec"]
                /\ UNCHANGED <<submit, heap, born, fate>>
        BY <2>1 DEF TryDequeue, workVars
      <3>2. QED BY <1>0, <3>1 DEF FateInv
    <2>2. CASE WorkerOwn(i)
      BY <1>0, <2>1, <2>2 DEF WorkerOwn, workVars, FateInv
    <2>3. CASE WorkerSteal(i)
      BY <1>0, <2>1, <2>3, VictimInRange DEF WorkerSteal, workVars, FateInv, TypeOK
    <2>4. ASSUME NEW f \in {"running", "done"}, work[i] # NoWork,
                 fate' = [fate EXCEPT ![work[i]] = f],
                 UNCHANGED <<queue, work, submit, heap, born>>,
                 \A j \in Idx : j # i => wpc'[j] = wpc[j],
                 f = "running" => wpc'[i] = "run",
                 f = "done" => wpc'[i] = "free"
          PROVE  FateInv'
      <3>1. work[i] \in heap /\ work[i] \in Works
        BY <1>0, <2>4 DEF Places, SingleOwner
      <3>2. \A w \in Works : w > born' => fate'[w] = "pending"
        BY <1>0, <2>4, <3>1 DEF FateInv, Places, Fresh
      <3>3. \A w \in 1 .. born' : w \notin heap' => fate'[w] \in Finished
        BY <1>0, <2>4, <3>1 DEF FateInv
      <3>4. \A j \in Idx : \A w \in queue'[j] : fate'[w] = "pending"
        BY <1>0, <2>4, <3>1 DEF FateInv, Places, SingleOwner
      <3>5. \A t \in Threads : submit'[t] # NoWork => fate'[submit'[t]] = "pending"
        BY <1>0, <2>4, <3>1 DEF FateInv, Places, SingleOwner
      <3>6. \A j \in Idx : j # i => fate'[work[j]] = fate[work[j]] \/ work[j] = NoWork
        BY <1>0, <2>4, <3>1 DEF Places, SingleOwner
      <3>7. fate'[work[i]] = f BY <1>0, <2>4, <3>1
      <3>8. QED BY <2>4, <3>2, <3>3, <3>4, <3>5, <3>6, <3>7 DEF FateInv, Hands
    <2>5. CASE WorkerExecute(i)
      <3>1. /\ wpc[i] = "exec" /\ wpc' = [wpc EXCEPT ![i] = "run"]
            /\ fate' = [fate EXCEPT ![work[i]] = "running"]
            /\ UNCHANGED <<queue, work, submit, heap, born>>
        BY <2>5 DEF WorkerExecute
      <3>2. work[i] # NoWork BY <3>1 DEF Hands
      <3>3. wpc'[i] = "run" /\ \A j \in Idx : j # i => wpc'[j] = wpc[j]
        BY <1>0, <3>1
      <3>4. QED BY <2>4, <3>1, <3>2, <3>3
    <2>6. CASE WorkerReturn(i)
      <3>1. /\ wpc[i] = "run" /\ wpc' = [wpc EXCEPT ![i] = "free"]
            /\ fate' = [fate EXCEPT ![work[i]] = "done"]
            /\ UNCHANGED <<queue, work, submit, heap, born>>
        BY <2>6 DEF WorkerReturn
      <3>2. work[i] # NoWork BY <3>1 DEF Hands
      <3>3. wpc'[i] = "free" /\ \A j \in Idx : j # i => wpc'[j] = wpc[j]
        BY <1>0, <3>1
      <3>4. QED BY <2>4, <3>1, <3>2, <3>3
    <2>7. CASE WorkerFree(i)
      <3>1. /\ heap' = heap \ {work[i]} /\ wpc' = [wpc EXCEPT ![i] = "stop?"]
            /\ work' = [work EXCEPT ![i] = NoWork]
            /\ UNCHANGED <<queue, submit, born, fate>>
        BY <2>7 DEF WorkerFree, WorkFree
      <3>2. fate[work[i]] = "done" BY <2>7 DEF WorkerFree, FateInv
      <3>3. QED BY <1>0, <3>1, <3>2 DEF FateInv, Finished
    <2>8. CASE WorkerWorkAdd(i) BY <1>2, <2>8 DEF WorkerWorkAdd
    <2>9. CASE WorkEnqueue(i) BY <1>3, <2>9
    <2>10. CASE WorkerStart(i) \/ WorkerCheckStop(i) \/ WorkerLeave(i)
      BY <1>0, <2>10 DEF WorkerStart, WorkerCheckStop, WorkerLeave, workVars, FateInv
    <2>11. QED
      BY <1>5, <2>2, <2>3, <2>5, <2>6, <2>7, <2>8, <2>9, <2>10 DEF WorkerNext
  <1>6. ASSUME NEW c \in Clients, ClientNext(c) PROVE FateInv'
    <2>1. CASE ClientWorkAdd(c) BY <1>2, <2>1 DEF ClientWorkAdd
    <2>2. CASE WorkEnqueue(c) BY <1>3, <2>2
    <2>3. CASE ~ClientWorkAdd(c) /\ ~WorkEnqueue(c)
      BY <1>1, <1>6, <2>3 DEF ClientNext, WaiterWait, WaiterReturn, PoolWait,
         PoolWaitLoad, PoolWaitScan, ClientStep, workerVars, workVars
    <2>4. QED BY <2>1, <2>2, <2>3
  <1>7. QED BY <1>1, <1>4, <1>5, <1>6 DEF Next, vars, workerVars, workVars

-----------------------------------------------------------------------------
(* What a client may conclude when threadpool_waiter_wait returns *)

\* A joined waiter has no outstanding work: WaiterExact makes it true when
\* the counter is seen at zero, and only the client itself or one of the
\* waiter's own works could add to it afterwards.
Joined == \A c \in Clients : cpc[c] = "joined" => \A w \in heap : waiter[w] # c

LEMMA JoinedInit == Init => Joined
  BY DEF Init, Joined

LEMMA JoinedNext ==
    TypeOK /\ Hands /\ Places /\ WaiterExact /\ Joined /\ [Next]_vars => Joined'
  <1> SUFFICES ASSUME TypeOK, Hands, Places, WaiterExact, Joined, [Next]_vars
               PROVE  Joined'
    OBVIOUS
  <1>0. /\ cpc \in [Clients -> ClientPCs] /\ heap \subseteq Works
        /\ waiter \in [Works -> Waiters \union {NoWaiter}]
        /\ NoWaiter \notin Clients /\ heap \subseteq 1 .. born /\ born \in Nat
    BY PoolAssumption DEF TypeOK, ClientType, WorkType, Places, Fresh, PoolAssumption
  <1>1. CASE heap' \subseteq heap /\ UNCHANGED <<waiter, cpc>>
    BY <1>1 DEF Joined
  <1>2. ASSUME NEW t, NEW wt, WorkNew(t, wt),
               \A c \in Clients : cpc'[c] = "joined" => wt # c /\ cpc[c] = "joined"
        PROVE  Joined'
    <2>1. heap' = heap \union {born + 1} /\ waiter' = [waiter EXCEPT ![born + 1] = wt]
          /\ born < MaxWorks
      BY <1>2 DEF WorkNew
    <2>2. waiter'[born + 1] = wt /\ \A w \in heap : waiter'[w] = waiter[w]
      BY <1>0, <2>1, PoolAssumption DEF Works, PoolAssumption
    <2>3. QED BY <1>2, <2>1, <2>2 DEF Joined
  <1>3. CASE OwnerNext
    BY <1>1, <1>3 DEF OwnerNext, InitAlloc, InitQueue, InitStart, InitReturn, Release,
       ReleaseJoin, ReleaseDrain, ReleaseDestroy, WorkFree, clientVars, workVars
  <1>4. ASSUME NEW i \in Idx, WorkerNext(i) PROVE Joined'
    <2>1. CASE WorkerWorkAdd(i)
      <3>1. PICK wt \in {waiter[work[i]], NoWaiter} : WorkNew(i, wt)
        BY <2>1 DEF WorkerWorkAdd
      <3>2. work[i] \in heap /\ UNCHANGED cpc
        BY <2>1 DEF WorkerWorkAdd, Hands, Places, SingleOwner
      <3>3. \A c \in Clients : cpc'[c] = "joined" => wt # c /\ cpc[c] = "joined"
        BY <1>0, <3>1, <3>2 DEF Joined
      <3>4. QED BY <1>2, <3>1, <3>3
    <2>2. CASE WorkEnqueue(i)
      BY <1>1, <2>2 DEF WorkEnqueue, WorkFree, clientVars
    <2>3. CASE ~WorkerWorkAdd(i) /\ ~WorkEnqueue(i)
      BY <1>1, <1>4, <2>3 DEF WorkerNext, WorkerStart, WorkerCheckStop, WorkerOwn,
         WorkerSteal, TryDequeue, WorkerExecute, WorkerReturn, WorkerFree, WorkFree,
         WorkerLeave, workVars, clientVars
    <2>4. QED BY <2>1, <2>2, <2>3
  <1>5. ASSUME NEW c \in Clients, ClientNext(c) PROVE Joined'
    <2>1. CASE ClientWorkAdd(c)
      <3>1. PICK wt \in {c, NoWaiter} : WorkNew(c, wt) BY <2>1 DEF ClientWorkAdd
      <3>2. cpc' = [cpc EXCEPT ![c] = "idle"] BY <2>1 DEF ClientWorkAdd
      <3>3. \A d \in Clients : cpc'[d] = "joined" => wt # d /\ cpc[d] = "joined"
        BY <1>0, <3>1, <3>2
      <3>4. QED BY <1>2, <3>1, <3>3
    <2>2. CASE WorkEnqueue(c)
      BY <1>1, <2>2 DEF WorkEnqueue, WorkFree, clientVars
    <2>3. CASE WaiterReturn(c)
      <3>1. counter[c] = 0 /\ cpc' = [cpc EXCEPT ![c] = "joined"] /\ UNCHANGED <<heap, waiter>>
        BY <2>3 DEF WaiterReturn, ClientStep, workVars
      <3>2. Cardinality(Outstanding(c)) = 0
        BY <3>1 DEF WaiterExact, Outstanding, Waiters
      <3>3. Outstanding(c) = {} BY <3>2, OutstandingFinite, FS_EmptySet
      <3>4. \A w \in heap : waiter[w] # c BY <3>3 DEF Outstanding
      <3>5. QED BY <1>0, <3>1, <3>4 DEF Joined
    <2>4. ASSUME NEW to \in {"waiter", "load", "scan", "waited"},
                 NEW from, ClientStep(c, from, to)
          PROVE  Joined'
      <3>1. cpc' = [cpc EXCEPT ![c] = to] /\ UNCHANGED <<heap, waiter>>
        BY <2>4 DEF ClientStep, workVars
      <3>2. \A d \in Clients : cpc'[d] = "joined" => cpc[d] = "joined"
        BY <1>0, <3>1
      <3>3. QED BY <3>1, <3>2 DEF Joined
    <2>5. CASE WaiterWait(c) \/ PoolWait(c) \/ PoolWaitLoad(c) \/ PoolWaitScan(c)
      BY <2>4, <2>5 DEF WaiterWait, PoolWait, PoolWaitLoad, PoolWaitScan
    <2>6. QED BY <1>5, <2>1, <2>2, <2>3, <2>5 DEF ClientNext
  <1>6. QED BY <1>1, <1>3, <1>4, <1>5 DEF Next, vars, clientVars, workVars

\* threadpool_release sets stop before it does anything else.
Stopped == phase \in {"join", "drain", "freed"} => stop = TRUE

LEMMA StoppedNext == TypeOK /\ Stopped /\ [Next]_vars => Stopped'
  <1> SUFFICES ASSUME TypeOK, Stopped, [Next]_vars PROVE Stopped' OBVIOUS
  <1>1. CASE UNCHANGED <<phase, stop>> BY <1>1 DEF Stopped
  <1>2. CASE OwnerNext
    BY <1>2 DEF Stopped, OwnerNext, InitAlloc, InitQueue, InitStart, InitReturn, Release,
       ReleaseJoin, ReleaseDrain, ReleaseDestroy, poolVars
  <1>3. ASSUME NEW i \in Idx, WorkerNext(i) PROVE Stopped'
    BY <1>1, <1>3 DEF WorkerNext, WorkerStart, WorkerCheckStop, WorkerOwn, WorkerSteal,
       TryDequeue, WorkerExecute, WorkerReturn, WorkerFree, WorkerLeave, WorkerWorkAdd,
       WorkNew, WorkEnqueue, poolVars
  <1>4. ASSUME NEW c \in Clients, ClientNext(c) PROVE Stopped'
    BY <1>1, <1>4 DEF ClientNext, ClientWorkAdd, WorkNew, WorkEnqueue, WaiterWait,
       WaiterReturn, PoolWait, PoolWaitLoad, PoolWaitScan, ClientStep, poolVars
  <1>5. QED BY <1>1, <1>2, <1>3, <1>4 DEF Next, vars, poolVars

\* The inductive invariant of the works and of what becomes of them.
PoolInv == WorksInv /\ FateInv /\ Joined /\ Stopped

LEMMA PoolInductive == Spec => []PoolInv
  <1>1. Init => PoolInv
    <2>1. Init => WorksInv
      BY TypeInit, StartupInit, HandsInit, PlacesInit, WaiterInit DEF WorksInv
    <2>2. Init => Stopped BY DEF Init, Stopped
    <2>3. QED BY <2>1, <2>2, FateInit, JoinedInit DEF PoolInv
  <1>2. PoolInv /\ [Next]_vars => PoolInv'
    <2>1. WorksInv /\ [Next]_vars => WorksInv'
      BY TypeNext, StartupNext, HandsNext, PlacesNext, WaiterNext DEF WorksInv
    <2>2. QED BY <2>1, FateNext, JoinedNext, StoppedNext DEF PoolInv, WorksInv
  <1>3. QED BY <1>1, <1>2, PTL DEF Spec

\* When threadpool_waiter_wait has returned, no work of that waiter is still
\* allocated, and each was executed to its end, refused or dropped.
THEOREM WaitersJoin == Spec => []WaiterJoins
  <1>1. PoolInv => WaiterJoins
    BY DEF PoolInv, WorksInv, FateInv, Finished, Joined, WaiterJoins
  <1>2. QED BY <1>1, PoolInductive, PTL

LEMMA FateStepNext == PoolInv /\ Next => FateStep
  <1> SUFFICES ASSUME PoolInv, Next PROVE FateStep OBVIOUS
  <1>0. /\ fate \in [Works -> Fates] /\ heap \subseteq Works /\ queue \in [Idx -> SUBSET Works]
        /\ k \in Idx
    BY DEF PoolInv, WorksInv, TypeOK, WorkType, PoolType
  <1>1. CASE UNCHANGED fate BY <1>1 DEF FateStep
  <1>2. ASSUME NEW t \in Threads, WorkEnqueue(t) PROVE FateStep
    <2>1. submit[t] # NoWork /\ (UNCHANGED fate \/ fate' = [fate EXCEPT ![submit[t]] = "refused"])
      BY <1>2 DEF WorkEnqueue
    <2>2. fate[submit[t]] = "pending" /\ submit[t] \in heap
      BY <2>1 DEF PoolInv, WorksInv, FateInv, Places, SingleOwner
    <2>3. \A w \in Works : w # submit[t] => fate'[w] = fate[w]
      BY <1>0, <2>1
    <2>4. fate'[submit[t]] \in {"pending", "refused"} /\ Offered(submit[t])
      BY <1>0, <2>1, <2>2 DEF Offered
    <2>5. QED BY <2>2, <2>3, <2>4 DEF FateStep
  <1>3. CASE OwnerNext
    <2>1. CASE ReleaseDrain
      <3>1. PICK w \in queue[k] : fate' = [fate EXCEPT ![w] = "dropped"]
        BY <2>1 DEF ReleaseDrain
      <3>2. fate[w] = "pending" /\ w \in Works
        BY <1>0 DEF PoolInv, FateInv
      <3>3. stop BY <2>1 DEF ReleaseDrain, PoolInv, Stopped
      <3>4. fate'[w] = "dropped" /\ \A x \in Works : x # w => fate'[x] = fate[x]
        BY <1>0, <3>1, <3>2
      <3>5. QED BY <3>2, <3>3, <3>4 DEF FateStep
    <2>2. CASE ~ReleaseDrain
      BY <1>1, <1>3, <2>2 DEF OwnerNext, InitAlloc, InitQueue, InitStart, InitReturn,
         Release, ReleaseJoin, ReleaseDestroy, workVars
    <2>3. QED BY <2>1, <2>2
  <1>4. ASSUME NEW i \in Idx, WorkerNext(i) PROVE FateStep
    <2>1. ASSUME wpc[i] \in {"exec", "run"}
          PROVE  /\ work[i] \in heap /\ work[i] \in Works
                 /\ wpc[i] = "exec" => fate[work[i]] = "pending"
                 /\ wpc[i] = "run" => fate[work[i]] = "running"
      BY <1>0, <2>1 DEF PoolInv, WorksInv, Hands, Places, SingleOwner, FateInv
    <2>2. CASE WorkerExecute(i)
      <3>1. wpc[i] = "exec" /\ fate' = [fate EXCEPT ![work[i]] = "running"]
        BY <2>2 DEF WorkerExecute
      <3>2. fate'[work[i]] = "running" /\ \A x \in Works : x # work[i] => fate'[x] = fate[x]
        BY <1>0, <2>1, <3>1
      <3>3. QED BY <2>1, <3>1, <3>2 DEF FateStep
    <2>3. CASE WorkerReturn(i)
      <3>1. wpc[i] = "run" /\ fate' = [fate EXCEPT ![work[i]] = "done"]
        BY <2>3 DEF WorkerReturn
      <3>2. fate'[work[i]] = "done" /\ \A x \in Works : x # work[i] => fate'[x] = fate[x]
        BY <1>0, <2>1, <3>1
      <3>3. QED BY <2>1, <3>1, <3>2 DEF FateStep
    <2>4. CASE WorkEnqueue(i) BY <1>2, <2>4 DEF Threads
    <2>5. CASE ~WorkerExecute(i) /\ ~WorkerReturn(i) /\ ~WorkEnqueue(i)
      BY <1>1, <1>4, <2>5 DEF WorkerNext, WorkerStart, WorkerCheckStop, WorkerOwn,
         WorkerSteal, TryDequeue, WorkerFree, WorkerLeave, WorkerWorkAdd, WorkNew, workVars
    <2>6. QED BY <2>2, <2>3, <2>4, <2>5
  <1>5. ASSUME NEW c \in Clients, ClientNext(c) PROVE FateStep
    <2>1. CASE WorkEnqueue(c) BY <1>2, <2>1 DEF Threads
    <2>2. CASE ~WorkEnqueue(c)
      BY <1>1, <1>5, <2>2 DEF ClientNext, ClientWorkAdd, WorkNew, WaiterWait, WaiterReturn,
         PoolWait, PoolWaitLoad, PoolWaitScan, ClientStep, workVars
    <2>3. QED BY <2>1, <2>2
  <1>6. QED BY <1>3, <1>4, <1>5 DEF Next

\* A work runs at most once, never after it was freed, and an accepted work
\* is dropped only after threadpool_release has set stop.
THEOREM WorksRunAtMostOnce == Spec => FateSteps
  <1>1. PoolInv /\ [Next]_vars => [FateStep]_vars BY FateStepNext
  <1>2. QED BY <1>1, PoolInductive, PTL DEF Spec, FateSteps

(***************************************************************************)
(* The life of a pool.                                                     *)
(***************************************************************************)

-----------------------------------------------------------------------------
(* The inductive invariant *)

\* The queues that exist, by the owner's progress.
Stages ==
    /\ phase \in {"none", "freed", "failed"} => queues = {}
    /\ phase = "none" => k = 0
    /\ phase = "queues" => queues = {j \in Idx : j < k}
    /\ phase \in {"start", "spin", "live", "join"} => queues = Idx
    /\ phase = "drain" => queues = {j \in Idx : j >= k}

\* A worker leaves only after stop, which only threadpool_release sets; all
\* are registered when threadpool_init returns, and joined before the drain.
Crew ==
    /\ \A i \in Idx : wpc[i] \in {"leave", "exited"} => stop = TRUE
    /\ stop = TRUE => phase \in {"join", "drain", "freed"}
    /\ phase = "live" => \A i \in Idx : InPool(i)
    /\ phase = "join" => \A i \in Idx : i < k => wpc[i] = "exited"
    /\ phase \in {"drain", "freed"} => \A i \in Idx : wpc[i] = "exited"

Registered == {i \in Idx : InPool(i)}
Running == {i \in Idx : wpc[i] = "run"}

\* The two atomic counters of the pool count threads exactly.
Counted == alive = Cardinality(Registered) /\ working = Cardinality(Running)

\* A client in a call on the pool has a live pool.
Users ==
    \A c \in Clients :
        cpc[c] \in {"load", "scan"} \/ submit[c] # NoWork => phase = "live"

\* The queues threadpool_release has drained stay empty.
Drained ==
    /\ phase = "drain" => \A j \in Idx : j < k => queue[j] = {}
    /\ phase = "freed" => \A j \in Idx : queue[j] = {}

LifeInv == Stages /\ Crew /\ Counted /\ Users /\ Drained

-----------------------------------------------------------------------------
(* What the steps of workers and clients leave alone *)

\* A worker changes neither the owner's progress nor another worker's place.
LEMMA WorkerEffect ==
    ASSUME TypeOK, Hands, NEW i \in Idx, WorkerNext(i)
    PROVE  /\ UNCHANGED <<phase, k, queues, stop, cpc, scan>>
           /\ \A j \in Idx : j # i => wpc'[j] = wpc[j]
           /\ wpc[i] \notin {"unborn", "exited"} /\ wpc'[i] \notin {"unborn", "born"}
           /\ wpc'[i] = "leave" => stop
           /\ wpc'[i] = "exited" => wpc[i] = "leave"
  <1> USE DEF TypeOK, WorkerType, poolVars, clientVars, workerVars
  <1>1. CASE WorkerStart(i) BY <1>1 DEF WorkerStart
  <1>2. CASE WorkerCheckStop(i) BY <1>2 DEF WorkerCheckStop
  <1>3. CASE WorkerOwn(i) BY <1>3 DEF WorkerOwn, TryDequeue
  <1>4. CASE WorkerSteal(i) BY <1>4 DEF WorkerSteal, TryDequeue
  <1>5. CASE WorkerExecute(i) BY <1>5 DEF WorkerExecute
  <1>6. CASE WorkerReturn(i) BY <1>6 DEF WorkerReturn
  <1>7. CASE WorkerFree(i) BY <1>7 DEF WorkerFree
  <1>8. CASE WorkerLeave(i) BY <1>8 DEF WorkerLeave
  <1>9. CASE WorkerWorkAdd(i) BY <1>9 DEF WorkerWorkAdd, WorkNew
  <1>10. CASE WorkEnqueue(i)
    <2>1. wpc[i] = "run" BY <1>10 DEF WorkEnqueue, Hands
    <2>2. QED BY <1>10, <2>1 DEF WorkEnqueue
  <1>11. QED
    BY <1>1, <1>2, <1>3, <1>4, <1>5, <1>6, <1>7, <1>8, <1>9, <1>10 DEF WorkerNext

\* A client changes no worker, and nothing of the owner's progress.
LEMMA ClientEffect ==
    ASSUME NEW c \in Clients, ClientNext(c)
    PROVE  UNCHANGED <<phase, k, queues, stop, alive, workerVars>>
  BY DEF ClientNext, ClientWorkAdd, WorkNew, WorkEnqueue, WaiterWait, WaiterReturn,
     PoolWait, PoolWaitLoad, PoolWaitScan, ClientStep, poolVars, workerVars

-----------------------------------------------------------------------------
(* Queues and workers *)

\* The parts of LifeInv, each kept by every step.
LEMMA StagesNext == TypeOK /\ Hands /\ Stages /\ [Next]_vars => Stages'
  <1> SUFFICES ASSUME TypeOK, Hands, Stages, [Next]_vars PROVE Stages'
    OBVIOUS
  <1>0. k \in Idx /\ queues \subseteq Idx /\ Idx = 0 .. (WorkersCount - 1)
        /\ WorkersCount \in Nat \ {0} /\ 0 \in Idx
    BY PoolAssumption, IdxFacts DEF TypeOK, PoolType, Idx, PoolAssumption
  <1>1. CASE UNCHANGED <<phase, k, queues>> BY <1>1 DEF Stages
  <1>2. CASE InitQueue
    <2>1. CASE queues' = queues \union {k} /\ k + 1 = WorkersCount /\ phase' = "start"
      BY <1>0, <1>2, <2>1 DEF InitQueue, Stages
    <2>2. CASE queues' = queues \union {k} /\ k' = k + 1 /\ phase' = "queues"
      BY <1>0, <1>2, <2>2 DEF InitQueue, Stages
    <2>3. CASE queues' = queues \ {j \in Idx : j < k} /\ phase' = "failed"
      BY <1>0, <1>2, <2>3 DEF InitQueue, Stages
    <2>4. QED BY <1>2, <2>1, <2>2, <2>3 DEF InitQueue
  <1>3. CASE ReleaseDestroy
    BY <1>0, <1>3 DEF ReleaseDestroy, Stages
  <1>4. CASE ReleaseJoin
    BY <1>0, <1>4 DEF ReleaseJoin, Stages
  <1>5. CASE InitAlloc
    <2>1. {j \in Idx : j < 0} = {} BY <1>0
    <2>2. k' = 0 /\ queues' = {} /\ phase' \in {"queues", "failed"}
      BY <1>5 DEF InitAlloc, Stages
    <2>3. QED BY <2>1, <2>2 DEF Stages
  <1>6. CASE InitStart \/ InitReturn \/ Release \/ ReleaseDrain
    BY <1>6 DEF InitStart, InitReturn, Release, ReleaseDrain, Stages, poolVars
  <1>7. QED
    BY <1>1, <1>2, <1>3, <1>4, <1>5, <1>6, WorkerEffect, ClientEffect
       DEF Next, OwnerNext, vars, poolVars

LEMMA CrewNext ==
    TypeOK /\ Hands /\ Startup /\ Counted /\ Crew /\ [Next]_vars => Crew'
  <1> SUFFICES ASSUME TypeOK, Hands, Startup, Counted, Crew, [Next]_vars PROVE Crew'
    OBVIOUS
  <1>0. /\ k \in Idx /\ Idx = 0 .. (WorkersCount - 1) /\ WorkersCount \in Nat \ {0}
        /\ wpc \in [Idx -> WorkerPCs] /\ stop \in BOOLEAN
    BY PoolAssumption DEF TypeOK, PoolType, WorkerType, Idx, PoolAssumption
  <1>1. CASE UNCHANGED <<phase, k, stop, wpc>>
    BY <1>1 DEF Crew, InPool
  <1>2. CASE InitStart
    <2>1. wpc' = [wpc EXCEPT ![k] = "born"] /\ stop' = stop /\ phase = "start"
          /\ phase' \in {"start", "spin"}
      BY <1>2 DEF InitStart
    <2>2. \A i \in Idx : wpc'[i] \in {"leave", "exited"} => wpc[i] \in {"leave", "exited"}
      BY <1>0, <2>1
    <2>3. QED BY <2>1, <2>2 DEF Crew
  <1>3. CASE InitReturn
    <2>1. alive = WorkersCount /\ phase' = "live" /\ UNCHANGED <<stop, wpc>> /\ phase = "spin"
      BY <1>3 DEF InitReturn, workerVars
    <2>2. Registered = Idx
      <3>1. IsFiniteSet(Idx) /\ Cardinality(Idx) = WorkersCount
        <4>1. IsFiniteSet(0 .. (WorkersCount - 1))
              /\ Cardinality(0 .. (WorkersCount - 1)) =
                    IF 0 > WorkersCount - 1 THEN 0 ELSE WorkersCount - 1 - 0 + 1
          BY <1>0, FS_Interval
        <4>2. QED BY <1>0, <4>1
      <3>2. Registered \subseteq Idx /\ Cardinality(Registered) = WorkersCount
        BY <2>1 DEF Registered, Counted
      <3>3. QED BY <3>1, <3>2, FS_Subset
    <2>3. \A i \in Idx : InPool(i)' BY <2>1, <2>2 DEF Registered, InPool
    <2>4. QED BY <2>1, <2>3 DEF Crew
  <1>4. CASE Release
    BY <1>0, <1>4 DEF Release, Crew, workerVars
  <1>5. CASE ReleaseJoin
    BY <1>0, <1>5 DEF ReleaseJoin, Crew, workerVars
  <1>6. CASE ReleaseDestroy
    BY <1>6 DEF ReleaseDestroy, Crew, workerVars
  <1>7. CASE InitAlloc \/ InitQueue
    BY <1>7 DEF InitAlloc, InitQueue, Crew, workerVars
  <1>8. CASE ReleaseDrain
    BY <1>1, <1>8 DEF ReleaseDrain, poolVars, workerVars
  <1>9. ASSUME NEW i \in Idx, WorkerNext(i) PROVE Crew'
    <2>1. /\ UNCHANGED <<phase, k, stop>>
          /\ \A j \in Idx : j # i => wpc'[j] = wpc[j]
          /\ wpc[i] \notin {"unborn", "exited"} /\ wpc'[i] \notin {"unborn", "born"}
          /\ wpc'[i] = "leave" => stop
          /\ wpc'[i] = "exited" => wpc[i] = "leave"
      BY <1>9, WorkerEffect
    <2>2. \A j \in Idx : wpc'[j] \in {"leave", "exited"} => stop = TRUE
      BY <1>0, <2>1 DEF Crew
    <2>3. phase = "live" => wpc'[i] # "exited"
      BY <2>1, <2>2 DEF Crew
    <2>4. QED BY <1>0, <2>1, <2>2, <2>3 DEF Crew, InPool
  <1>10. QED
    BY <1>1, <1>2, <1>3, <1>4, <1>5, <1>6, <1>7, <1>8, <1>9, ClientEffect
       DEF Next, OwnerNext, vars, poolVars, workerVars

-----------------------------------------------------------------------------
(* The counters of threads *)

\* The counted sets are finite.
LEMMA CrewFinite ==
    /\ IsFiniteSet(Registered) /\ Cardinality(Registered) \in Nat
    /\ IsFiniteSet(Running) /\ Cardinality(Running) \in Nat
  <1>1. IsFiniteSet(Idx)
    BY FS_Interval, PoolAssumption DEF Idx, PoolAssumption
  <1>2. Registered \subseteq Idx /\ Running \subseteq Idx
    BY DEF Registered, Running
  <1>3. QED BY <1>1, <1>2, FS_Subset, FS_CardinalityType

\* What the move of one worker to place p does to the two counts.
LEMMA CrewCounts ==
    ASSUME TypeOK, NEW i \in Idx, NEW p \in WorkerPCs, wpc' = [wpc EXCEPT ![i] = p]
    PROVE  /\ InPool(i)' <=> p \notin {"unborn", "born", "exited"}
           /\ (InPool(i)' <=> InPool(i)) => Registered' = Registered
           /\ ~InPool(i) /\ InPool(i)' =>
                  Cardinality(Registered') = Cardinality(Registered) + 1
           /\ InPool(i) /\ ~InPool(i)' =>
                  Cardinality(Registered') = Cardinality(Registered) - 1
           /\ (p = "run" <=> wpc[i] = "run") => Running' = Running
           /\ wpc[i] # "run" /\ p = "run" =>
                  Cardinality(Running') = Cardinality(Running) + 1
           /\ wpc[i] = "run" /\ p # "run" =>
                  Cardinality(Running') = Cardinality(Running) - 1
  <1>0. /\ wpc'[i] = p /\ \A j \in Idx : j # i => wpc'[j] = wpc[j]
        /\ \A j \in Idx : j # i => (InPool(j)' <=> InPool(j))
        /\ InPool(i)' <=> p \notin {"unborn", "born", "exited"}
    BY DEF TypeOK, WorkerType, InPool
  <1>1. ASSUME InPool(i)' <=> InPool(i) PROVE Registered' = Registered
    BY <1>0, <1>1 DEF Registered
  <1>2. ASSUME ~InPool(i), InPool(i)'
        PROVE  Cardinality(Registered') = Cardinality(Registered) + 1
    <2>1. Registered' = Registered \union {i} /\ i \notin Registered
      BY <1>0, <1>2 DEF Registered
    <2>2. QED BY <2>1, CrewFinite, FS_AddElement
  <1>3. ASSUME InPool(i), ~InPool(i)'
        PROVE  Cardinality(Registered') = Cardinality(Registered) - 1
    <2>1. Registered' = Registered \ {i} /\ i \in Registered
      BY <1>0, <1>3 DEF Registered
    <2>2. QED BY <2>1, CrewFinite, FS_RemoveElement
  <1>4. ASSUME p = "run" <=> wpc[i] = "run" PROVE Running' = Running
    BY <1>0, <1>4 DEF Running
  <1>5. ASSUME wpc[i] # "run", p = "run"
        PROVE  Cardinality(Running') = Cardinality(Running) + 1
    <2>1. Running' = Running \union {i} /\ i \notin Running
      BY <1>0, <1>5 DEF Running
    <2>2. QED BY <2>1, CrewFinite, FS_AddElement
  <1>6. ASSUME wpc[i] = "run", p # "run"
        PROVE  Cardinality(Running') = Cardinality(Running) - 1
    <2>1. Running' = Running \ {i} /\ i \in Running
      BY <1>0, <1>6 DEF Running
    <2>2. QED BY <2>1, CrewFinite, FS_RemoveElement
  <1>7. QED BY <1>0, <1>1, <1>2, <1>3, <1>4, <1>5, <1>6

LEMMA CountedNext ==
    TypeOK /\ Startup /\ Hands /\ Counted /\ [Next]_vars => Counted'
  <1> SUFFICES ASSUME TypeOK, Startup, Hands, Counted, [Next]_vars PROVE Counted'
    OBVIOUS
  <1> USE DEF WorkerPCs
  <1>1. CASE UNCHANGED <<wpc, alive, working>>
    BY <1>1 DEF Counted, Registered, InPool, Running
  <1>2. ASSUME NEW i \in Idx, NEW p \in WorkerPCs, wpc' = [wpc EXCEPT ![i] = p],
               UNCHANGED <<alive, working>>, InPool(i) <=> p \notin {"unborn", "born", "exited"},
               p = "run" <=> wpc[i] = "run"
        PROVE  Counted'
    BY <1>2, CrewCounts DEF Counted
  <1>3. CASE InitStart
    <2>1. k \in Idx /\ wpc[k] = "unborn" /\ wpc' = [wpc EXCEPT ![k] = "born"]
      BY <1>3 DEF InitStart, TypeOK, PoolType, Startup, Idx
    <2>2. QED BY <1>2, <1>3, <2>1 DEF InitStart, InPool
  <1>4. CASE OwnerNext /\ ~InitStart
    BY <1>1, <1>4 DEF OwnerNext, InitAlloc, InitQueue, InitReturn, Release, ReleaseJoin,
       ReleaseDrain, ReleaseDestroy, poolVars, workerVars
  <1>5. ASSUME NEW i \in Idx, WorkerNext(i) PROVE Counted'
    <2>1. CASE WorkerStart(i)
      BY <2>1, CrewCounts DEF WorkerStart, InPool, Counted
    <2>2. CASE WorkerLeave(i)
      BY <2>2, CrewCounts DEF WorkerLeave, InPool, Counted
    <2>3. CASE WorkerExecute(i)
      BY <2>3, CrewCounts DEF WorkerExecute, InPool, Counted, poolVars
    <2>4. CASE WorkerReturn(i)
      BY <2>4, CrewCounts DEF WorkerReturn, InPool, Counted, poolVars
    <2>5. CASE WorkerCheckStop(i)
      BY <1>2, <2>5 DEF WorkerCheckStop, InPool, poolVars
    <2>6. CASE WorkerOwn(i)
      BY <1>2, <2>6 DEF WorkerOwn, TryDequeue, InPool, poolVars
    <2>7. CASE WorkerSteal(i)
      BY <1>1, <1>2, <2>7 DEF WorkerSteal, TryDequeue, InPool, poolVars
    <2>8. CASE WorkerFree(i)
      BY <1>2, <2>8 DEF WorkerFree, InPool, poolVars
    <2>9. CASE WorkerWorkAdd(i) \/ WorkEnqueue(i)
      BY <1>1, <2>9 DEF WorkerWorkAdd, WorkNew, WorkEnqueue, poolVars, workerVars
    <2>10. QED
      BY <1>5, <2>1, <2>2, <2>3, <2>4, <2>5, <2>6, <2>7, <2>8, <2>9 DEF WorkerNext
  <1>6. QED
    BY <1>1, <1>3, <1>4, <1>5, ClientEffect DEF Next, vars, poolVars, workerVars

-----------------------------------------------------------------------------
(* Clients and the drain *)

LEMMA UsersNext == TypeOK /\ Hands /\ Users /\ [Next]_vars => Users'
  <1> SUFFICES ASSUME TypeOK, Hands, Users, [Next]_vars PROVE Users'
    OBVIOUS
  <1>0. /\ cpc \in [Clients -> ClientPCs] /\ submit \in [Threads -> Works \union {NoWork}]
        /\ Clients \subseteq Threads /\ Idx \intersect Clients = {}
    BY PoolAssumption DEF TypeOK, ClientType, WorkType, Threads, Idx, PoolAssumption
  <1>1. CASE UNCHANGED <<phase, cpc, submit>>
    BY <1>1 DEF Users
  <1>2. CASE Release
    <2>1. \A c \in Clients : cpc[c] \notin {"load", "scan"} /\ submit[c] = NoWork
      BY <1>2 DEF Release, Ready, Hands
    <2>2. UNCHANGED <<cpc, submit>>
      BY <1>2 DEF Release, clientVars, workVars
    <2>3. QED BY <2>1, <2>2 DEF Users
  <1>3. CASE OwnerNext /\ ~Release
    <2>1. UNCHANGED <<cpc, submit>> /\ (phase = "live" => phase' = "live")
      BY <1>3 DEF OwnerNext, InitAlloc, InitQueue, InitStart, InitReturn, ReleaseJoin,
         ReleaseDrain, ReleaseDestroy, poolVars, clientVars, workVars
    <2>2. QED BY <2>1 DEF Users
  <1>4. ASSUME NEW i \in Idx, WorkerNext(i) PROVE Users'
    <2>1. UNCHANGED <<phase, cpc>> BY <1>4, WorkerEffect
    <2>2. \A c \in Clients : submit'[c] = submit[c]
      BY <1>0, <1>4 DEF WorkerNext, WorkerStart, WorkerCheckStop, WorkerOwn, WorkerSteal,
         TryDequeue, WorkerExecute, WorkerReturn, WorkerFree, WorkerLeave, WorkerWorkAdd,
         WorkNew, WorkEnqueue, workVars
    <2>3. QED BY <2>1, <2>2 DEF Users
  <1>5. ASSUME NEW c \in Clients, ClientNext(c) PROVE Users'
    <2>0. UNCHANGED phase BY <1>5, ClientEffect
    <2>1. CASE ClientWorkAdd(c)
      <3>1. phase = "live" BY <2>1 DEF ClientWorkAdd
      <3>2. QED BY <2>0, <3>1 DEF Users
    <2>2. CASE WorkEnqueue(c)
      <3>1. submit' = [submit EXCEPT ![c] = NoWork] /\ UNCHANGED cpc
        BY <2>2 DEF WorkEnqueue, clientVars
      <3>2. QED BY <1>0, <2>0, <3>1 DEF Users
    <2>3. ASSUME NEW from, NEW to \in ClientPCs, ClientStep(c, from, to),
                 to \in {"load", "scan"} => phase = "live"
          PROVE  Users'
      <3>1. cpc' = [cpc EXCEPT ![c] = to] /\ UNCHANGED submit
        BY <2>3 DEF ClientStep, workVars
      <3>2. QED BY <1>0, <2>0, <2>3, <3>1 DEF Users
    <2>4. CASE WaiterWait(c) \/ WaiterReturn(c) \/ PoolWait(c)
      BY <2>3, <2>4 DEF WaiterWait, WaiterReturn, PoolWait, ClientPCs
    <2>5. CASE PoolWaitLoad(c) \/ PoolWaitScan(c)
      <3>1. phase = "live"
        BY <2>5 DEF PoolWaitLoad, PoolWaitScan, ClientStep, Users
      <3>2. QED BY <2>3, <2>5, <3>1 DEF PoolWaitLoad, PoolWaitScan, ClientPCs
    <2>6. QED BY <1>5, <2>1, <2>2, <2>4, <2>5 DEF ClientNext
  <1>6. QED
    BY <1>1, <1>2, <1>3, <1>4, <1>5 DEF Next, vars, poolVars, clientVars, workVars

\* During the drain no thread is left that could enqueue.
LEMMA NobodyEnqueues ==
    ASSUME Hands, Crew, Users, phase \in {"drain", "freed"}
    PROVE  \A t \in Threads : submit[t] = NoWork
  <1>1. \A i \in Idx : submit[i] = NoWork BY DEF Hands, Crew
  <1>2. \A c \in Clients : submit[c] = NoWork BY DEF Users
  <1>3. QED BY <1>1, <1>2 DEF Threads

LEMMA DrainedNext ==
    TypeOK /\ Hands /\ Crew /\ Users /\ Drained /\ [Next]_vars => Drained'
  <1> SUFFICES ASSUME TypeOK, Hands, Crew, Users, Drained, [Next]_vars PROVE Drained'
    OBVIOUS
  <1>0. /\ k \in Idx /\ Idx = 0 .. (WorkersCount - 1) /\ WorkersCount \in Nat \ {0}
        /\ queue \in [Idx -> SUBSET Works]
    BY PoolAssumption DEF TypeOK, PoolType, Idx, PoolAssumption
  <1>1. ASSUME UNCHANGED <<phase, k>>, \A j \in Idx : queue'[j] \subseteq queue[j]
        PROVE  Drained'
    BY <1>1 DEF Drained
  <1>2. CASE ReleaseDestroy
    <2>1. CASE k + 1 = WorkersCount
      BY <1>0, <1>2, <2>1 DEF ReleaseDestroy, Drained
    <2>2. CASE k + 1 # WorkersCount
      <3>1. /\ phase = "drain" /\ phase' = "drain" /\ k' = k + 1 /\ queue[k] = {}
            /\ UNCHANGED queue
        BY <1>2, <2>2 DEF ReleaseDestroy
      <3>2. \A j \in Idx : j < k' => j < k \/ j = k BY <1>0, <3>1
      <3>3. QED BY <3>1, <3>2 DEF Drained
    <2>3. QED BY <2>1, <2>2
  <1>3. CASE ReleaseDrain
    BY <1>0, <1>1, <1>3 DEF ReleaseDrain, poolVars
  <1>4. CASE ReleaseJoin
    BY <1>0, <1>4 DEF ReleaseJoin, Drained
  <1>5. CASE InitAlloc \/ InitQueue \/ InitStart \/ InitReturn \/ Release
    BY <1>5 DEF InitAlloc, InitQueue, InitStart, InitReturn, Release, Drained
  <1>6. ASSUME UNCHANGED <<phase, k>>, NEW t \in Threads,
               submit[t] # NoWork
        PROVE  Drained'
    BY <1>6, NobodyEnqueues DEF Drained
  <1>7. ASSUME NEW i \in Idx, WorkerNext(i) PROVE Drained'
    <2>1. UNCHANGED <<phase, k>> BY <1>7, WorkerEffect
    <2>2. CASE WorkEnqueue(i) BY <1>6, <2>1, <2>2 DEF WorkEnqueue, Threads
    <2>3. CASE WorkerSteal(i)
      <3>1. Victim(i) \in Idx BY VictimInRange DEF TypeOK
      <3>2. CASE TryDequeue(i, Victim(i))
        <4>1. \A j \in Idx : queue'[j] \subseteq queue[j]
          BY <1>0, <3>1, <3>2 DEF TryDequeue
        <4>2. QED BY <1>1, <2>1, <4>1
      <3>3. CASE UNCHANGED queue BY <1>1, <2>1, <3>3
      <3>4. QED BY <2>3, <3>2, <3>3 DEF WorkerSteal
    <2>4. CASE WorkerOwn(i) BY <1>0, <1>1, <2>1, <2>4 DEF WorkerOwn, TryDequeue
    <2>5. CASE ~WorkEnqueue(i) /\ ~WorkerSteal(i) /\ ~WorkerOwn(i)
      <3>1. UNCHANGED queue
        BY <1>7, <2>5 DEF WorkerNext, WorkerStart, WorkerCheckStop, WorkerExecute,
           WorkerReturn, WorkerFree, WorkerLeave, WorkerWorkAdd, WorkNew
      <3>2. QED BY <1>1, <2>1, <3>1
    <2>6. QED BY <2>2, <2>3, <2>4, <2>5
  <1>8. ASSUME NEW c \in Clients, ClientNext(c) PROVE Drained'
    <2>1. UNCHANGED <<phase, k>> BY <1>8, ClientEffect
    <2>2. CASE WorkEnqueue(c) BY <1>6, <2>1, <2>2 DEF WorkEnqueue, Threads
    <2>3. CASE ~WorkEnqueue(c)
      <3>1. UNCHANGED queue
        BY <1>8, <2>3 DEF ClientNext, ClientWorkAdd, WorkNew, WaiterWait, WaiterReturn,
           PoolWait, PoolWaitLoad, PoolWaitScan, ClientStep
      <3>2. QED BY <1>1, <2>1, <3>1
    <2>4. QED BY <2>2, <2>3
  <1>9. QED
    BY <1>1, <1>2, <1>3, <1>4, <1>5, <1>7, <1>8 DEF Next, OwnerNext, vars, poolVars

-----------------------------------------------------------------------------
(* The theorems about the pool's life *)

LEMMA LifeInit == Init => LifeInv
  <1> SUFFICES ASSUME Init PROVE LifeInv
    OBVIOUS
  <1>1. Stages /\ Crew /\ Users /\ Drained
    BY DEF Init, Stages, Crew, Users, Drained, Threads
  <1>2. Registered = {} /\ Running = {}
    BY DEF Init, Registered, InPool, Running
  <1>3. Counted BY <1>2, FS_EmptySet DEF Counted, Init
  <1>4. QED BY <1>1, <1>3 DEF LifeInv

\* The owner, the workers and the clients keep to the life of the pool.
LEMMA LifeInductive == Spec => [](PoolInv /\ LifeInv)
  <1>1. PoolInv /\ LifeInv /\ [Next]_vars => LifeInv'
    BY StagesNext, CrewNext, CountedNext, UsersNext, DrainedNext
       DEF PoolInv, WorksInv, LifeInv
  <1>2. QED BY <1>1, LifeInit, PoolInductive, PTL DEF Spec

\* The queues exist as long as a worker is in its loop, and the pool is live
\* as long as a client is in a call on it: threadpool_release destroys a queue
\* only after every join.
THEOREM PoolOutlivesItsUsers == Spec => []PoolOutlivesUsers
  <1>1. PoolInv /\ LifeInv => PoolOutlivesUsers
    <2> SUFFICES ASSUME PoolInv, LifeInv PROVE PoolOutlivesUsers
      OBVIOUS
    <2>1. ASSUME NEW i \in Idx, InPool(i)
          PROVE  queues = Idx /\ phase \notin {"drain", "freed"}
      <3>1. phase \notin {"none", "queues", "failed"}
        BY <2>1 DEF PoolInv, WorksInv, Startup, InPool
      <3>2. phase \notin {"drain", "freed"}
        BY <2>1 DEF LifeInv, Crew, InPool
      <3>3. phase \in Phases BY DEF PoolInv, WorksInv, TypeOK, PoolType
      <3>4. QED BY <3>1, <3>2, <3>3 DEF LifeInv, Stages, Phases
    <2>2. QED BY <2>1 DEF PoolOutlivesUsers, LifeInv, Users
  <1>2. QED BY <1>1, LifeInductive, PTL

\* When threadpool_init returns every worker is registered, a freed pool has
\* freed every work and queue and counts no thread, and a failed init leaves
\* no queue and no thread.
THEOREM PoolLifecycleHolds == Spec => []PoolLifecycle
  <1>1. PoolInv /\ LifeInv => PoolLifecycle
    <2> SUFFICES ASSUME PoolInv, LifeInv PROVE PoolLifecycle
      OBVIOUS
    <2> USE DEF PoolInv, WorksInv, LifeInv
    <2>1. ASSUME phase = "freed" PROVE heap = {} /\ queues = {} /\ working = 0 /\ alive = 0
      <3>1. \A i \in Idx : wpc[i] = "exited" /\ queue[i] = {} /\ work[i] = NoWork
        BY <2>1 DEF Crew, Drained, Hands
      <3>2. \A t \in Threads : submit[t] = NoWork
        BY <2>1, NobodyEnqueues
      <3>3. heap = {}
        <4>1. NoWork \notin heap
          BY DEF TypeOK, WorkType, Works, NoWork
        <4>2. QED
          BY <3>1, <3>2, <4>1 DEF Places, NoLeak, Queued, Executing, Offered
      <3>4. Registered = {} /\ Running = {}
        BY <3>1 DEF Registered, InPool, Running
      <3>5. QED BY <2>1, <3>3, <3>4, FS_EmptySet DEF Counted, Stages
    <2>2. QED BY <2>1 DEF PoolLifecycle, Crew, Stages, Startup
  <1>2. QED BY <1>1, LifeInductive, PTL

-----------------------------------------------------------------------------
(* What threadpool_wait gives a client *)

\* A work that is still in the hands of threadpool_work_add is in those of the
\* thread that added it.
ByAdder == \A t \in Threads : submit[t] # NoWork => adder[submit[t]] = t

\* Where an allocated work of a client can be while the client goes through
\* the queues: taken, or in a queue the scan still has to look at.
Ahead(c, w) == Executing(w) \/ \E j \in Idx : j >= scan[c] /\ w \in queue[j]

Scanned ==
    /\ \A c \in Clients : cpc[c] # "scan" => scan[c] = 0
    /\ \A c \in Clients : cpc[c] = "scan" =>
           \A w \in heap : adder[w] = c => Ahead(c, w)
    /\ WaitMeansTaken

\* Every step keeps ByAdder.
LEMMA ByAdderNext ==
    TypeOK /\ Hands /\ Places /\ ByAdder /\ [Next]_vars => ByAdder'
  <1> SUFFICES ASSUME TypeOK, Hands, Places, ByAdder, [Next]_vars PROVE ByAdder'
    OBVIOUS
  <1>0. /\ submit \in [Threads -> Works \union {NoWork}] /\ adder \in [Works -> Threads]
        /\ heap \subseteq 1 .. born /\ born \in Nat /\ Works = 1 .. MaxWorks
        /\ MaxWorks \in Nat /\ NoWork = 0 /\ Idx \subseteq Threads /\ Clients \subseteq Threads
    BY PoolAssumption DEF TypeOK, WorkType, Places, Fresh, Works, NoWork, Threads, PoolAssumption
  <1>1. CASE UNCHANGED <<submit, adder>>
    BY <1>1 DEF ByAdder
  <1>2. ASSUME NEW t \in Threads, NEW wt, WorkNew(t, wt) PROVE ByAdder'
    <2>1. /\ submit' = [submit EXCEPT ![t] = born + 1] /\ born < MaxWorks
          /\ adder' = [adder EXCEPT ![born + 1] = t]
      BY <1>2 DEF WorkNew
    <2>2. \A u \in Threads : submit[u] # NoWork => submit[u] \in heap
      BY DEF Places, SingleOwner
    <2>3. \A u \in Threads : submit[u] # born + 1
      BY <1>0, <2>2
    <2>4. QED BY <1>0, <2>1, <2>3 DEF ByAdder
  <1>3. ASSUME NEW t \in Threads, WorkEnqueue(t) PROVE ByAdder'
    BY <1>0, <1>3 DEF WorkEnqueue, ByAdder
  <1>4. CASE OwnerNext
    BY <1>1, <1>4 DEF OwnerNext, InitAlloc, InitQueue, InitStart, InitReturn, Release,
       ReleaseJoin, ReleaseDrain, ReleaseDestroy, workVars
  <1>5. ASSUME NEW i \in Idx, WorkerNext(i) PROVE ByAdder'
    <2>1. CASE WorkerWorkAdd(i) BY <1>0, <1>2, <2>1 DEF WorkerWorkAdd
    <2>2. CASE WorkEnqueue(i) BY <1>0, <1>3, <2>2
    <2>3. CASE ~WorkerWorkAdd(i) /\ ~WorkEnqueue(i)
      BY <1>1, <1>5, <2>3 DEF WorkerNext, WorkerStart, WorkerCheckStop, WorkerOwn,
         WorkerSteal, TryDequeue, WorkerExecute, WorkerReturn, WorkerFree, WorkerLeave,
         workVars
    <2>4. QED BY <2>1, <2>2, <2>3
  <1>6. ASSUME NEW c \in Clients, ClientNext(c) PROVE ByAdder'
    <2>1. CASE ClientWorkAdd(c) BY <1>0, <1>2, <2>1 DEF ClientWorkAdd
    <2>2. CASE WorkEnqueue(c) BY <1>0, <1>3, <2>2
    <2>3. CASE ~ClientWorkAdd(c) /\ ~WorkEnqueue(c)
      BY <1>1, <1>6, <2>3 DEF ClientNext, WaiterWait, WaiterReturn, PoolWait,
         PoolWaitLoad, PoolWaitScan, ClientStep, workVars
    <2>4. QED BY <2>1, <2>2, <2>3
  <1>7. QED BY <1>1, <1>4, <1>5, <1>6 DEF Next, vars, workVars

\* A step that lets no client begin, go on with or end a scan, adds no work of
\* a client that is in one, and moves a work only from a queue to a worker or
\* out of the heap.
LEMMA ScannedFrame ==
    ASSUME Scanned, UNCHANGED scan,
           \A c \in Clients : cpc'[c] # cpc[c] =>
               cpc[c] # "scan" /\ cpc'[c] \notin {"scan", "waited"},
           \A c \in Clients : cpc'[c] \in {"scan", "waited"} =>
               \A w \in heap' : adder'[w] = c => w \in heap /\ adder[w] = c,
           \A w \in heap' : \A j \in Idx : w \in queue[j] =>
               w \in queue'[j] \/ Executing(w)',
           \A w \in heap' : Executing(w) => Executing(w)'
    PROVE  Scanned'
  BY DEF Scanned, Ahead, WaitMeansTaken

\* The steps that move a work keep what the scans rely on.
LEMMA ScannedMoves ==
    ASSUME TypeOK, Hands, Places, Scanned, Moves, UNCHANGED scan,
           \A c \in Clients : cpc'[c] # cpc[c] =>
               cpc[c] # "scan" /\ cpc'[c] \notin {"scan", "waited"},
           \A c \in Clients : cpc'[c] \in {"scan", "waited"} =>
               \A w \in heap' : adder'[w] = c => w \in heap /\ adder[w] = c
    PROVE  Scanned'
  <1>0. /\ queue \in [Idx -> SUBSET Works] /\ work \in [Idx -> Works \union {NoWork}]
        /\ heap \subseteq Works /\ NoWork \notin Works
    BY DEF TypeOK, WorkerType, WorkType, NoWork, Works
  <1>1. ASSUME NEW t \in Threads,
               MoveNew(t) \/ MoveRefuse(t) \/ \E j \in Idx : MoveAccept(t, j)
        PROVE  Scanned'
    <2>1. UNCHANGED work /\ \A j \in Idx : queue[j] \subseteq queue'[j]
      BY <1>0, <1>1 DEF MoveNew, MoveRefuse, MoveAccept
    <2>2. QED BY <2>1, ScannedFrame DEF Executing
  <1>2. ASSUME NEW i \in Idx, MoveFree(i) PROVE Scanned'
    <2>1. \A w \in heap' : Executing(w) => Executing(w)'
      BY <1>0, <1>2 DEF MoveFree, Executing
    <2>2. QED BY <1>2, <2>1, ScannedFrame DEF MoveFree
  <1>3. ASSUME NEW i \in Idx, NEW j \in Idx, NEW v \in Works, MoveTake(i, j, v)
        PROVE  Scanned'
    <2>1. Executing(v)' BY <1>0, <1>3 DEF MoveTake, Executing
    <2>2. \A w \in heap' : Executing(w) => Executing(w)'
      BY <1>0, <1>3 DEF MoveTake, Executing
    <2>3. \A w \in heap' : \A l \in Idx : w \in queue[l] => w \in queue'[l] \/ w = v
      BY <1>0, <1>3 DEF MoveTake
    <2>4. QED BY <2>1, <2>2, <2>3, ScannedFrame
  <1>4. ASSUME NEW j \in Idx, NEW v \in Works, MoveDrop(j, v) PROVE Scanned'
    <2>1. \A w \in heap' : \A l \in Idx : w \in queue[l] => w \in queue'[l]
      BY <1>0, <1>4 DEF MoveDrop
    <2>2. UNCHANGED work BY <1>4 DEF MoveDrop
    <2>3. QED BY <2>1, <2>2, ScannedFrame DEF Executing
  <1>5. QED BY <1>1, <1>2, <1>3, <1>4 DEF Moves

\* Every step keeps Scanned.
LEMMA ScannedNext ==
    TypeOK /\ Hands /\ Places /\ ByAdder /\ Scanned /\ [Next]_vars => Scanned'
  <1> SUFFICES ASSUME TypeOK, Hands, Places, ByAdder, Scanned, [Next]_vars PROVE Scanned'
    OBVIOUS
  <1>0. /\ cpc \in [Clients -> ClientPCs] /\ scan \in [Clients -> Idx]
        /\ adder \in [Works -> Threads] /\ heap \subseteq 1 .. born /\ born \in Nat
        /\ Works = 1 .. MaxWorks /\ MaxWorks \in Nat /\ heap \subseteq Works
        /\ Idx \subseteq Threads /\ Clients \subseteq Threads /\ Idx \intersect Clients = {}
        /\ Idx = 0 .. (WorkersCount - 1) /\ WorkersCount \in Nat
    BY PoolAssumption DEF TypeOK, ClientType, WorkType, Places, Fresh, Works, Threads, Idx,
       PoolAssumption
  <1>1. ASSUME UNCHANGED scan,
               \A c \in Clients : cpc'[c] # cpc[c] =>
                   cpc[c] # "scan" /\ cpc'[c] \notin {"scan", "waited"},
               \A c \in Clients : cpc'[c] \in {"scan", "waited"} =>
                   \A w \in heap' : adder'[w] = c => w \in heap /\ adder[w] = c
        PROVE  Scanned'
    <2>1. CASE Moves BY <1>1, <2>1, ScannedMoves
    <2>2. CASE UNCHANGED placeVars
      BY <1>1, <2>2, ScannedFrame DEF placeVars, Executing
    <2>3. QED BY <2>1, <2>2, NextMoves
  <1>2. ASSUME NEW t \in Threads, NEW wt, WorkNew(t, wt), NEW c \in Clients, t # c
        PROVE  \A w \in heap' : adder'[w] = c => w \in heap /\ adder[w] = c
    <2>1. born < MaxWorks /\ heap' = heap \union {born + 1}
          /\ adder' = [adder EXCEPT ![born + 1] = t]
      BY <1>2 DEF WorkNew
    <2>2. QED BY <1>0, <1>2, <2>1
  <1>3. CASE OwnerNext
    <2>1. UNCHANGED <<cpc, scan, adder>> /\ heap' \subseteq heap
      BY <1>3 DEF OwnerNext, InitAlloc, InitQueue, InitStart, InitReturn, Release,
         ReleaseJoin, ReleaseDrain, ReleaseDestroy, WorkFree, clientVars, workVars
    <2>2. QED BY <1>1, <2>1
  <1>4. ASSUME NEW t \in Threads, WorkEnqueue(t) PROVE Scanned'
    <2>1. UNCHANGED <<cpc, scan, adder>> /\ heap' \subseteq heap
      BY <1>4 DEF WorkEnqueue, WorkFree, clientVars
    <2>2. QED BY <1>1, <2>1
  <1>5. ASSUME NEW i \in Idx, WorkerNext(i) PROVE Scanned'
    <2>1. UNCHANGED <<cpc, scan>> BY <1>5, WorkerEffect
    <2>2. CASE WorkerWorkAdd(i)
      <3>1. PICK wt \in {waiter[work[i]], NoWaiter} : WorkNew(i, wt)
        BY <2>2 DEF WorkerWorkAdd
      <3>2. \A c \in Clients : i # c /\ i \in Threads BY <1>0
      <3>3. QED BY <1>1, <1>2, <2>1, <3>1, <3>2
    <2>3. CASE WorkEnqueue(i) BY <1>0, <1>4, <2>3
    <2>4. CASE ~WorkerWorkAdd(i) /\ ~WorkEnqueue(i)
      <3>1. UNCHANGED adder /\ heap' \subseteq heap
        BY <1>5, <2>4 DEF WorkerNext, WorkerStart, WorkerCheckStop, WorkerOwn, WorkerSteal,
           TryDequeue, WorkerExecute, WorkerReturn, WorkerFree, WorkFree, WorkerLeave, workVars
      <3>2. QED BY <1>1, <2>1, <3>1
    <2>5. QED BY <2>2, <2>3, <2>4
  <1>6. ASSUME NEW c \in Clients, ClientNext(c) PROVE Scanned'
    <2>1. CASE ClientWorkAdd(c)
      <3>1. PICK wt \in {c, NoWaiter} : WorkNew(c, wt)
        BY <2>1 DEF ClientWorkAdd
      <3>2. cpc' = [cpc EXCEPT ![c] = "idle"] /\ UNCHANGED scan
            /\ cpc[c] \in {"idle", "joined", "waited"}
        BY <2>1, <3>1 DEF ClientWorkAdd, Ready, WorkNew
      <3>3. \A d \in Clients \ {c} : cpc'[d] = cpc[d]
        BY <1>0, <3>2
      <3>4. \A d \in Clients \ {c} : \A w \in heap' :
                adder'[w] = d => w \in heap /\ adder[w] = d
        BY <1>0, <1>2, <3>1
      <3>5. QED BY <1>0, <1>1, <3>2, <3>3, <3>4
    <2>2. CASE WorkEnqueue(c) BY <1>0, <1>4, <2>2
    <2>3. CASE WaiterWait(c) \/ WaiterReturn(c) \/ PoolWait(c)
      <3>1. /\ \E p \in {"waiter", "joined", "load"} : cpc' = [cpc EXCEPT ![c] = p]
            /\ cpc[c] # "scan" /\ UNCHANGED <<scan, heap, adder>>
        BY <2>3 DEF WaiterWait, WaiterReturn, PoolWait, Ready, ClientStep, workVars
      <3>2. QED BY <1>0, <1>1, <3>1
    <2>4. CASE PoolWaitLoad(c)
      <3>1. /\ cpc[c] = "load" /\ cpc' = [cpc EXCEPT ![c] = "scan"]
            /\ UNCHANGED <<scan, heap, adder, queue, work>>
        BY <2>4 DEF PoolWaitLoad, ClientStep, workVars, workerVars
      <3>2. submit[c] = NoWork BY <3>1 DEF Hands
      <3>3. ASSUME NEW w \in heap, adder[w] = c PROVE Ahead(c, w)
        <4>1. ~Offered(w)
          <5>1. w # NoWork BY <1>0 DEF NoWork
          <5>2. QED BY <3>2, <3>3, <5>1 DEF Offered, ByAdder
        <4>2. Queued(w) \/ Executing(w) BY <4>1 DEF Places, NoLeak
        <4>3. scan[c] = 0 BY <3>1 DEF Scanned
        <4>4. QED BY <1>0, <4>2, <4>3 DEF Queued, Ahead
      <3>4. QED
        BY <1>0, <3>1, <3>3 DEF Scanned, Ahead, WaitMeansTaken, Executing
    <2>5. CASE PoolWaitScan(c)
      <3>0. /\ cpc[c] = "scan" /\ UNCHANGED <<heap, adder, queue, work>> /\ 0 \in Idx
            /\ scan[c] \in Nat
        BY <1>0, <2>5, IdxFacts DEF PoolWaitScan, ClientStep, workVars, workerVars
      <3>1. CASE cpc' = [cpc EXCEPT ![c] = "load"] /\ scan' = [scan EXCEPT ![c] = 0]
        <4>1. \A d \in Clients \ {c} : scan'[d] = scan[d] /\ cpc'[d] = cpc[d]
          BY <1>0, <3>1
        <4>2. cpc'[c] = "load" /\ scan'[c] = 0 BY <1>0, <3>0, <3>1
        <4>3. QED
          BY <3>0, <4>1, <4>2 DEF Scanned, Ahead, WaitMeansTaken, Executing
      <3>2. CASE /\ queue[scan[c]] = {} /\ cpc' = [cpc EXCEPT ![c] = "scan"]
                 /\ scan' = [scan EXCEPT ![c] = @ + 1]
        <4>1. ASSUME NEW w \in heap, adder[w] = c PROVE Ahead(c, w)'
          <5>1. Ahead(c, w) BY <3>0, <4>1 DEF Scanned
          <5>2. scan'[c] = scan[c] + 1 BY <1>0, <3>2
          <5>3. QED BY <1>0, <3>0, <3>2, <5>1, <5>2 DEF Ahead, Executing
        <4>2. \A d \in Clients \ {c} : scan'[d] = scan[d] /\ cpc'[d] = cpc[d]
          BY <1>0, <3>2
        <4>3. cpc'[c] = "scan" BY <1>0, <3>2
        <4>4. QED
          BY <3>0, <4>1, <4>2, <4>3 DEF Scanned, Ahead, WaitMeansTaken, Executing
      <3>3. CASE /\ queue[scan[c]] = {} /\ scan[c] + 1 = WorkersCount
                 /\ cpc' = [cpc EXCEPT ![c] = "waited"] /\ scan' = [scan EXCEPT ![c] = 0]
        <4>1. ASSUME NEW w \in heap, adder[w] = c PROVE Executing(w)
          <5>1. Ahead(c, w) BY <3>0, <4>1 DEF Scanned
          <5>2. \A j \in Idx : j >= scan[c] => j = scan[c] BY <1>0, <3>0, <3>3
          <5>3. QED BY <3>3, <5>1, <5>2 DEF Ahead
        <4>2. \A d \in Clients \ {c} : scan'[d] = scan[d] /\ cpc'[d] = cpc[d]
          BY <1>0, <3>3
        <4>3. cpc'[c] = "waited" /\ scan'[c] = 0 BY <1>0, <3>0, <3>3
        <4>4. QED
          BY <3>0, <4>1, <4>2, <4>3 DEF Scanned, Ahead, WaitMeansTaken, Executing
      <3>4. QED
        BY <2>5, <3>1, <3>2, <3>3 DEF PoolWaitScan, ClientStep
    <2>6. QED BY <1>6, <2>1, <2>2, <2>3, <2>4, <2>5 DEF ClientNext
  <1>7. CASE UNCHANGED vars
    BY <1>1, <1>7 DEF vars, clientVars, workVars
  <1>8. QED BY <1>3, <1>5, <1>6, <1>7 DEF Next

\* threadpool_wait returns to a client only when a worker has taken every work
\* the client added: each is freed or in the hands of a worker, even though
\* the loop looks at the queues one after the other, without a lock, while
\* the workers steal from each other and other threads add work.
THEOREM WaitTakesAll == Spec => []WaitMeansTaken
  <1>1. Init => ByAdder /\ Scanned
    BY DEF Init, ByAdder, Scanned, WaitMeansTaken, Threads
  <1>2. PoolInv /\ ByAdder /\ Scanned /\ [Next]_vars => ByAdder' /\ Scanned'
    BY ByAdderNext, ScannedNext DEF PoolInv, WorksInv
  <1>3. Scanned => WaitMeansTaken
    BY DEF Scanned
  <1>4. QED BY <1>1, <1>2, <1>3, PoolInductive, PTL DEF Spec

(***************************************************************************)
(* The refinement. Under the mapping Ledger of ThreadPool, every step of   *)
(* the owner, of a worker and of a client is a step of the ledger or       *)
(* leaves the ledger as it is.                                             *)
(***************************************************************************)

-----------------------------------------------------------------------------
(* The mapping *)

\* The ledger's variables, as the pool defines them.
LState == [w \in Works |-> StateOf(w)]
LJoined == {c \in Clients : cpc[c] = "joined"}

Inv == PoolInv /\ LifeInv

\* Facts the steps below share.
Facts ==
    /\ heap \subseteq 1 .. born /\ born \in Nat /\ MaxWorks \in Nat /\ born <= MaxWorks
    /\ Works = 1 .. MaxWorks /\ NoWork = 0
    /\ submit \in [Threads -> Works \union {NoWork}] /\ fate \in [Works -> Fates]
    /\ waiter \in [Works -> Waiters \union {NoWaiter}]
    /\ cpc \in [Clients -> ClientPCs] /\ work \in [Idx -> Works \union {NoWork}]
    /\ queue \in [Idx -> SUBSET Works] /\ k \in Idx
    /\ Idx \subseteq Threads /\ Clients \subseteq Threads /\ stop \in BOOLEAN
    /\ NoWaiter \notin Clients

\* The facts follow from the two invariants.
LEMMA FactsHold == Inv => Facts
  BY PoolAssumption
     DEF Inv, PoolInv, WorksInv, TypeOK, PoolType, WorkerType, ClientType, WorkType, Places,
         Fresh, Works, NoWork, Threads, PoolAssumption, Facts

\* The five states of a work, read off the pool's variables.
LEMMA StateFacts ==
    ASSUME Facts, NEW w \in Works
    PROVE  /\ w > born => StateOf(w) = "unborn"
           /\ w <= born /\ w \notin heap => StateOf(w) = "retired"
           /\ w \in heap /\ fate[w] = "running" => StateOf(w) = "running"
           /\ w \in heap /\ fate[w] = "done" => StateOf(w) = "done"
           /\ w \in heap /\ fate[w] \notin {"running", "done"} /\ Offered(w)
                => StateOf(w) = "offered"
           /\ w \in heap /\ fate[w] \notin {"running", "done"} /\ ~Offered(w)
                => StateOf(w) = "accepted"
  BY DEF Facts, StateOf

\* The state of a work depends on what the pool knows of this work only.
LEMMA StateFrame ==
    ASSUME Facts, Facts', NEW w \in Works,
           w > born' <=> w > born, w \in heap' <=> w \in heap, fate'[w] = fate[w],
           Offered(w)' <=> Offered(w)
    PROVE  StateOf(w)' = StateOf(w)
  BY DEF Facts, StateOf

\* One work changes its state and every other work keeps its own.
LEMMA Moved ==
    ASSUME NEW v \in Works, NEW from, NEW to, StateOf(v) = from, StateOf(v)' = to,
           \A w \in Works : w # v => StateOf(w)' = StateOf(w)
    PROVE  Ledger!Move(v, from, to)
  <1>1. LState[v] = from BY DEF LState
  <1>2. LState' = [LState EXCEPT ![v] = to]
    BY DEF LState
  <1>3. QED BY <1>1, <1>2 DEF LState, Ledger!Move

\* What the pool does without anybody noticing.
LEMMA Unnoticed ==
    ASSUME UNCHANGED <<submit, born, heap, fate, waiter, stop>>, LJoined' = LJoined
    PROVE  UNCHANGED Ledger!ledger
  <1>1. \A w \in Works : StateOf(w)' = StateOf(w)
    BY DEF StateOf, Offered
  <1>2. LState' = LState BY <1>1 DEF LState
  <1>3. QED BY <1>2 DEF Ledger!ledger, LState, LJoined

-----------------------------------------------------------------------------
(* Adding a work *)

\* work_new offers work born + 1.
LEMMA NewOffers ==
    ASSUME Inv, Inv', NEW t \in Threads, NEW wt \in Waiters \union {NoWaiter}, WorkNew(t, wt),
           UNCHANGED stop, LJoined' \subseteq LJoined \ {wt}
    PROVE  Ledger!LedgerNext
  <1> PICK v \in Nat : v = born + 1
    BY FactsHold DEF Facts
  <1>0. Facts /\ Facts' BY FactsHold, PTL
  <1>1. /\ born < MaxWorks /\ submit[t] = NoWork /\ born' = v /\ heap' = heap \union {v}
        /\ submit' = [submit EXCEPT ![t] = v] /\ waiter' = [waiter EXCEPT ![v] = wt]
        /\ UNCHANGED fate
    BY DEF WorkNew
  <1>2. v \in Works /\ v > born BY <1>0, <1>1 DEF Facts
  <1>3. fate[v] = "pending"
    BY <1>2 DEF Inv, PoolInv, FateInv
  <1>4. StateOf(v) = "unborn" BY <1>0, <1>2, StateFacts
  <1>5. StateOf(v)' = "offered"
    <2>1. Offered(v)' BY <1>0, <1>1 DEF Offered, Facts
    <2>2. v \in heap' /\ fate'[v] \notin {"running", "done"} BY <1>1, <1>3
    <2>3. v <= born' /\ ~(v > born') BY <1>0, <1>1 DEF Facts
    <2>4. QED BY <2>1, <2>2, <2>3 DEF StateOf
  <1>6. ASSUME NEW w \in Works, w # v PROVE StateOf(w)' = StateOf(w)
    <2>1. (w > born' <=> w > born) /\ (w \in heap' <=> w \in heap) /\ fate'[w] = fate[w]
      BY <1>0, <1>1, <1>6 DEF Facts
    <2>2. Offered(w)' <=> Offered(w)
      BY <1>0, <1>1, <1>6 DEF Offered, Facts
    <2>3. QED BY <1>0, <2>1, <2>2, StateFrame
  <1>7. Ledger!Move(v, "unborn", "offered") BY <1>2, <1>4, <1>5, <1>6, Moved
  <1>8. Ledger!Offer(v, wt)
    BY <1>1, <1>7 DEF Ledger!Offer, LJoined
  <1>9. QED BY <1>2, <1>8 DEF Ledger!LedgerNext

\* The enqueue accepts or refuses the work in hand.
LEMMA EnqueueDecides ==
    ASSUME Inv, Inv', NEW t \in Threads, WorkEnqueue(t)
    PROVE  Ledger!LedgerNext
  <1> PICK v : v = submit[t]
    OBVIOUS
  <1>0. Facts /\ Facts' BY FactsHold, PTL
  <1>1. /\ v # NoWork /\ submit' = [submit EXCEPT ![t] = NoWork]
        /\ UNCHANGED <<stop, cpc, born, waiter>>
    BY DEF WorkEnqueue, clientVars
  <1>2. v \in Works /\ v \in heap /\ fate[v] = "pending" /\ Offered(v)
    <2>1. v \in heap BY <1>1 DEF Inv, PoolInv, WorksInv, Places, SingleOwner
    <2>2. fate[v] = "pending" BY <1>1 DEF Inv, PoolInv, FateInv
    <2>3. QED BY <1>0, <1>1, <2>1, <2>2 DEF Offered, Facts
  <1>3. StateOf(v) = "offered" BY <1>0, <1>2, StateFacts
  <1>4. ~Offered(v)'
    <2>1. \A u \in Threads : u # t => submit[u] # v
      BY <1>1 DEF Inv, PoolInv, WorksInv, Places, SingleOwner
    <2>2. QED BY <1>0, <1>1, <2>1 DEF Offered, Facts
  <1>5. \A w \in Works : w # v => (Offered(w)' <=> Offered(w))
    BY <1>0, <1>1 DEF Offered, Facts
  <1>6. LJoined' = LJoined /\ v <= born /\ born' = born
    BY <1>0, <1>1, <1>2 DEF LJoined, Facts
  <1>7. CASE UNCHANGED <<heap, fate>>
    <2>1. StateOf(v)' = "accepted"
      <3>1. v \in heap' /\ fate'[v] \notin {"running", "done"} /\ v <= born' /\ ~(v > born')
        BY <1>0, <1>2, <1>6, <1>7 DEF Facts
      <3>2. QED BY <1>4, <3>1 DEF StateOf
    <2>2. \A w \in Works : w # v => StateOf(w)' = StateOf(w)
      BY <1>0, <1>5, <1>6, <1>7, StateFrame
    <2>3. Ledger!Move(v, "offered", "accepted") BY <1>2, <1>3, <2>1, <2>2, Moved
    <2>4. Ledger!Accept(v) BY <1>1, <1>6, <2>3 DEF Ledger!Accept, LJoined
    <2>5. QED BY <1>2, <2>4 DEF Ledger!LedgerNext
  <1>8. CASE heap' = heap \ {v} /\ fate' = [fate EXCEPT ![v] = "refused"]
    <2>1. StateOf(v)' = "retired"
      <3>1. v \notin heap' /\ v <= born' /\ ~(v > born')
        BY <1>0, <1>2, <1>6, <1>8 DEF Facts
      <3>2. QED BY <3>1 DEF StateOf
    <2>2. ASSUME NEW w \in Works, w # v PROVE StateOf(w)' = StateOf(w)
      <3>1. (w \in heap' <=> w \in heap) /\ fate'[w] = fate[w]
        BY <1>0, <1>8, <2>2 DEF Facts
      <3>2. QED BY <1>0, <1>5, <1>6, <2>2, <3>1, StateFrame
    <2>3. Ledger!Move(v, "offered", "retired") BY <1>2, <1>3, <2>1, <2>2, Moved
    <2>4. Ledger!Refuse(v) BY <1>1, <1>6, <2>3 DEF Ledger!Refuse, LJoined
    <2>5. QED BY <1>2, <2>4 DEF Ledger!LedgerNext
  <1>9. QED BY <1>7, <1>8 DEF WorkEnqueue, WorkFree

-----------------------------------------------------------------------------
(* Executing a work and giving it up *)

\* A step of a worker or of the owner that changes the heap or the fate of one
\* work: the other works keep their state.
LEMMA OthersKept ==
    ASSUME Facts, Facts', NEW v \in Works, UNCHANGED <<submit, born>>,
           \A w \in Works : w # v => (w \in heap' <=> w \in heap) /\ fate'[w] = fate[w]
    PROVE  \A w \in Works : w # v => StateOf(w)' = StateOf(w)
  BY StateFrame DEF Offered

\* What a worker holds is an allocated work that is no longer offered.
LEMMA Held ==
    ASSUME Inv, Facts, NEW i \in Idx, work[i] # NoWork
    PROVE  work[i] \in Works /\ work[i] \in heap /\ ~Offered(work[i]) /\ work[i] <= born
  <1>1. work[i] \in heap
    BY DEF Inv, PoolInv, WorksInv, Places, SingleOwner
  <1>2. \A t \in Threads : submit[t] # NoWork => submit[t] # work[i]
    BY DEF Inv, PoolInv, WorksInv, Places, SingleOwner
  <1>3. QED BY <1>1, <1>2 DEF Offered, Facts

\* Entering the function starts the work.
LEMMA ExecuteStarts ==
    ASSUME Inv, Inv', NEW i \in Idx, WorkerExecute(i)
    PROVE  Ledger!LedgerNext
  <1>0. Facts /\ Facts' BY FactsHold, PTL
  <1> PICK v : v = work[i]
    OBVIOUS
  <1>1. /\ wpc[i] = "exec" /\ fate' = [fate EXCEPT ![v] = "running"]
        /\ UNCHANGED <<submit, born, heap, waiter, stop, cpc>>
    BY DEF WorkerExecute, poolVars, clientVars
  <1>2. v # NoWork BY <1>1 DEF Inv, PoolInv, WorksInv, Hands
  <1>3. v \in Works /\ v \in heap /\ ~Offered(v) BY <1>0, <1>2, Held
  <1>4. fate[v] = "pending" BY <1>1 DEF Inv, PoolInv, FateInv
  <1>5. StateOf(v) = "accepted" BY <1>0, <1>3, <1>4, StateFacts
  <1>6. StateOf(v)' = "running"
    <2>1. v \in heap' /\ fate'[v] = "running" /\ v <= born' /\ ~(v > born')
      BY <1>0, <1>1, <1>3 DEF Facts
    <2>2. QED BY <2>1 DEF StateOf
  <1>7. \A w \in Works : w # v => (w \in heap' <=> w \in heap) /\ fate'[w] = fate[w]
    BY <1>0, <1>1 DEF Facts
  <1>8. Ledger!Move(v, "accepted", "running")
    BY <1>0, <1>1, <1>3, <1>5, <1>6, <1>7, OthersKept, Moved
  <1>9. Ledger!Start(v) BY <1>1, <1>8 DEF Ledger!Start
  <1>10. QED BY <1>3, <1>9 DEF Ledger!LedgerNext

\* Leaving it finishes the work.
LEMMA ReturnFinishes ==
    ASSUME Inv, Inv', NEW i \in Idx, WorkerReturn(i)
    PROVE  Ledger!LedgerNext
  <1>0. Facts /\ Facts' BY FactsHold, PTL
  <1> PICK v : v = work[i]
    OBVIOUS
  <1>1. /\ wpc[i] = "run" /\ fate' = [fate EXCEPT ![v] = "done"]
        /\ UNCHANGED <<submit, born, heap, waiter, stop, cpc>>
    BY DEF WorkerReturn, poolVars, clientVars
  <1>2. v # NoWork BY <1>1 DEF Inv, PoolInv, WorksInv, Hands
  <1>3. v \in Works /\ v \in heap BY <1>0, <1>2, Held
  <1>4. fate[v] = "running" BY <1>1 DEF Inv, PoolInv, FateInv
  <1>5. StateOf(v) = "running" BY <1>0, <1>3, <1>4, StateFacts
  <1>6. StateOf(v)' = "done"
    <2>1. v \in heap' /\ fate'[v] = "done" /\ v <= born' /\ ~(v > born')
      BY <1>0, <1>1, <1>3 DEF Facts
    <2>2. QED BY <2>1 DEF StateOf
  <1>7. \A w \in Works : w # v => (w \in heap' <=> w \in heap) /\ fate'[w] = fate[w]
    BY <1>0, <1>1 DEF Facts
  <1>8. Ledger!Move(v, "running", "done")
    BY <1>0, <1>1, <1>3, <1>5, <1>6, <1>7, OthersKept, Moved
  <1>9. Ledger!Finish(v) BY <1>1, <1>8 DEF Ledger!Finish
  <1>10. QED BY <1>3, <1>9 DEF Ledger!LedgerNext

\* work_free retires the work.
LEMMA FreeRetires ==
    ASSUME Inv, Inv', NEW i \in Idx, WorkerFree(i)
    PROVE  Ledger!LedgerNext
  <1>0. Facts /\ Facts' BY FactsHold, PTL
  <1> PICK v : v = work[i]
    OBVIOUS
  <1>1. /\ wpc[i] = "free" /\ heap' = heap \ {v}
        /\ UNCHANGED <<submit, born, fate, waiter, stop, cpc>>
    BY DEF WorkerFree, WorkFree, poolVars, clientVars
  <1>2. v # NoWork BY <1>1 DEF Inv, PoolInv, WorksInv, Hands
  <1>3. v \in Works /\ v \in heap /\ v <= born BY <1>0, <1>2, Held
  <1>4. fate[v] = "done" BY <1>1 DEF Inv, PoolInv, FateInv
  <1>5. StateOf(v) = "done" BY <1>0, <1>3, <1>4, StateFacts
  <1>6. StateOf(v)' = "retired"
    <2>1. v \notin heap' /\ v <= born' /\ ~(v > born')
      BY <1>0, <1>1, <1>3 DEF Facts
    <2>2. QED BY <2>1 DEF StateOf
  <1>7. \A w \in Works : w # v => (w \in heap' <=> w \in heap) /\ fate'[w] = fate[w]
    BY <1>1
  <1>8. Ledger!Move(v, "done", "retired")
    BY <1>0, <1>1, <1>3, <1>5, <1>6, <1>7, OthersKept, Moved
  <1>9. Ledger!Retire(v) BY <1>1, <1>8 DEF Ledger!Retire
  <1>10. QED BY <1>3, <1>9 DEF Ledger!LedgerNext

\* threadpool_release drops an accepted work, after stop.
LEMMA DrainDrops ==
    ASSUME Inv, Inv', ReleaseDrain
    PROVE  Ledger!LedgerNext
  <1>0. Facts /\ Facts' BY FactsHold, PTL
  <1>1. PICK v \in queue[k] : heap' = heap \ {v} /\ fate' = [fate EXCEPT ![v] = "dropped"]
    BY DEF ReleaseDrain, WorkFree
  <1>2. phase = "drain" /\ UNCHANGED <<submit, born, waiter, stop, cpc>>
    BY DEF ReleaseDrain, poolVars, clientVars
  <1>3. v \in Works /\ v \in heap /\ v <= born /\ ~Offered(v)
    <2>1. v \in heap
      BY <1>0 DEF Inv, PoolInv, WorksInv, Places, SingleOwner, Facts
    <2>2. \A t \in Threads : submit[t] # NoWork => submit[t] # v
      BY <1>0 DEF Inv, PoolInv, WorksInv, Places, SingleOwner, Facts
    <2>3. QED BY <1>0, <2>1, <2>2 DEF Offered, Facts
  <1>4. fate[v] = "pending" BY <1>0 DEF Inv, PoolInv, FateInv, Facts
  <1>5. StateOf(v) = "accepted" BY <1>0, <1>3, <1>4, StateFacts
  <1>6. StateOf(v)' = "retired"
    <2>1. v \notin heap' /\ v <= born' /\ ~(v > born')
      BY <1>0, <1>1, <1>2, <1>3 DEF Facts
    <2>2. QED BY <2>1 DEF StateOf
  <1>7. \A w \in Works : w # v => (w \in heap' <=> w \in heap) /\ fate'[w] = fate[w]
    BY <1>0, <1>1 DEF Facts
  <1>8. Ledger!Move(v, "accepted", "retired")
    BY <1>0, <1>2, <1>3, <1>5, <1>6, <1>7, OthersKept, Moved
  <1>9. stop = TRUE BY <1>2 DEF Inv, PoolInv, Stopped
  <1>10. Ledger!Drop(v) BY <1>2, <1>8, <1>9 DEF Ledger!Drop
  <1>11. QED BY <1>3, <1>10 DEF Ledger!LedgerNext

-----------------------------------------------------------------------------
(* The steps of the three kinds of threads *)

\* Every step of the owner is a step of the ledger or leaves it as it is.
LEMMA OwnerLedger ==
    ASSUME Inv, Inv', OwnerNext
    PROVE  [Ledger!LedgerNext]_Ledger!ledger
  <1>1. CASE Release
    <2>1. UNCHANGED <<submit, born, heap, fate, waiter, cpc>> /\ stop' = TRUE /\ phase = "live"
      BY <1>1 DEF Release, clientVars, workVars
    <2>2. stop = FALSE
      <3>1. stop \in BOOLEAN BY FactsHold DEF Facts
      <3>2. stop # TRUE BY <2>1 DEF Inv, LifeInv, Crew
      <3>3. QED BY <3>1, <3>2
    <2>3. \A w \in Works : StateOf(w)' = StateOf(w) BY <2>1 DEF StateOf, Offered
    <2>4. LState' = LState BY <2>3 DEF LState
    <2>5. (~stop) /\ (~stop)' = FALSE BY <2>1, <2>2
    <2>6. Ledger!Close BY <2>1, <2>4, <2>5 DEF Ledger!Close, LState
    <2>7. QED BY <2>6 DEF Ledger!LedgerNext
  <1>2. CASE ReleaseDrain BY <1>2, DrainDrops
  <1>3. CASE ~Release /\ ~ReleaseDrain
    <2>1. UNCHANGED <<submit, born, heap, fate, waiter, stop, cpc>>
      BY <1>3 DEF OwnerNext, InitAlloc, InitQueue, InitStart, InitReturn, ReleaseJoin,
         ReleaseDestroy, clientVars, workVars
    <2>2. QED BY <2>1, Unnoticed DEF LJoined
  <1>4. QED BY <1>1, <1>2, <1>3

\* So is every step of a worker ...
LEMMA WorkerLedger ==
    ASSUME Inv, Inv', NEW i \in Idx, WorkerNext(i)
    PROVE  [Ledger!LedgerNext]_Ledger!ledger
  <1>0. Facts BY FactsHold
  <1>1. CASE WorkerExecute(i) BY <1>1, ExecuteStarts
  <1>2. CASE WorkerReturn(i) BY <1>2, ReturnFinishes
  <1>3. CASE WorkerFree(i) BY <1>3, FreeRetires
  <1>4. CASE WorkEnqueue(i) BY <1>0, <1>4, EnqueueDecides DEF Facts
  <1>5. CASE WorkerWorkAdd(i)
    <2>1. PICK wt \in {waiter[work[i]], NoWaiter} : WorkNew(i, wt)
      BY <1>5 DEF WorkerWorkAdd
    <2>2. wpc[i] = "run" /\ UNCHANGED <<cpc, stop>>
      BY <1>5, <2>1 DEF WorkerWorkAdd, WorkNew, poolVars
    <2>3. work[i] \in Works /\ work[i] \in heap
      <3>1. work[i] # NoWork BY <2>2 DEF Inv, PoolInv, WorksInv, Hands
      <3>2. QED BY <1>0, <3>1, Held
    <2>4. wt \in Waiters \union {NoWaiter} BY <1>0, <2>3 DEF Facts
    <2>5. wt \notin LJoined
      BY <1>0, <2>3 DEF LJoined, Facts, Inv, PoolInv, Joined
    <2>6. LJoined' = LJoined BY <2>2 DEF LJoined
    <2>7. QED BY <1>0, <2>1, <2>2, <2>4, <2>5, <2>6, NewOffers DEF Facts
  <1>6. CASE WorkerStart(i) \/ WorkerCheckStop(i) \/ WorkerOwn(i) \/ WorkerSteal(i)
             \/ WorkerLeave(i)
    <2>1. UNCHANGED <<submit, born, heap, fate, waiter, stop, cpc>>
      BY <1>6 DEF WorkerStart, WorkerCheckStop, WorkerOwn, WorkerSteal, TryDequeue,
         WorkerLeave, poolVars, clientVars, workVars
    <2>2. QED BY <2>1, Unnoticed DEF LJoined
  <1>7. QED BY <1>1, <1>2, <1>3, <1>4, <1>5, <1>6 DEF WorkerNext

\* ... and of a client.
LEMMA ClientLedger ==
    ASSUME Inv, Inv', NEW c \in Clients, ClientNext(c)
    PROVE  [Ledger!LedgerNext]_Ledger!ledger
  <1>0. Facts BY FactsHold
  <1>1. CASE ClientWorkAdd(c)
    <2>1. PICK wt \in {c, NoWaiter} : WorkNew(c, wt)
      BY <1>1 DEF ClientWorkAdd
    <2>2. cpc' = [cpc EXCEPT ![c] = "idle"] /\ UNCHANGED stop
      BY <1>1, <2>1 DEF ClientWorkAdd, WorkNew, poolVars
    <2>3. LJoined' = LJoined \ {c} BY <1>0, <2>2 DEF LJoined, Facts
    <2>4. LJoined' \subseteq LJoined \ {wt} BY <1>0, <2>3 DEF LJoined, Facts
    <2>5. QED BY <1>0, <2>1, <2>2, <2>4, NewOffers DEF Facts, Waiters
  <1>2. CASE WorkEnqueue(c) BY <1>0, <1>2, EnqueueDecides DEF Facts
  <1>3. CASE WaiterReturn(c)
    <2>1. /\ counter[c] = 0 /\ cpc' = [cpc EXCEPT ![c] = "joined"]
          /\ UNCHANGED <<submit, born, heap, fate, waiter, stop>>
      BY <1>3 DEF WaiterReturn, ClientStep, poolVars, workVars
    <2>2. Outstanding(c) = {}
      <3>1. Cardinality(Outstanding(c)) = 0
        BY <2>1 DEF Inv, PoolInv, WorksInv, WaiterExact, Outstanding, Waiters
      <3>2. IsFiniteSet(Outstanding(c))
        BY OutstandingFinite DEF Inv, PoolInv, WorksInv
      <3>3. QED BY <3>1, <3>2, FS_EmptySet
    <2>3. \A w \in Works : waiter[w] = c => StateOf(w) \in {"unborn", "retired"}
      <3>1. \A w \in Works : waiter[w] = c => w \notin heap BY <2>2 DEF Outstanding
      <3>2. \A w \in Works : w > born \/ w <= born BY <1>0 DEF Facts
      <3>3. QED BY <1>0, <3>1, <3>2, StateFacts
    <2>4. \A w \in Works : StateOf(w)' = StateOf(w) BY <2>1 DEF StateOf, Offered
    <2>5. LState' = LState BY <2>4 DEF LState
    <2>6. LJoined' = LJoined \union {c} BY <1>0, <2>1 DEF LJoined, Facts
    <2>7. \A w \in Works : waiter[w] = c => LState[w] \in {"unborn", "retired"}
      BY <2>3 DEF LState
    <2>8. Ledger!Join(c) BY <2>1, <2>5, <2>6, <2>7 DEF Ledger!Join, LState, LJoined
    <2>9. QED BY <2>8 DEF Ledger!LedgerNext, Waiters
  <1>4. CASE WaiterWait(c) \/ PoolWait(c)
    <2>1. /\ \E p \in {"waiter", "load"} : cpc' = [cpc EXCEPT ![c] = p]
          /\ UNCHANGED <<submit, born, heap, fate, waiter, stop>>
      BY <1>4 DEF WaiterWait, PoolWait, ClientStep, poolVars, workVars
    <2>2. \A w \in Works : StateOf(w)' = StateOf(w) BY <2>1 DEF StateOf, Offered
    <2>3. LState' = LState BY <2>2 DEF LState
    <2>4. LJoined' = LJoined \ {c} BY <1>0, <2>1 DEF LJoined, Facts
    <2>5. Ledger!MoveOn(c) BY <2>1, <2>3, <2>4 DEF Ledger!MoveOn, LState, LJoined
    <2>6. QED BY <2>5 DEF Ledger!LedgerNext, Waiters
  <1>5. CASE PoolWaitLoad(c) \/ PoolWaitScan(c)
    <2>1. /\ cpc[c] \in {"load", "scan"}
          /\ \E p \in {"load", "scan", "waited"} : cpc' = [cpc EXCEPT ![c] = p]
          /\ UNCHANGED <<submit, born, heap, fate, waiter, stop>>
      BY <1>5 DEF PoolWaitLoad, PoolWaitScan, ClientStep, poolVars, workVars
    <2>2. LJoined' = LJoined BY <1>0, <2>1 DEF LJoined, Facts
    <2>3. QED BY <2>1, <2>2, Unnoticed
  <1>6. QED BY <1>1, <1>2, <1>3, <1>4, <1>5 DEF ClientNext

\* The thread pool implements WorkLedger: whatever the interleaving of owner,
\* workers and clients, a work is accepted or refused once, started at most
\* once, finished, retired, and given up only after threadpool_release began;
\* and threadpool_waiter_wait returns only when the ledger shows every work of
\* the waiter retired.
THEOREM PoolImplementsLedger == Spec => ImplementsLedger
  <1>1. Init => Ledger!LedgerInit
    <2> SUFFICES ASSUME Init PROVE Ledger!LedgerInit
      OBVIOUS
    <2>1. \A w \in Works : w > born BY PoolAssumption DEF Init, Works, PoolAssumption
    <2>2. \A w \in Works : StateOf(w) = "unborn"
      <3>1. TypeOK BY TypeInit
      <3>2. QED BY <2>1, <3>1 DEF StateOf, Init, TypeOK, WorkType, Works
    <2>3. LState = [w \in Works |-> "unborn"] BY <2>2 DEF LState
    <2>4. waiter \in [Works -> Waiters \union {NoWaiter}] BY DEF Init
    <2>5. (~stop) = TRUE BY DEF Init
    <2>6. LJoined = {} BY DEF Init, LJoined
    <2>7. QED BY <2>3, <2>4, <2>5, <2>6 DEF Ledger!LedgerInit, LState, LJoined
  <1>2. Inv /\ Inv' /\ [Next]_vars => [Ledger!LedgerNext]_Ledger!ledger
    <2> SUFFICES ASSUME Inv, Inv', [Next]_vars PROVE [Ledger!LedgerNext]_Ledger!ledger
      OBVIOUS
    <2>1. CASE UNCHANGED vars
      <3>1. UNCHANGED <<submit, born, heap, fate, waiter, stop, cpc>>
        BY <2>1 DEF vars, poolVars, clientVars, workVars
      <3>2. QED BY <3>1, Unnoticed DEF LJoined
    <2>2. QED BY <2>1, OwnerLedger, WorkerLedger, ClientLedger DEF Next
  <1>3. Spec => []Inv BY LifeInductive, PTL DEF Inv
  <1>4. QED BY <1>1, <1>2, <1>3, PTL DEF Spec, ImplementsLedger, Ledger!LedgerSpec

=============================================================================
