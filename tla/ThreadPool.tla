----------------------------- MODULE ThreadPool -----------------------------
(***************************************************************************)
(* The work-stealing thread pool of src/thread.c: one owner thread that    *)
(* creates and releases the pool, client threads that add work and wait,   *)
(* and the workers, each with a queue of its own.                          *)
(*                                                                         *)
(* A step is one atomic access to memory that two threads share (a queue   *)
(* operation, a load or a read-modify-write of a counter).  Memory is      *)
(* sequentially consistent.  A queue is moodycamel's concurrent queue,     *)
(* which keeps no order between producers: it is a set, a dequeue takes    *)
(* any element, and it fails only when the set is empty.                   *)
(***************************************************************************)
EXTENDS Integers, FiniteSets

CONSTANTS
    WorkersCount,  \* workers_count of threadpool_init
    Clients,       \* threads, other than the workers, that use the pool
    Owner,         \* the client that calls threadpool_init and _release
    NoWaiter,      \* the NULL ThreadPoolWaiter*
    MaxWorks,      \* bound: calls of work_new in a behaviour
    SubmitModulus  \* the range of the uint32_t submit_rr, 2^32 in the code

ASSUME PoolAssumption ==
    /\ WorkersCount \in Nat \ {0}
    /\ IsFiniteSet(Clients)
    /\ Clients \intersect (0 .. (WorkersCount - 1)) = {}  \* not a worker
    /\ Owner \in Clients
    /\ NoWaiter \notin Clients
    /\ MaxWorks \in Nat
    /\ SubmitModulus \in Nat \ {0}

Idx     == 0 .. (WorkersCount - 1)   \* the workers, by their index field
Works   == 1 .. MaxWorks             \* Work*, numbered in order of allocation
NoWork  == 0                         \* the NULL Work*
Threads == Idx \union Clients

\* A client owns one ThreadPoolWaiter, named by the client.
Waiters == Clients

\* ThreadPools live from "none" to "freed"; a failed threadpool_init ends in
\* "failed".
Phases == {"none", "queues", "start", "spin", "live", "join", "drain",
           "freed", "failed"}

\* Where a worker thread is: before its loop, in the loop (stop test, its own
\* queue, the others' queues), in work_execute (before, in and after the
\* function), behind the loop.
WorkerPCs == {"unborn", "born", "stop?", "own", "steal", "exec", "run",
              "free", "leave", "exited"}

\* "waiter", "load" and "scan" are inside threadpool_waiter_wait and
\* threadpool_wait; "joined" and "waited" say that the call just returned.
ClientPCs == {"idle", "waiter", "joined", "load", "scan", "waited"}

Fates == {"pending", "running", "done", "refused", "dropped"}

VARIABLES
    phase, k,        \* the owner's progress in threadpool_init and _release
    queues,          \* indices whose queue exists
    queue,           \* the works in each worker's queue
    stop, working, alive, submit_rr,  \* fields of ThreadPool
    wpc, work, off,  \* a worker's place, its `work`, its steal offset i
    cpc, scan,       \* a client's place, its loop index in threadpool_wait
                     \* (both 0 outside their loops)
    submit,          \* the Work a thread holds inside threadpool_work_add
    born, heap,      \* number of works allocated so far; those not yet freed
    waiter,          \* the waiter field of each work
    counter,         \* the counter field of each waiter
    adder, fate      \* history: who added each work, what became of it

poolVars   == <<phase, k, queues, stop, alive, submit_rr>>
workerVars == <<wpc, work, off, working>>
clientVars == <<cpc, scan>>
workVars   == <<submit, born, heap, waiter, counter, adder, fate>>
vars == <<poolVars, queue, workerVars, clientVars, workVars>>

PoolType ==
    /\ phase \in Phases
    /\ k \in Idx
    /\ queues \in SUBSET Idx
    /\ stop \in BOOLEAN
    /\ alive \in Int
    /\ submit_rr \in 0 .. (SubmitModulus - 1)

WorkerType ==
    /\ wpc \in [Idx -> WorkerPCs]
    /\ work \in [Idx -> Works \union {NoWork}]
    /\ off \in [Idx -> Idx]
    /\ working \in Int

ClientType ==
    /\ cpc \in [Clients -> ClientPCs]
    /\ scan \in [Clients -> Idx]

WorkType ==
    /\ submit \in [Threads -> Works \union {NoWork}]
    /\ born \in 0 .. MaxWorks
    /\ heap \in SUBSET Works
    /\ waiter \in [Works -> Waiters \union {NoWaiter}]
    /\ counter \in [Waiters -> Int]
    /\ adder \in [Works -> Threads]
    /\ fate \in [Works -> Fates]

TypeOK ==
    /\ PoolType
    /\ queue \in [Idx -> SUBSET Works]
    /\ WorkerType
    /\ ClientType
    /\ WorkType

Init ==
    /\ phase = "none" /\ k = 0 /\ queues = {}
    /\ queue = [i \in Idx |-> {}]
    /\ stop = FALSE /\ working = 0 /\ alive = 0 /\ submit_rr = 0
    /\ wpc = [i \in Idx |-> "unborn"]
    /\ work = [i \in Idx |-> NoWork]
    /\ off = [i \in Idx |-> 0]
    /\ cpc = [c \in Clients |-> "idle"]
    /\ scan = [c \in Clients |-> 0]
    /\ submit = [t \in Threads |-> NoWork]
    /\ born = 0 /\ heap = {}
    /\ waiter = [w \in Works |-> NoWaiter]
    /\ counter = [c \in Waiters |-> 0]
    /\ adder = [w \in Works |-> Owner]
    /\ fate = [w \in Works |-> "pending"]

-----------------------------------------------------------------------------
(* threadpool_init, run by the owner *)

\* The two allocations: NULL is returned if either fails, the pool freed.
InitAlloc ==
    /\ phase = "none"
    /\ phase' \in {"queues", "failed"}
    /\ UNCHANGED <<k, queues, stop, alive, submit_rr, queue>>
    /\ UNCHANGED <<workerVars, clientVars, workVars>>

\* One queue is created, or its creation fails and the earlier ones are
\* destroyed and everything freed.
InitQueue ==
    /\ phase = "queues"
    /\ \/ /\ queues' = queues \union {k}
          /\ IF k + 1 = WorkersCount
             THEN phase' = "start" /\ k' = 0
             ELSE phase' = phase /\ k' = k + 1
       \/ /\ queues' = queues \ {j \in Idx : j < k}
          /\ phase' = "failed" /\ k' = 0
    /\ UNCHANGED <<stop, alive, submit_rr, queue>>
    /\ UNCHANGED <<workerVars, clientVars, workVars>>

\* thread_create and thread_start of worker k.
InitStart ==
    /\ phase = "start"
    /\ wpc' = [wpc EXCEPT ![k] = "born"]
    /\ IF k + 1 = WorkersCount
       THEN phase' = "spin" /\ k' = 0
       ELSE phase' = phase /\ k' = k + 1
    /\ UNCHANGED <<queues, stop, alive, submit_rr, queue, work, off, working>>
    /\ UNCHANGED <<clientVars, workVars>>

\* Mutant: the spin waits for one worker only.
InitReturnEarly ==
    /\ phase = "spin"
    /\ alive > 0
    /\ phase' = "live"
    /\ UNCHANGED <<k, queues, stop, alive, submit_rr, queue>>
    /\ UNCHANGED <<workerVars, clientVars, workVars>>

\* The spin ends when every worker has announced itself.
InitReturn ==
    /\ phase = "spin"
    /\ alive = WorkersCount
    /\ phase' = "live"
    /\ UNCHANGED <<k, queues, stop, alive, submit_rr, queue>>
    /\ UNCHANGED <<workerVars, clientVars, workVars>>

-----------------------------------------------------------------------------
(* threadpool_work_add, run by a client or from inside a work function *)

\* A client between two calls of the library.
Ready(c) == submit[c] = NoWork /\ cpc[c] \in {"idle", "joined", "waited"}

\* Mutant: a work added from inside a work is not counted.
WorkNewUncounted(t, wt) ==
    /\ born < MaxWorks
    /\ submit[t] = NoWork
    /\ born' = born + 1
    /\ heap' = heap \union {born + 1}
    /\ submit' = [submit EXCEPT ![t] = born + 1]
    /\ waiter' = [waiter EXCEPT ![born + 1] = wt]
    /\ adder' = [adder EXCEPT ![born + 1] = t]
    /\ counter' = IF wt = NoWaiter \/ t \in Idx THEN counter
                  ELSE [counter EXCEPT ![wt] = @ + 1]
    /\ UNCHANGED <<poolVars, queue, workerVars, scan, fate>>

\* work_new: the waiter counts the work before any other thread can see it.
\* A failed malloc changes nothing and is a stuttering step.
WorkNew(t, wt) ==
    /\ born < MaxWorks
    /\ submit[t] = NoWork
    /\ born' = born + 1
    /\ heap' = heap \union {born + 1}
    /\ submit' = [submit EXCEPT ![t] = born + 1]
    /\ waiter' = [waiter EXCEPT ![born + 1] = wt]
    /\ adder' = [adder EXCEPT ![born + 1] = t]
    /\ counter' = IF wt = NoWaiter THEN counter
                  ELSE [counter EXCEPT ![wt] = @ + 1]
    /\ UNCHANGED <<poolVars, queue, workerVars, scan, fate>>

\* Mutant: the waiter is not told.
WorkFreeSilent(w) == heap' = heap \ {w} /\ UNCHANGED counter

\* work_free: the waiter forgets the work, the work is freed.
WorkFree(w) ==
    /\ heap' = heap \ {w}
    /\ counter' = IF waiter[w] = NoWaiter THEN counter
                  ELSE [counter EXCEPT ![waiter[w]] = @ - 1]

\* A client adds a work, with its own waiter or without one.
ClientWorkAdd(c) ==
    /\ phase = "live"
    /\ Ready(c)
    /\ \E wt \in {c, NoWaiter} : WorkNew(c, wt)
    /\ cpc' = [cpc EXCEPT ![c] = "idle"]

\* A running function adds a work: it can reach the waiter of its own work.
WorkerWorkAdd(i) ==
    /\ wpc[i] = "run"
    /\ \E wt \in {waiter[work[i]], NoWaiter} : WorkNew(i, wt)
    /\ UNCHANGED cpc

\* atomic_fetch_add_32 returns the value after the addition.
NextSubmit == (submit_rr + 1) % SubmitModulus

\* threadpool_current_worker: a worker uses its own queue, any other thread
\* the next one of the round robin.
Target(t) == IF t \in Idx THEN t ELSE NextSubmit % WorkersCount

\* Mutant: a work that could not be enqueued is not freed.
WorkEnqueueLeak(t) ==
    /\ submit[t] # NoWork
    /\ submit' = [submit EXCEPT ![t] = NoWork]
    /\ submit_rr' = IF t \in Idx THEN submit_rr ELSE NextSubmit
    /\ \/ queue' = [queue EXCEPT ![Target(t)] = @ \union {submit[t]}]
       \/ UNCHANGED queue
    /\ UNCHANGED <<phase, k, queues, stop, alive, workerVars, clientVars>>
    /\ UNCHANGED <<born, heap, waiter, counter, adder, fate>>

\* Mutant: a worker that has used its own queue goes on to the round robin.
WorkEnqueueTwice(t) ==
    /\ submit[t] # NoWork
    /\ submit' = [submit EXCEPT ![t] = NoWork]
    /\ submit_rr' = NextSubmit
    /\ queue' = [i \in Idx |-> IF i \in {Target(t), NextSubmit % WorkersCount}
                              THEN queue[i] \union {submit[t]} ELSE queue[i]]
    /\ UNCHANGED <<phase, k, queues, stop, alive, workerVars, clientVars>>
    /\ UNCHANGED <<born, heap, waiter, counter, adder, fate>>

\* The enqueue succeeds, or fails and the work is freed again.
WorkEnqueue(t) ==
    /\ submit[t] # NoWork
    /\ submit' = [submit EXCEPT ![t] = NoWork]
    /\ submit_rr' = IF t \in Idx THEN submit_rr ELSE NextSubmit
    /\ \/ /\ queue' = [queue EXCEPT ![Target(t)] = @ \union {submit[t]}]
          /\ UNCHANGED <<heap, counter, fate>>
       \/ /\ WorkFree(submit[t])
          /\ fate' = [fate EXCEPT ![submit[t]] = "refused"]
          /\ UNCHANGED queue
    /\ UNCHANGED <<phase, k, queues, stop, alive, workerVars, clientVars>>
    /\ UNCHANGED <<born, waiter, adder>>

-----------------------------------------------------------------------------
(* threadpool_worker_func *)

WorkerStart(i) ==
    /\ wpc[i] = "born"
    /\ wpc' = [wpc EXCEPT ![i] = "stop?"]
    /\ alive' = alive + 1
    /\ UNCHANGED <<phase, k, queues, stop, submit_rr, queue>>
    /\ UNCHANGED <<work, off, working, clientVars, workVars>>

WorkerCheckStop(i) ==
    /\ wpc[i] = "stop?"
    /\ wpc' = [wpc EXCEPT ![i] = IF stop THEN "leave" ELSE "own"]
    /\ UNCHANGED <<poolVars, queue, work, off, working, clientVars, workVars>>

\* moodycamel_cq_try_dequeue of queue j by worker i: it gets a work to
\* execute, or finds the queue empty.
TryDequeue(i, j) ==
    \E w \in queue[j] :
        /\ queue' = [queue EXCEPT ![j] = @ \ {w}]
        /\ work' = [work EXCEPT ![i] = w]
        /\ wpc' = [wpc EXCEPT ![i] = "exec"]
        /\ off' = [off EXCEPT ![i] = 0]
        /\ UNCHANGED <<poolVars, working, clientVars, workVars>>

\* The worker's own queue, then threadpool_try_steal from the next worker on.
WorkerOwn(i) ==
    /\ wpc[i] = "own"
    /\ \/ TryDequeue(i, i)
       \/ /\ queue[i] = {}
          /\ IF WorkersCount > 1
             THEN off' = [off EXCEPT ![i] = 1] /\ wpc' = [wpc EXCEPT ![i] = "steal"]
             ELSE UNCHANGED off /\ wpc' = [wpc EXCEPT ![i] = "stop?"]
          /\ UNCHANGED <<poolVars, queue, work, working, clientVars, workVars>>

Victim(i) == (i + off[i]) % WorkersCount

\* Mutant: the loop over the victims ends one turn late (i <= count).
WorkerStealOneMore(i) ==
    /\ wpc[i] = "steal"
    /\ \/ TryDequeue(i, Victim(i))
       \/ /\ queue[Victim(i)] = {}
          /\ IF off[i] < WorkersCount
             THEN off' = [off EXCEPT ![i] = @ + 1] /\ UNCHANGED wpc
             ELSE off' = [off EXCEPT ![i] = 0] /\ wpc' = [wpc EXCEPT ![i] = "stop?"]
          /\ UNCHANGED <<poolVars, queue, work, working, clientVars, workVars>>

WorkerSteal(i) ==
    /\ wpc[i] = "steal"
    /\ \/ TryDequeue(i, Victim(i))
       \/ /\ queue[Victim(i)] = {}
          /\ IF off[i] + 1 < WorkersCount
             THEN off' = [off EXCEPT ![i] = @ + 1] /\ UNCHANGED wpc
             ELSE off' = [off EXCEPT ![i] = 0] /\ wpc' = [wpc EXCEPT ![i] = "stop?"]
          /\ UNCHANGED <<poolVars, queue, work, working, clientVars, workVars>>

\* work_execute: count the thread as working and enter the function.
WorkerExecute(i) ==
    /\ wpc[i] = "exec"
    /\ wpc' = [wpc EXCEPT ![i] = "run"]
    /\ working' = working + 1
    /\ fate' = [fate EXCEPT ![work[i]] = "running"]
    /\ UNCHANGED <<poolVars, queue, work, off, clientVars>>
    /\ UNCHANGED <<submit, born, heap, waiter, counter, adder>>

\* The function returns and the thread no longer counts as working.
WorkerReturn(i) ==
    /\ wpc[i] = "run"
    /\ submit[i] = NoWork
    /\ wpc' = [wpc EXCEPT ![i] = "free"]
    /\ working' = working - 1
    /\ fate' = [fate EXCEPT ![work[i]] = "done"]
    /\ UNCHANGED <<poolVars, queue, work, off, clientVars>>
    /\ UNCHANGED <<submit, born, heap, waiter, counter, adder>>

\* work_free at the end of work_execute, then the next turn of the loop.
WorkerFree(i) ==
    /\ wpc[i] = "free"
    /\ WorkFree(work[i])
    /\ work' = [work EXCEPT ![i] = NoWork]
    /\ wpc' = [wpc EXCEPT ![i] = "stop?"]
    /\ UNCHANGED <<poolVars, queue, off, working, clientVars>>
    /\ UNCHANGED <<submit, born, waiter, adder, fate>>

WorkerLeave(i) ==
    /\ wpc[i] = "leave"
    /\ wpc' = [wpc EXCEPT ![i] = "exited"]
    /\ alive' = alive - 1
    /\ UNCHANGED <<phase, k, queues, stop, submit_rr, queue>>
    /\ UNCHANGED <<work, off, working, clientVars, workVars>>

-----------------------------------------------------------------------------
(* The waits *)

ClientStep(c, from, to) ==
    /\ cpc[c] \in from
    /\ cpc' = [cpc EXCEPT ![c] = to]
    /\ UNCHANGED <<poolVars, queue, workerVars, workVars>>

\* threadpool_waiter_wait: a client may also wait after the pool is gone.
WaiterWait(c) ==
    /\ Ready(c)
    /\ ClientStep(c, ClientPCs, "waiter")
    /\ UNCHANGED scan

WaiterReturn(c) ==
    /\ counter[c] = 0
    /\ ClientStep(c, {"waiter"}, "joined")
    /\ UNCHANGED scan

\* threadpool_wait: no thread working, then every queue empty, one by one.
PoolWait(c) ==
    /\ phase = "live"
    /\ Ready(c)
    /\ ClientStep(c, ClientPCs, "load")
    /\ UNCHANGED scan

PoolWaitLoad(c) ==
    /\ working = 0
    /\ ClientStep(c, {"load"}, "scan")
    /\ UNCHANGED scan

\* Mutant: the last queue is not looked at.
PoolWaitScanShort(c) ==
    \/ /\ queue[scan[c]] # {}
       /\ ClientStep(c, {"scan"}, "load")
       /\ scan' = [scan EXCEPT ![c] = 0]
    \/ /\ queue[scan[c]] = {}
       /\ scan[c] + 2 < WorkersCount
       /\ ClientStep(c, {"scan"}, "scan")
       /\ scan' = [scan EXCEPT ![c] = @ + 1]
    \/ /\ queue[scan[c]] = {}
       /\ scan[c] + 2 = WorkersCount
       /\ ClientStep(c, {"scan"}, "waited")
       /\ scan' = [scan EXCEPT ![c] = 0]

PoolWaitScan(c) ==
    \/ /\ queue[scan[c]] # {}
       /\ ClientStep(c, {"scan"}, "load")
       /\ scan' = [scan EXCEPT ![c] = 0]
    \/ /\ queue[scan[c]] = {}
       /\ scan[c] + 1 < WorkersCount
       /\ ClientStep(c, {"scan"}, "scan")
       /\ scan' = [scan EXCEPT ![c] = @ + 1]
    \/ /\ queue[scan[c]] = {}
       /\ scan[c] + 1 = WorkersCount
       /\ ClientStep(c, {"scan"}, "waited")
       /\ scan' = [scan EXCEPT ![c] = 0]

-----------------------------------------------------------------------------
(* threadpool_release, run by the owner *)

\* The pool is about to be freed: the program calls it when no client is
\* inside a call that uses the pool.  A client may be spinning on a waiter.
Release ==
    /\ phase = "live"
    /\ Ready(Owner)
    /\ \A c \in Clients : Ready(c) \/ cpc[c] = "waiter"
    /\ phase' = "join" /\ k' = 0
    /\ stop' = TRUE
    /\ UNCHANGED <<queues, alive, submit_rr, queue>>
    /\ UNCHANGED <<workerVars, clientVars, workVars>>

\* Mutant: the workers are told to stop and not joined.
ReleaseNoJoin ==
    /\ phase = "join"
    /\ phase' = "drain" /\ k' = 0
    /\ UNCHANGED <<queues, stop, alive, submit_rr, queue>>
    /\ UNCHANGED <<workerVars, clientVars, workVars>>

ReleaseJoin ==
    /\ phase = "join"
    /\ wpc[k] = "exited"
    /\ IF k + 1 = WorkersCount
       THEN phase' = "drain" /\ k' = 0
       ELSE phase' = phase /\ k' = k + 1
    /\ UNCHANGED <<queues, stop, alive, submit_rr, queue>>
    /\ UNCHANGED <<workerVars, clientVars, workVars>>

\* What is left in queue k is freed without being executed.
ReleaseDrain ==
    /\ phase = "drain"
    /\ \E w \in queue[k] :
        /\ queue' = [queue EXCEPT ![k] = @ \ {w}]
        /\ WorkFree(w)
        /\ fate' = [fate EXCEPT ![w] = "dropped"]
    /\ UNCHANGED <<poolVars, workerVars, clientVars, submit, born, waiter, adder>>

\* Mutant: the queue is destroyed with what it holds.
ReleaseDestroyFull ==
    /\ phase = "drain"
    /\ queues' = queues \ {k}
    /\ IF k + 1 = WorkersCount
       THEN phase' = "freed" /\ k' = 0
       ELSE phase' = phase /\ k' = k + 1
    /\ UNCHANGED <<stop, alive, submit_rr, queue>>
    /\ UNCHANGED <<workerVars, clientVars, workVars>>

\* The empty queue is destroyed; after the last one the pool is freed.
ReleaseDestroy ==
    /\ phase = "drain"
    /\ queue[k] = {}
    /\ queues' = queues \ {k}
    /\ IF k + 1 = WorkersCount
       THEN phase' = "freed" /\ k' = 0
       ELSE phase' = phase /\ k' = k + 1
    /\ UNCHANGED <<stop, alive, submit_rr, queue>>
    /\ UNCHANGED <<workerVars, clientVars, workVars>>

-----------------------------------------------------------------------------
OwnerNext ==
    \/ InitAlloc \/ InitQueue \/ InitStart \/ InitReturn
    \/ Release \/ ReleaseJoin \/ ReleaseDrain \/ ReleaseDestroy

WorkerNext(i) ==
    \/ WorkerStart(i) \/ WorkerCheckStop(i) \/ WorkerOwn(i) \/ WorkerSteal(i)
    \/ WorkerExecute(i) \/ WorkerReturn(i) \/ WorkerFree(i) \/ WorkerLeave(i)
    \/ WorkerWorkAdd(i) \/ WorkEnqueue(i)

ClientNext(c) ==
    \/ ClientWorkAdd(c) \/ WorkEnqueue(c)
    \/ WaiterWait(c) \/ WaiterReturn(c)
    \/ PoolWait(c) \/ PoolWaitLoad(c) \/ PoolWaitScan(c)

Next ==
    \/ OwnerNext
    \/ \E i \in Idx : WorkerNext(i)
    \/ \E c \in Clients : ClientNext(c)

Spec == Init /\ [][Next]_vars

(***************************************************************************)
(* Fairness.  The scheduler runs every thread that can run; a call that    *)
(* has begun goes on.  Work functions return (WorkerReturn), but nobody is *)
(* obliged to begin a call: adding work, waiting and releasing are free.   *)
(***************************************************************************)
ClientProgress(c) ==
    WorkEnqueue(c) \/ WaiterReturn(c) \/ PoolWaitLoad(c) \/ PoolWaitScan(c)

OwnerProgress ==
    \/ InitAlloc \/ InitQueue \/ InitStart \/ InitReturn
    \/ ReleaseJoin \/ ReleaseDrain \/ ReleaseDestroy

FairSpec ==
    /\ Spec
    /\ WF_vars(OwnerProgress)
    /\ \A i \in Idx : WF_vars(WorkerNext(i))
    /\ \A c \in Clients : WF_vars(ClientProgress(c))

(***************************************************************************)
(* Properties                                                              *)
(***************************************************************************)

\* A worker between its registration and the end of its thread.
InPool(i) == wpc[i] \notin {"unborn", "born", "exited"}

\* Every place a work can be in.
Queued(w)    == \E i \in Idx : w \in queue[i]
Executing(w) == \E i \in Idx : work[i] = w
Offered(w)   == \E t \in Threads : submit[t] = w

\* What a place holds is allocated, and no two places hold the same work:
\* no work is freed twice, executed twice or used after work_free
\* (work_execute and threadpool_release both free what they dequeue).
SingleOwner ==
    /\ \A i \in Idx : queue[i] \subseteq heap
    /\ \A i, j \in Idx : i # j => queue[i] \intersect queue[j] = {}
    /\ \A i \in Idx : work[i] # NoWork =>
          /\ work[i] \in heap
          /\ \A j \in Idx : work[i] \notin queue[j] /\ (i # j => work[i] # work[j])
    /\ \A t \in Threads : submit[t] # NoWork =>
          /\ submit[t] \in heap
          /\ \A j \in Idx : submit[t] \notin queue[j] /\ submit[t] # work[j]
          /\ \A u \in Threads : t # u => submit[t] # submit[u]

\* An allocated work is always somewhere, so somebody will free it.
NoLeak == \A w \in heap : Queued(w) \/ Executing(w) \/ Offered(w)

\* A waiter counts exactly the allocated works that point to it, whatever
\* threads add, execute, refuse and drop them.
WaiterExact ==
    \A c \in Waiters :
        counter[c] = Cardinality({w \in heap : waiter[w] = c})

\* When threadpool_waiter_wait has returned, every work added with that
\* waiter, by the client or by another work, is freed and was executed to the
\* end unless it was refused or dropped: the waiter may leave the stack.
WaiterJoins ==
    \A c \in Clients : cpc[c] = "joined" =>
        \A w \in 1 .. born : waiter[w] = c =>
            w \notin heap /\ fate[w] \in {"done", "refused", "dropped"}

\* No worker is in its loop, and no client in a call on the pool, before the
\* queues are created or after one of them is destroyed.
PoolOutlivesUsers ==
    /\ \A i \in Idx : InPool(i) => queues = Idx /\ phase \notin {"drain", "freed"}
    /\ \A c \in Clients : (cpc[c] \in {"load", "scan"} \/ submit[c] # NoWork)
                             => phase = "live"

\* A returned threadpool_init has every worker registered (its tid is set, so
\* threadpool_current_worker knows it), and a freed pool leaves no work behind.
PoolLifecycle ==
    /\ phase = "live" => \A i \in Idx : InPool(i)
    /\ phase = "freed" => heap = {} /\ queues = {} /\ working = 0 /\ alive = 0
    /\ phase = "failed" => queues = {} /\ \A i \in Idx : wpc[i] = "unborn"

\* The ways in which the fate of a work may change.
FateStep ==
    \A w \in Works : fate'[w] # fate[w] =>
        \/ fate[w] = "pending" /\ fate'[w] = "running" /\ w \in heap
        \/ fate[w] = "running" /\ fate'[w] = "done" /\ w \in heap
        \/ fate[w] = "pending" /\ fate'[w] = "refused" /\ Offered(w)
        \/ fate[w] = "pending" /\ fate'[w] = "dropped" /\ stop

\* A work is executed at most once, never after it was freed, and one that
\* was accepted is given up only by threadpool_release, after stop.
FateSteps == [][FateStep]_vars

\* Every allocated work is eventually freed, if necessary by a thief or by
\* threadpool_release.
WorkCompletes == \A w \in Works : w \in heap ~> w \notin heap

\* The three calls that block return: threadpool_waiter_wait (also while the
\* pool is being released), threadpool_wait and threadpool_release.
CallsReturn ==
    /\ \A c \in Clients : cpc[c] = "waiter" ~> cpc[c] # "waiter"
    /\ \A c \in Clients : cpc[c] = "load" ~> cpc[c] = "waited"
    /\ phase = "join" ~> phase = "freed"
    /\ phase = "spin" ~> phase = "live"

\* thread.h, threadpool_wait: "Wait for all the work to be done".  One client,
\* so nothing is added while it waits, except by the works themselves.
WaitMeansDone ==
    \A c \in Clients : cpc[c] = "waited" =>
        \A w \in 1 .. born : fate[w] \notin {"pending", "running"}

\* What threadpool_wait does give a client: none of the works it added is
\* left in a queue.  One that is not freed yet is in the hands of a worker,
\* which may not have begun it.
WaitMeansTaken ==
    \A c \in Clients : cpc[c] = "waited" =>
        \A w \in heap : adder[w] = c => Executing(w)

-----------------------------------------------------------------------------
(* Refinement: the pool keeps the promises of WorkLedger *)

StateOf(w) ==
    CASE w > born                            -> "unborn"
      [] w <= born /\ w \notin heap          -> "retired"
      [] w \in heap /\ fate[w] = "running"   -> "running"
      [] w \in heap /\ fate[w] = "done"      -> "done"
      [] w \in heap /\ fate[w] \notin {"running", "done"} ->
             IF Offered(w) THEN "offered" ELSE "accepted"

Ledger == INSTANCE WorkLedger WITH
    state  <- [w \in Works |-> StateOf(w)],
    by     <- waiter,
    open   <- ~stop,
    joined <- {c \in Clients : cpc[c] = "joined"}

\* Every behaviour of the workers, queues and counters of thread.c is one
\* that WorkLedger allows.
ImplementsLedger == Ledger!LedgerSpec

=============================================================================
