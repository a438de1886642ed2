----------------------------- MODULE WorkLedger -----------------------------
(***************************************************************************)
(* What thread.h promises its user about work, without queues, workers or  *)
(* counters: a work is offered, accepted or refused, started once,         *)
(* finished and retired; an accepted work is given up only once the pool   *)
(* is closed; and a wait on a waiter ends only when each of its works is   *)
(* retired.                                                                *)
(***************************************************************************)
CONSTANTS
    Works,    \* calls of threadpool_work_add
    Waiters,  \* ThreadPoolWaiters
    NoWaiter  \* works added without a waiter

VARIABLES
    state,   \* where each work is in its life
    by,      \* the waiter of each work
    open,    \* threadpool_release has not been called
    joined   \* the waiters whose wait has just returned

ledger == <<state, by, open, joined>>

States == {"unborn", "offered", "accepted", "running", "done", "retired"}

LedgerInit ==
    /\ state = [w \in Works |-> "unborn"]
    /\ by \in [Works -> Waiters \union {NoWaiter}]
    /\ open = TRUE
    /\ joined = {}

Move(w, from, to) ==
    /\ state[w] = from
    /\ state' = [state EXCEPT ![w] = to]

\* The waiter of a work is chosen when it is offered; a waiter that is used
\* again is no longer joined.
Offer(w, wt) ==
    /\ Move(w, "unborn", "offered")
    /\ by' = [by EXCEPT ![w] = wt]
    /\ joined' \in SUBSET (joined \ {wt})
    /\ UNCHANGED open

Accept(w) == Move(w, "offered", "accepted") /\ UNCHANGED <<by, open, joined>>
Refuse(w) == Move(w, "offered", "retired")  /\ UNCHANGED <<by, open, joined>>
Start(w)  == Move(w, "accepted", "running") /\ UNCHANGED <<by, open, joined>>
Finish(w) == Move(w, "running", "done")     /\ UNCHANGED <<by, open, joined>>
Retire(w) == Move(w, "done", "retired")     /\ UNCHANGED <<by, open, joined>>

Drop(w) ==
    /\ ~open
    /\ Move(w, "accepted", "retired")
    /\ UNCHANGED <<by, open, joined>>

Close ==
    /\ open
    /\ open' = FALSE
    /\ UNCHANGED <<state, by, joined>>

Join(wt) ==
    /\ \A w \in Works : by[w] = wt => state[w] \in {"unborn", "retired"}
    /\ joined' = joined \union {wt}
    /\ UNCHANGED <<state, by, open>>

\* The user goes on to something else.
MoveOn(wt) ==
    /\ joined' = joined \ {wt}
    /\ UNCHANGED <<state, by, open>>

LedgerNext ==
    \/ \E w \in Works :
        \/ \E wt \in Waiters \union {NoWaiter} : Offer(w, wt)
        \/ Accept(w) \/ Refuse(w) \/ Start(w) \/ Finish(w) \/ Retire(w)
        \/ Drop(w)
    \/ Close
    \/ \E wt \in Waiters : Join(wt) \/ MoveOn(wt)

LedgerSpec == LedgerInit /\ [][LedgerNext]_ledger

=============================================================================
