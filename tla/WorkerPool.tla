----------------------------- MODULE WorkerPool -----------------------------
(***************************************************************************)
(* The demodulator's two-thread worker pool (runtime/worker_pool.cpp): a   *)
(* caller posts up to two tasks under one lock, bumps an epoch, and sleeps *)
(* until the workers have counted them off; the pool is created when       *)
(* multithreading is configured and destroyed by joining both threads.     *)
(*                                                                         *)
(* Each critical section of the lock is one step.  A wait is a state of    *)
(* its own, left by a signal or spuriously.                                *)
(***************************************************************************)
EXTENDS Naturals, FiniteSets

CONSTANTS MaxBatches   \* bound: batches of tasks the caller runs
ASSUME MaxBatchesAssumption == MaxBatches \in Nat \ {0}

Workers == {0, 1}

VARIABLES
    pool,       \* is there a WorkerCtx for the demodulator?
    should_exit, \* should_exit
    epoch,      \* epoch
    completed,  \* completed_in_epoch
    posted,     \* posted_count
    tasks,      \* tasks[w]: the batch whose task it is, 0 for a NULL run
    caller,     \* where the demodulator thread is
    pc,         \* where each worker is
    local,      \* local_epoch of each worker
    assigned,   \* assigned of each worker
    fn,         \* the task each worker took under the lock, 0 for none
    batch,      \* the number of the caller's latest batch
    asked,      \* history: the task slots the latest batch filled
    ran         \* history: how often each slot of the latest batch has run

ctx == <<should_exit, epoch, completed, posted, tasks>>
thread == <<pc, local, assigned, fn>>
history == <<batch, asked, ran>>
workerVars == <<pool, should_exit, epoch, completed, posted, tasks, caller, pc, local,
          assigned, fn, batch, asked, ran>>

PoolTypeOK ==
    /\ pool \in BOOLEAN /\ should_exit \in BOOLEAN
    /\ epoch \in 0 .. MaxBatches /\ batch \in 0 .. MaxBatches
    /\ completed \in 0 .. 2 /\ posted \in 0 .. 2
    /\ tasks \in [Workers -> 0 .. MaxBatches]
    /\ caller \in {"out", "waiting", "woken", "joining"}
    /\ pc \in [Workers -> {"none", "top", "waiting", "run", "count", "ended"}]
    /\ local \in [Workers -> 0 .. MaxBatches]
    /\ assigned \in [Workers -> BOOLEAN]
    /\ fn \in [Workers -> 0 .. MaxBatches]
    /\ asked \in SUBSET Workers
    /\ ran \in [Workers -> 0 .. 2]

PoolInit ==
    /\ pool = FALSE /\ should_exit = FALSE
    /\ epoch = 0 /\ completed = 0 /\ posted = 0
    /\ tasks = [w \in Workers |-> 0]
    /\ caller = "out"
    /\ pc = [w \in Workers |-> "none"]
    /\ local = [w \in Workers |-> 0]
    /\ assigned = [w \in Workers |-> FALSE]
    /\ fn = [w \in Workers |-> 0]
    /\ batch = 0 /\ asked = {} /\ ran = [w \in Workers |-> 0]

-----------------------------------------------------------------------------
(* demod_mt_init() with multithreading enabled and no context yet.  (With  *)
(* it disabled, or with a context already there, nothing changes.)         *)
Create ==
    /\ caller = "out" /\ ~pool
    /\ pool' = TRUE
    /\ should_exit' = FALSE /\ epoch' = 0 /\ completed' = 0 /\ posted' = 0
    /\ tasks' = [w \in Workers |-> 0]
    /\ pc' = [w \in Workers |-> "top"]
    /\ local' = [w \in Workers |-> 0]
    /\ UNCHANGED <<caller, assigned, fn, history>>

(* demod_mt_run_two_impl() without a pool runs both tasks itself.          *)
RunInline(slots) ==
    /\ caller = "out" /\ ~pool /\ batch < MaxBatches
    /\ batch' = batch + 1
    /\ asked' = slots
    /\ ran' = [w \in Workers |-> IF w \in slots THEN 1 ELSE 0]
    /\ UNCHANGED <<pool, ctx, caller, thread>>

(* A broadcast on cv.                                                      *)
WakeAll == [w \in Workers |-> IF pc[w] = "waiting" THEN "top" ELSE pc[w]]

(* posted_count: the last slot in use decides.                             *)
PostedCount(slots) == IF 1 \in slots THEN 2 ELSE 1

(* demod_mt_run_two_impl() up to its first wait on done_cv.                *)
Post(slots) ==
    /\ caller = "out" /\ pool /\ batch < MaxBatches
    /\ batch' = batch + 1
    /\ asked' = slots
    /\ ran' = [w \in Workers |-> 0]
    /\ tasks' = [w \in Workers |-> IF w \in slots THEN batch' ELSE 0]
    /\ posted' = PostedCount(slots)
    /\ completed' = 0
    /\ epoch' = epoch + 1
    /\ pc' = WakeAll
    /\ caller' = "waiting"
    /\ UNCHANGED <<pool, should_exit, local, assigned, fn>>

(* The caller looks at the count again after a wake-up.                    *)
LookDone ==
    /\ caller = "woken"
    /\ caller' = IF completed < posted THEN "waiting" ELSE "out"
    /\ UNCHANGED <<pool, ctx, thread, history>>

CallerSpurious ==
    /\ caller = "waiting"
    /\ caller' = "woken"
    /\ UNCHANGED <<pool, ctx, thread, history>>

-----------------------------------------------------------------------------
(* Mutant: the worker does not remember the epoch it has taken.            *)
TakeTaskForgetsEpoch(w) ==
    /\ pc[w] = "top" /\ ~should_exit /\ epoch # local[w]
    /\ assigned' = [assigned EXCEPT ![w] = w < posted]
    /\ fn' = [fn EXCEPT ![w] = IF w < posted THEN tasks[w] ELSE 0]
    /\ pc' = [pc EXCEPT ![w] = "run"]
    /\ UNCHANGED <<pool, ctx, caller, local, history>>

(* A worker with the lock and a new epoch takes its task, if it has one.   *)
TakeTask(w) ==
    /\ pc[w] = "top" /\ ~should_exit /\ epoch # local[w]
    /\ local' = [local EXCEPT ![w] = epoch]
    /\ assigned' = [assigned EXCEPT ![w] = w < posted]
    /\ fn' = [fn EXCEPT ![w] = IF w < posted THEN tasks[w] ELSE 0]
    /\ pc' = [pc EXCEPT ![w] = "run"]
    /\ UNCHANGED <<pool, ctx, caller, history>>

(* With nothing new it waits on cv.                                        *)
Sleep(w) ==
    /\ pc[w] = "top" /\ ~should_exit /\ epoch = local[w]
    /\ pc' = [pc EXCEPT ![w] = "waiting"]
    /\ UNCHANGED <<pool, ctx, caller, local, assigned, fn, history>>

WorkerSpurious(w) ==
    /\ pc[w] = "waiting"
    /\ pc' = [pc EXCEPT ![w] = "top"]
    /\ UNCHANGED <<pool, ctx, caller, local, assigned, fn, history>>

(* The task runs without the lock.                                         *)
Run(w) ==
    /\ pc[w] = "run"
    /\ ran' = IF fn[w] # 0 /\ fn[w] = batch THEN [ran EXCEPT ![w] = @ + 1] ELSE ran
    /\ pc' = [pc EXCEPT ![w] = "count"]
    /\ UNCHANGED <<pool, ctx, caller, local, assigned, fn, batch, asked>>

(* Mutant: the last worker does not see that it is the last.               *)
CountSignalsLate(w) ==
    /\ pc[w] = "count"
    /\ completed' = IF assigned[w] THEN completed + 1 ELSE completed
    /\ caller' = IF assigned[w] /\ completed' > posted /\ caller = "waiting"
                   THEN "woken" ELSE caller
    /\ pc' = [pc EXCEPT ![w] = "top"]
    /\ UNCHANGED <<pool, should_exit, epoch, posted, tasks, local, assigned, fn, history>>

(* A worker with a task counts it and signals done_cv when it was the last.*)
Count(w) ==
    /\ pc[w] = "count"
    /\ completed' = IF assigned[w] THEN completed + 1 ELSE completed
    /\ caller' = IF assigned[w] /\ completed' >= posted /\ caller = "waiting"
                   THEN "woken" ELSE caller
    /\ pc' = [pc EXCEPT ![w] = "top"]
    /\ UNCHANGED <<pool, should_exit, epoch, posted, tasks, local, assigned, fn, history>>

End(w) ==
    /\ pc[w] = "top" /\ should_exit
    /\ pc' = [pc EXCEPT ![w] = "ended"]
    /\ UNCHANGED <<pool, ctx, caller, local, assigned, fn, history>>

-----------------------------------------------------------------------------
(* demod_mt_destroy(): should_exit and a broadcast, then two joins.        *)
Destroy ==
    /\ caller = "out" /\ pool
    /\ should_exit' = TRUE
    /\ pc' = WakeAll
    /\ caller' = "joining"
    /\ UNCHANGED <<pool, epoch, completed, posted, tasks, local, assigned, fn, history>>

Joined ==
    /\ caller = "joining"
    /\ \A w \in Workers : pc[w] = "ended"
    /\ pool' = FALSE
    /\ pc' = [w \in Workers |-> "none"]
    /\ caller' = "out"
    /\ UNCHANGED <<ctx, local, assigned, fn, history>>

-----------------------------------------------------------------------------
CallerSteps == LookDone \/ Joined
WorkerSteps(w) == TakeTask(w) \/ Sleep(w) \/ Run(w) \/ Count(w) \/ End(w)

PoolNext ==
    \/ Create \/ Destroy \/ Joined \/ LookDone \/ CallerSpurious
    \/ \E slots \in SUBSET Workers : RunInline(slots) \/ Post(slots)
    \/ \E w \in Workers :
        \/ TakeTask(w) \/ Sleep(w) \/ WorkerSpurious(w)
        \/ Run(w) \/ Count(w) \/ End(w)

PoolSpec == PoolInit /\ [][PoolNext]_workerVars

(* The threads run; nobody is made to post, create or destroy, and no      *)
(* wake-up comes without a signal.                                         *)
PoolFairness ==
    /\ WF_workerVars(CallerSteps)
    /\ \A w \in Workers : WF_workerVars(WorkerSteps(w))
PoolFairSpec == PoolSpec /\ PoolFairness

-----------------------------------------------------------------------------
(* demod_mt_run_two_impl() is synchronous: when it has returned, each task *)
(* it was given has run, exactly once, whatever the workers of earlier     *)
(* batches were late with.                                                 *)
BatchDone ==
    caller \in {"out", "joining"} =>
        \A w \in Workers : ran[w] = IF w \in asked THEN 1 ELSE 0

(* A task's argument lives on the caller's stack: no worker holds a task   *)
(* it has still to run unless the call that posted it is still waiting.    *)
ArgumentsLive ==
    \A w \in Workers :
        pc[w] = "run" /\ fn[w] # 0 =>
            fn[w] = batch /\ caller \in {"waiting", "woken"}

(* A call of the pool is one call of each task, over before it returns.    *)
PoolSound == PoolTypeOK /\ BatchDone /\ ArgumentsLive

(* Every call comes back, and so does every teardown, without a spurious   *)
(* wake-up to help: no signal is lost between a count and the wait, or     *)
(* between should_exit and a worker that is about to sleep.                *)
CallReturns == caller \in {"waiting", "woken"} ~> caller = "out"
DestroyReturns == caller = "joining" ~> caller = "out"
=============================================================================
