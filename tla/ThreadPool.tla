----------------------------- MODULE ThreadPool -----------------------------
(***************************************************************************)
(* The thread pool of the user-mode module (dispatcher/threadpool.cpp).    *)
(* Its threads run the same loop and are told apart by nothing but the job *)
(* they run, so those without a job are counted.  terminate has no caller; *)
(* should_terminate stays FALSE and is left out.                           *)
(***************************************************************************)
EXTENDS Naturals, Sequences

CONSTANT DISPATCHER_THREAD_COUNT

VARIABLES
    jobs,       \* the queue of jobs
    looking,    \* threads about to test the queue under queue_mutex
    waiting,    \* threads blocked on mutex_condition
    running,    \* jobs a thread has taken
    ended       \* jobs that returned

pool_vars == <<jobs, looking, waiting, running, ended>>

PoolTypeOK ==
    /\ looking \in 0..DISPATCHER_THREAD_COUNT
    /\ waiting \in 0..DISPATCHER_THREAD_COUNT

\* The constructor starts the threads.
PoolInit ==
    /\ jobs = <<>> /\ running = {} /\ ended = {}
    /\ looking = DISPATCHER_THREAD_COUNT /\ waiting = 0

\* The predicate is tested and, when there is no job, the thread blocked under
\* one hold of the mutex; otherwise the first job is taken.
wait_for_task ==
    /\ looking > 0
    /\ looking' = looking - 1
    /\ IF jobs = <<>>
       THEN waiting' = waiting + 1 /\ UNCHANGED <<jobs, running>>
       ELSE /\ jobs' = Tail(jobs) /\ running' = running \cup {Head(jobs)}
            /\ UNCHANGED waiting
    /\ UNCHANGED ended

\* queue_job first pushes the job under the mutex ...
push_job(job) ==
    /\ jobs' = Append(jobs, job)
    /\ UNCHANGED <<looking, waiting, running, ended>>

\* Mutant: nobody is woken.
notify_nobody == UNCHANGED pool_vars

\* ... and then, without it, wakes one of the blocked threads if there is one.
notify_one ==
    /\ looking' = looking + (IF waiting > 0 THEN 1 ELSE 0)
    /\ waiting' = waiting - (IF waiting > 0 THEN 1 ELSE 0)
    /\ UNCHANGED <<jobs, running, ended>>

\* A blocked thread may wake without a reason.
spurious_wakeup ==
    /\ waiting > 0
    /\ waiting' = waiting - 1 /\ looking' = looking + 1
    /\ UNCHANGED <<jobs, running, ended>>

\* The job returns and its thread looks for another.
job_returns(job) ==
    /\ job \in running
    /\ running' = running \ {job} /\ ended' = ended \cup {job}
    /\ looking' = looking + 1
    /\ UNCHANGED <<jobs, waiting>>
=============================================================================
