----------------------------- MODULE Dispatcher -----------------------------
(***************************************************************************)
(* How the user-mode module gets its threads to work (dispatcher.cpp): the *)
(* timer is set, then the timer thread and two threads for the completion  *)
(* port are queued as jobs that do not return.                             *)
(***************************************************************************)
EXTENDS ThreadPool, FiniteSets

CONSTANTS
    Timer,      \* the job that runs run_timer_thread
    Ports       \* the jobs that run run_completion_port

ASSUME DispatcherAssumption ==
    /\ IsFiniteSet(Ports) /\ Timer \notin Ports
    /\ DISPATCHER_THREAD_COUNT \in Nat
    /\ DISPATCHER_THREAD_COUNT > Cardinality(Ports)

VARIABLES
    user_pc,            \* where dispatcher::run is
    to_queue,           \* jobs it has still to queue
    active_callbacks    \* timers the timer thread waits for

user_vars == <<user_pc, to_queue, active_callbacks, pool_vars>>

DispatcherTypeOK ==
    /\ PoolTypeOK
    /\ user_pc \in {"timers", "queue", "notify", "loop"}
    /\ to_queue \subseteq Ports \cup {Timer}
    /\ active_callbacks \in 0..1

DispatcherInit ==
    /\ PoolInit
    /\ user_pc = "timers" /\ to_queue = Ports \cup {Timer} /\ active_callbacks = 0

\* The timer that writes operations into the shared mapping is created or not
\* (insert_callback); nothing looks at the result.
init_timer_callbacks ==
    /\ user_pc = "timers"
    /\ active_callbacks' \in {0, 1}
    /\ user_pc' = "queue"
    /\ UNCHANGED <<to_queue, pool_vars>>

\* queue_job for the timer thread, then for the port threads.  Behind the last
\* one is the loop that asks for stackwalks.
run ==
    /\ \/ /\ user_pc = "queue"
          /\ \E job \in to_queue :
                /\ Timer \in to_queue => job = Timer
                /\ push_job(job)
                /\ to_queue' = to_queue \ {job}
          /\ user_pc' = "notify"
       \/ /\ user_pc = "notify"
          /\ notify_one
          /\ user_pc' = IF to_queue = {} THEN "loop" ELSE "queue"
          /\ UNCHANGED to_queue
    /\ UNCHANGED active_callbacks

\* Without a timer the timer thread returns at once.
run_timer_thread ==
    /\ active_callbacks = 0
    /\ job_returns(Timer)
    /\ UNCHANGED <<user_pc, to_queue, active_callbacks>>

\* Every job is taken and no thread looks for another.
Started == user_pc = "loop" /\ jobs = <<>> /\ looking = 0

DispatcherStep ==
    \/ init_timer_callbacks \/ run \/ run_timer_thread
    \/ (wait_for_task \/ spurious_wakeup)
       /\ UNCHANGED <<user_pc, to_queue, active_callbacks>>

DispatcherSpec == DispatcherInit /\ [][DispatcherStep]_user_vars

\* No wake-up is lost between the test of the queue and the wait on the
\* condition: while threads sleep, as many as there are jobs are awake or about
\* to be woken (queue_job wakes a thread after it gave up the mutex,
\* module/dispatcher/threadpool.cpp:62).  And when all jobs are queued and no
\* thread is about to look for one, the jobs that do not return, which keep the
\* driver supplied with requests, all have a thread.
NoWakeupLost ==
    /\ waiting > 0 => Len(jobs) <= looking + (IF user_pc = "notify" THEN 1 ELSE 0)
    /\ user_pc = "loop" /\ looking = 0 => Ports \subseteq running
=============================================================================
