----------------------------- MODULE ServerQueue -----------------------------
(***************************************************************************)
(* The task queue of the HTTP server (tools/server/server-queue.cpp): how  *)
(* the main thread, the yield worker and the HTTP threads hand tasks over, *)
(* wait for and wake each other, how the server sleeps and how it ends.    *)
(*                                                                         *)
(* A step is one critical section of mutex_tasks, or what a thread does    *)
(* between two of them.  A thread that waits on condition_tasks, which all *)
(* of them share, is in waiters; a notification takes it out, and its next *)
(* step evaluates its predicate again.                                     *)
(*                                                                         *)
(* What the callbacks do with a task is module ServerSlots; here a request *)
(* posts one task, which occupies a slot until some decode finishes it, or *)
(* is answered at once when it only asks for metrics.                      *)
(***************************************************************************)
EXTENDS FiniteSets, QueueOps

CONSTANTS
    Inference,    \* requests for a completion, one task each
    Metrics,      \* requests of GET /metrics
    Main, Worker, \* the thread of start_loop, the thread of worker_loop
    NextResponse, \* the task update_slots posts to come around again
    Cancel,       \* the task posted for one that its reader gave up
    MaySleep,     \* whether --sleep-idle-seconds is given
    MayTerminate, \* whether terminate is called (a signal)
    MayThrow,     \* whether the worker's callback may throw
    MaxYield      \* bound of the model: calls of yield_to_queue per update

Request == Inference \cup Metrics
Thread  == Request \cup {Main, Worker}

ASSUME QueueAssumption ==
    /\ Inference \cap Metrics = {} /\ {Main, Worker} \cap Request = {} /\ Main # Worker
    /\ {NextResponse, Cancel} \cap Request = {} /\ NextResponse # Cancel
    /\ {MaySleep, MayTerminate, MayThrow} \subseteq BOOLEAN
    /\ MaxYield \in Nat \ {0}

VARIABLES
    running, sleeping, req_stop_sleeping,
    queue_tasks,           \* the head first
    queue_tasks_unhandled, \* declined by the worker
    busy, yielding, stop, exception, \* fields of worker
    waiters,               \* threads waiting on condition_tasks
    cv_waiters,            \* threads waiting on worker.cv
    main, taken,           \* where the main thread is, the task in its hands
    work, declined,        \* the same of the worker
    http,                  \* http[r]: where the thread of request r is
    active,                \* requests that occupy a slot
    yields,                \* calls of yield_to_queue in this update
    posted, served         \* history: inference tasks in the order they were
                           \* posted, and in the order the main thread took them

flags   == <<running, sleeping, req_stop_sleeping>>
queues  == <<queue_tasks, queue_tasks_unhandled>>
handsh  == <<busy, yielding, stop, exception>>
waiting == <<waiters, cv_waiters>>
mains   == <<main, taken, active, yields>>
workers == <<work, declined>>
clients == <<http, posted>>
vars == <<flags, queues, handsh, waiting, mains, workers, clients, served>>

(* condition_tasks.notify_one wakes one waiting thread, whichever. *)
NotifyOne ==
    IF waiters = {} THEN UNCHANGED waiters
    ELSE \E t \in waiters : waiters' = waiters \ {t}

NotifyAll == waiters' = {}

(* The thread goes on only after a notification. *)
Woken(t) == t \notin waiters

PostBack(e)  == queue_tasks' = Append(queue_tasks, e) /\ NotifyOne
PostFront(e) == queue_tasks' = <<e>> \o queue_tasks /\ NotifyOne

-----------------------------------------------------------------------------
(* HTTP threads. *)

(* The server_res_generator of an inference request: wait_until_no_sleep.   *)
(* The first to ask for the end of the sleep notifies one waiting thread.   *)
WaitUntilNoSleep(r) ==
    /\ http[r] = "new"
    /\ r \in Inference
    /\ IF ~sleeping THEN http' = [http EXCEPT ![r] = "post"] /\ UNCHANGED <<req_stop_sleeping, waiters>>
       ELSE /\ http' = [http EXCEPT ![r] = "nosleep"]
            /\ req_stop_sleeping' = TRUE
            /\ IF req_stop_sleeping \/ waiters = {} THEN waiters' = waiters \cup {r}
               ELSE \E t \in waiters : waiters' = (waiters \ {t}) \cup {r}
    /\ UNCHANGED <<running, sleeping, queues, handsh, cv_waiters, mains, workers, posted, served>>

NoSleepWoken(r) ==
    /\ http[r] = "nosleep"
    /\ Woken(r)
    /\ IF ~sleeping THEN http' = [http EXCEPT ![r] = "post"] /\ UNCHANGED waiters
                    ELSE waiters' = waiters \cup {r} /\ UNCHANGED http
    /\ UNCHANGED <<flags, queues, handsh, cv_waiters, mains, workers, posted, served>>

(* After tokenising its input the thread posts its task. *)
PostTask(r) ==
    /\ http[r] = "post"
    /\ r \in Inference
    /\ PostBack(r)
    /\ posted' = Append(posted, r)
    /\ http' = [http EXCEPT ![r] = "await"]
    /\ UNCHANGED <<flags, queue_tasks_unhandled, handsh, cv_waiters, mains, workers, served>>

(* GET /metrics does not wake the server: it answers from its cache when    *)
(* the server sleeps, else it posts a task in front.                        *)
CheckSleep(r) ==
    /\ http[r] = "new"
    /\ r \in Metrics
    /\ http' = [http EXCEPT ![r] = IF sleeping THEN "done" ELSE "post"]
    /\ UNCHANGED <<flags, queues, handsh, waiting, mains, workers, posted, served>>

PostMetrics(r) ==
    /\ http[r] = "post"
    /\ r \in Metrics
    /\ PostFront(r)
    /\ http' = [http EXCEPT ![r] = "await"]
    /\ UNCHANGED <<flags, queue_tasks_unhandled, handsh, cv_waiters, mains, workers, posted, served>>

(* cleanup_pending_task, and CANCEL in front. *)
CleanupPendingTask(r) ==
    /\ queue_tasks' = <<Cancel>> \o Without(queue_tasks, {r})
    /\ queue_tasks_unhandled' = Without(queue_tasks_unhandled, {r})

(* A metrics request gives up when the server went to sleep. *)
GiveUp(r) ==
    /\ http[r] = "await"
    /\ r \in Metrics
    /\ sleeping
    /\ CleanupPendingTask(r)
    /\ NotifyOne
    /\ http' = [http EXCEPT ![r] = "done"]
    /\ UNCHANGED <<flags, handsh, cv_waiters, mains, workers, posted, served>>

-----------------------------------------------------------------------------
(* The main thread. *)

(* start_loop. *)
StartLoop ==
    /\ main = "init"
    /\ running' = TRUE
    /\ main' = "process"
    /\ work' = "loop"
    /\ UNCHANGED <<sleeping, req_stop_sleeping, queues, handsh, waiting, taken, active, yields,
                   declined, clients, served>>

(* process_new_tasks(false): end, take a task, or go on to update_slots. *)
ProcessNewTasks ==
    /\ main = "process"
    /\ IF ~running THEN main' = "stopping" /\ UNCHANGED <<queue_tasks, taken, served>>
       ELSE IF queue_tasks = <<>> THEN main' = "update" /\ UNCHANGED <<queue_tasks, taken, served>>
       ELSE /\ main' = "handle"
            /\ taken' = <<Head(queue_tasks)>>
            /\ queue_tasks' = Tail(queue_tasks)
            /\ served' = IF Head(queue_tasks) \in Inference THEN Append(served, Head(queue_tasks))
                         ELSE served
    /\ UNCHANGED <<flags, queue_tasks_unhandled, handsh, waiting, active, yields, workers, clients>>

Answer(r) == http' = IF http[r] = "await" THEN [http EXCEPT ![r] = "done"] ELSE http

(* callback_new_task on the main thread: an inference task takes a slot. *)
Handle ==
    /\ main = "handle"
    /\ IF taken[1] \in Inference THEN active' = active \cup {taken[1]} /\ UNCHANGED http
       ELSE IF taken[1] \in Metrics THEN Answer(taken[1]) /\ UNCHANGED active
       ELSE UNCHANGED <<active, http>>
    /\ taken' = <<>>
    /\ main' = "process"
    /\ UNCHANGED <<flags, queues, handsh, waiting, yields, workers, posted, served>>

(* A bug: nothing is posted while there are slots to decode. *)
UpdateNoPost ==
    /\ main = "update"
    /\ main' = IF active = {} THEN "idle" ELSE "yield"
    /\ UNCHANGED <<flags, queues, handsh, waiting, taken, active, yields, workers, clients, served>>

(* update_slots: nothing to do, or NEXT_RESPONSE is posted and slots are    *)
(* decoded.                                                                 *)
UpdateSlots ==
    /\ main = "update"
    /\ IF active = {} THEN main' = "idle" /\ UNCHANGED <<queue_tasks, waiters>>
                      ELSE main' = "yield" /\ PostBack(NextResponse)
    /\ UNCHANGED <<flags, queue_tasks_unhandled, handsh, cv_waiters, taken, active,
                   yields, workers, clients, served>>

(* yield_to_queue hands the queue to the worker and runs its work. *)
YieldBegin ==
    /\ main = "yield"
    /\ busy' = TRUE /\ yielding' = TRUE
    /\ cv_waiters' = {}
    /\ yields' = yields + 1
    /\ main' = "work"
    /\ UNCHANGED <<flags, queues, stop, exception, waiters, taken, active, workers, clients, served>>

(* A bug: the declined tasks are put back one by one from the first. *)
PutBackReversed ==
    /\ queue_tasks' = Reverse(queue_tasks_unhandled) \o queue_tasks
    /\ queue_tasks_unhandled' = <<>>

(* The declined tasks go back in front, keeping their order. *)
PutBack ==
    /\ queue_tasks' = queue_tasks_unhandled \o queue_tasks
    /\ queue_tasks_unhandled' = <<>>

(* A bug: the worker's current task is not waited for. *)
YieldOverNoWait ==
    /\ main = "work"
    /\ yielding' = FALSE
    /\ NotifyAll
    /\ main' = "yielded"
    /\ PutBack
    /\ UNCHANGED <<flags, busy, stop, exception, cv_waiters, taken, active, yields,
                   workers, clients, served>>

(* The work is over.  The worker may still be at its current task: only     *)
(* then the declined tasks are put back.                                    *)
YieldOver ==
    /\ main = "work"
    /\ yielding' = FALSE
    /\ IF busy THEN waiters' = {Main} /\ main' = "yield_wait" /\ UNCHANGED queues
               ELSE NotifyAll /\ main' = "yielded" /\ PutBack
    /\ UNCHANGED <<flags, busy, stop, exception, cv_waiters, taken, active, yields,
                   workers, clients, served>>

YieldWoken ==
    /\ main = "yield_wait"
    /\ Woken(Main)
    /\ IF busy THEN waiters' = waiters \cup {Main} /\ UNCHANGED <<main, queues>>
               ELSE main' = "yielded" /\ PutBack /\ UNCHANGED waiters
    /\ UNCHANGED <<flags, handsh, cv_waiters, taken, active, yields, workers, clients, served>>

(* The rest of update_slots: it may yield again (drafts of a speculative    *)
(* model), or it finishes requests; an exception of the worker, rethrown by *)
(* yield_to_queue, aborts all slots.  Bound: an update finishes a request.  *)
Yielded ==
    /\ main = "yielded"
    /\ exception' = FALSE
    /\ \/ /\ ~exception /\ yields < MaxYield
          /\ main' = "yield"
          /\ UNCHANGED <<active, http>>
          /\ UNCHANGED yields
       \/ /\ main' = "idle" /\ yields' = 0
          /\ \E end \in (SUBSET active) \ {{}} :
                /\ exception => end = active
                /\ active' = active \ end
                /\ http' = [r \in Request |-> IF r \in end THEN "done" ELSE http[r]]
    /\ UNCHANGED <<flags, queues, busy, yielding, stop, waiting, taken, workers, posted, served>>

(* No task: the main thread goes to sleep when it has been idle for long    *)
(* enough, which it may at any time have been, or waits for a second.       *)
Idle ==
    /\ main = "idle"
    /\ IF ~running \/ queue_tasks # <<>>
       THEN main' = "process" /\ UNCHANGED <<sleeping, req_stop_sleeping, waiters>>
       ELSE /\ waiters' = waiters \cup {Main}
            /\ \/ main' = "waiting" /\ UNCHANGED <<sleeping, req_stop_sleeping>>
               \/ MaySleep /\ main' = "asleep" /\ sleeping' = TRUE /\ req_stop_sleeping' = FALSE
    /\ UNCHANGED <<running, queues, handsh, cv_waiters, taken, active, yields, workers, clients, served>>

(* The wait of a second ends with a task, or goes on. *)
WaitWoken ==
    /\ main = "waiting"
    /\ Woken(Main)
    /\ IF ~running \/ queue_tasks # <<>> THEN main' = "process" /\ UNCHANGED waiters
                                         ELSE waiters' = waiters \cup {Main} /\ UNCHANGED main
    /\ UNCHANGED <<flags, queues, handsh, cv_waiters, taken, active, yields, workers, clients, served>>

WaitTimeout ==
    /\ main = "waiting"
    /\ waiters' = waiters \ {Main}
    /\ main' = IF ~running \/ queue_tasks # <<>> THEN "process" ELSE "idle"
    /\ UNCHANGED <<flags, queues, handsh, cv_waiters, taken, active, yields, workers, clients, served>>

(* The sleep ends on request, which unblocks wait_until_no_sleep, or with   *)
(* the loop.                                                                *)
SleepWoken ==
    /\ main = "asleep"
    /\ Woken(Main)
    /\ IF ~running THEN main' = "process" /\ UNCHANGED <<sleeping, req_stop_sleeping, waiters>>
       ELSE IF req_stop_sleeping
       THEN /\ main' = "process"
            /\ sleeping' = FALSE /\ req_stop_sleeping' = FALSE
            /\ NotifyAll
       ELSE waiters' = waiters \cup {Main} /\ UNCHANGED <<main, sleeping, req_stop_sleeping>>
    /\ UNCHANGED <<running, queues, handsh, cv_waiters, taken, active, yields, workers, clients, served>>

(* worker_stop. *)
WorkerStop ==
    /\ main = "stopping"
    /\ stop' = TRUE
    /\ cv_waiters' = {}
    /\ NotifyAll
    /\ main' = "joining"
    /\ UNCHANGED <<flags, queues, busy, yielding, exception, taken, active, yields, workers, clients, served>>

Join ==
    /\ main = "joining"
    /\ work = "exited"
    /\ main' = "returned"
    /\ UNCHANGED <<flags, queues, handsh, waiting, taken, active, yields, workers, clients, served>>

(* A bug: nobody is notified. *)
TerminateQuietly ==
    /\ MayTerminate
    /\ running
    /\ running' = FALSE
    /\ UNCHANGED <<sleeping, req_stop_sleeping, queues, handsh, waiting, mains, workers, clients, served>>

(* terminate, called by a signal.  One that comes before start_loop has no  *)
(* effect: start_loop sets running.                                         *)
Terminate ==
    /\ MayTerminate
    /\ running
    /\ running' = FALSE
    /\ NotifyAll
    /\ UNCHANGED <<sleeping, req_stop_sleeping, queues, handsh, cv_waiters, mains, workers, clients, served>>

-----------------------------------------------------------------------------
(* The worker. *)

(* A bug: the worker starts while the work runs, not whenever busy is set. *)
WorkerLoopYielding ==
    /\ work \in {"loop", "cv"}
    /\ work = "cv" => Worker \notin cv_waiters
    /\ IF stop THEN work' = "exited" /\ UNCHANGED cv_waiters
       ELSE IF yielding THEN work' = "take" /\ UNCHANGED cv_waiters
       ELSE work' = "cv" /\ cv_waiters' = {Worker}
    /\ UNCHANGED <<flags, queues, handsh, waiters, mains, declined, clients, served>>

(* worker_loop sleeps until a yield begins, or the loop ends.  It waits for *)
(* busy, which stays set even when the yield has already ended.             *)
WorkerLoop ==
    /\ work \in {"loop", "cv"}
    /\ work = "cv" => Worker \notin cv_waiters
    /\ IF stop THEN work' = "exited" /\ UNCHANGED cv_waiters
       ELSE IF busy THEN work' = "take" /\ UNCHANGED cv_waiters
       ELSE work' = "cv" /\ cv_waiters' = {Worker}
    /\ UNCHANGED <<flags, queues, handsh, waiters, mains, declined, clients, served>>

(* process_new_tasks(true) *)
WorkerTake ==
    /\ work = "take"
    /\ IF ~running THEN work' = "done" /\ UNCHANGED <<queue_tasks, declined>>
       ELSE IF queue_tasks = <<>> THEN work' = "check" /\ UNCHANGED <<queue_tasks, declined>>
       ELSE /\ work' = "handle"
            /\ declined' = <<Head(queue_tasks)>>
            /\ queue_tasks' = Tail(queue_tasks)
    /\ UNCHANGED <<flags, queue_tasks_unhandled, handsh, waiting, mains, clients, served>>

(* callback_new_task on the worker: metrics only read, anything else is     *)
(* declined and set aside.                                                  *)
WorkerHandle ==
    /\ work = "handle"
    /\ IF declined[1] \in Metrics
       THEN Answer(declined[1]) /\ UNCHANGED queue_tasks_unhandled
       ELSE queue_tasks_unhandled' = Append(queue_tasks_unhandled, declined[1]) /\ UNCHANGED http
    /\ declined' = <<>>
    /\ work' = "take"
    /\ UNCHANGED <<flags, queue_tasks, handsh, waiting, mains, posted, served>>

(* The callback throws while it answers; the worker's loop ends. *)
WorkerThrows ==
    /\ MayThrow
    /\ work = "handle"
    /\ declined[1] \in Metrics
    /\ exception' = TRUE
    /\ declined' = <<>>
    /\ work' = "done"
    /\ UNCHANGED <<flags, queues, busy, yielding, stop, waiting, mains, clients, served>>

(* The queue was empty: more tasks, the end of the yield, or wait. *)
WorkerCheck ==
    /\ work = "check"
    /\ IF stop \/ ~yielding THEN work' = "done" /\ UNCHANGED waiters
       ELSE IF ~running \/ queue_tasks # <<>> THEN work' = "take" /\ UNCHANGED waiters
       ELSE work' = "cond" /\ waiters' = waiters \cup {Worker}
    /\ UNCHANGED <<flags, queues, handsh, cv_waiters, mains, declined, clients, served>>

WorkerWoken ==
    /\ work = "cond"
    /\ Woken(Worker)
    /\ IF stop \/ ~running \/ ~yielding \/ queue_tasks # <<>>
       THEN work' = "take" /\ UNCHANGED waiters
       ELSE waiters' = waiters \cup {Worker} /\ UNCHANGED work
    /\ UNCHANGED <<flags, queues, handsh, cv_waiters, mains, declined, clients, served>>

WorkerDone ==
    /\ work = "done"
    /\ busy' = FALSE
    /\ work' = "signal"
    /\ UNCHANGED <<flags, queues, yielding, stop, exception, waiting, mains, declined, clients, served>>

(* After the lock is released. *)
WorkerSignal ==
    /\ work = "signal"
    /\ NotifyAll
    /\ work' = "loop"
    /\ UNCHANGED <<flags, queues, handsh, cv_waiters, mains, declined, clients, served>>

-----------------------------------------------------------------------------
Init ==
    /\ running = FALSE /\ sleeping = FALSE /\ req_stop_sleeping = FALSE
    /\ queue_tasks = <<>> /\ queue_tasks_unhandled = <<>>
    /\ busy = FALSE /\ yielding = FALSE /\ stop = FALSE /\ exception = FALSE
    /\ waiters = {} /\ cv_waiters = {}
    /\ main = "init" /\ taken = <<>>
    /\ work = "none" /\ declined = <<>>
    /\ http = [r \in Request |-> "new"]
    /\ active = {} /\ yields = 0
    /\ posted = <<>> /\ served = <<>>

Arrive(r)     == WaitUntilNoSleep(r) \/ CheckSleep(r)
HttpStep(r)   == NoSleepWoken(r) \/ PostTask(r) \/ PostMetrics(r) \/ GiveUp(r)
MainStep ==
    \/ StartLoop \/ ProcessNewTasks \/ Handle \/ UpdateSlots
    \/ YieldBegin \/ YieldOver \/ YieldWoken \/ Yielded
    \/ Idle \/ WaitWoken \/ WaitTimeout \/ SleepWoken \/ WorkerStop \/ Join
WorkerStep ==
    \/ WorkerLoop \/ WorkerTake \/ WorkerHandle \/ WorkerThrows
    \/ WorkerCheck \/ WorkerWoken \/ WorkerDone \/ WorkerSignal

(* The loop has ended, or the server sleeps and nobody asks it to wake up. *)
Terminated ==
    /\ main = "returned" \/ (main = "asleep" /\ Main \in waiters)
    /\ UNCHANGED vars

Next ==
    \/ \E r \in Request : Arrive(r) \/ HttpStep(r)
    \/ MainStep
    \/ WorkerStep
    \/ Terminate
    \/ Terminated

Spec == Init /\ [][Next]_vars

(* Threads keep running; requests and signals need not come. *)
FairSpec ==
    /\ Spec /\ WF_vars(MainStep) /\ WF_vars(WorkerStep)
    /\ \A r \in Request : WF_vars(HttpStep(r))

-----------------------------------------------------------------------------
(* The main thread touches tasks and slots only when the worker has none in *)
(* its hands: the callback never runs on both threads, and slots do not     *)
(* change under the worker's eyes.                                          *)
HandlersExclude ==
    work \in {"take", "handle"} => main \in {"work", "yield_wait"}

(* Inference tasks reach the slots each once and in the order they were     *)
(* posted, however often the worker takes them, declines them and has them  *)
(* put back, and also when it is interrupted.                               *)
TasksInOrder ==
    posted = served \o Select(queue_tasks_unhandled \o declined \o queue_tasks, Inference)

(* The model is unloaded only when no slot needs it and no request that the *)
(* worker has declined is left aside.                                       *)
SleepsIdle ==
    sleeping => active = {} /\ queue_tasks_unhandled = <<>> /\ ~busy

(* As long as the server neither sleeps nor ends, posted tasks are answered *)
(* until none is left: no wake-up is lost between the main thread, the      *)
(* worker and the threads that post.                                        *)
Handled == []<>(sleeping \/ ~running \/ \A r \in Inference : http[r] # "await")

(* terminate ends a loop that has begun, whatever the threads wait for. *)
TerminateEnds == (main # "init" /\ ~running) ~> main = "returned"

(* "Any new incoming task will automatically trigger the model to reload":  *)
(* a posted task is answered unless the server ends.                        *)
TaskWakes ==
    \A r \in Inference : http[r] = "await" ~> http[r] = "done" \/ ~running
=============================================================================
