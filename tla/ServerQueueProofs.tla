-------------------------- MODULE ServerQueueProofs --------------------------
(***************************************************************************)
(* Proofs about ServerQueue, for any requests, however often update_slots  *)
(* yields, and whether or not the server may sleep, end or the worker's    *)
(* callback may throw.                                                     *)
(***************************************************************************)
EXTENDS ServerQueue, QueueOpsProofs

(* busy is set by the main thread and reset by the worker; in between the   *)
(* main thread cannot get past the end of yield_to_queue, and only in       *)
(* between does the worker touch the queue.                                 *)
MainYields  == busy => main \in {"work", "yield_wait"}
WorkerBusy  == work \in {"take", "handle", "check", "cond", "done"} => busy
Yielding    == yielding => main = "work"
Handshake   == MainYields /\ WorkerBusy /\ Yielding

(* At the start no callback runs and the worker waits. *)
LEMMA HandshakeInit == Init => Handshake
BY DEF Init, Handshake, MainYields, WorkerBusy, Yielding

(* HTTP threads and terminate leave the handshake alone.                    *)
LEMMA HttpKeepsHandshake ==
    ASSUME Handshake, NEW r \in Request,
           Arrive(r) \/ HttpStep(r) \/ Terminate \/ Terminated
    PROVE  Handshake'
<1>1. UNCHANGED <<busy, yielding, main, work>>
  BY DEF Arrive, HttpStep, WaitUntilNoSleep, CheckSleep, NoSleepWoken, PostTask, PostMetrics,
         GiveUp, Terminate, Terminated, vars, handsh, mains, workers
<1> QED BY <1>1 DEF Handshake, MainYields, WorkerBusy, Yielding

(* A step that neither begins nor ends a yield: the handshake stands still, *)
(* and the main thread does not leave the two places inside the yield.      *)
LEMMA OutsideKeepsHandshake ==
    ASSUME Handshake, UNCHANGED <<busy, yielding>>,
           main \notin {"work", "yield_wait"} \/ main' = main,
           work' \in {"take", "handle", "check", "cond", "done"} =>
             \/ work \in {"take", "handle", "check", "cond", "done"}
             \/ busy
    PROVE  Handshake'
BY DEF Handshake, MainYields, WorkerBusy, Yielding

(* The steps of the main thread keep the handshake. *)
LEMMA MainKeepsHandshake ==
    ASSUME Handshake, MainStep
    PROVE  Handshake'
<1>1. CASE StartLoop
  BY <1>1, OutsideKeepsHandshake DEF StartLoop, handsh
<1>2. CASE ProcessNewTasks
  BY <1>2, OutsideKeepsHandshake DEF ProcessNewTasks, handsh, workers
<1>3. CASE Handle
  BY <1>3, OutsideKeepsHandshake DEF Handle, handsh, workers
<1>4. CASE UpdateSlots
  BY <1>4, OutsideKeepsHandshake DEF UpdateSlots, handsh, workers
<1>5. CASE YieldBegin
  \* busy is set while the main thread enters its work.
  BY <1>5 DEF YieldBegin, workers, Handshake, MainYields, WorkerBusy, Yielding
<1>6. CASE YieldOver
  \* with busy still set the main thread waits, else it may leave.
  BY <1>6 DEF YieldOver, workers, Handshake, MainYields, WorkerBusy, Yielding
<1>7. CASE YieldWoken
  BY <1>7 DEF YieldWoken, handsh, workers, Handshake, MainYields, WorkerBusy, Yielding
<1>8. CASE Yielded
  BY <1>8, OutsideKeepsHandshake DEF Yielded, workers
<1>9. CASE Idle
  BY <1>9, OutsideKeepsHandshake DEF Idle, handsh, workers
<1>10. CASE WaitWoken \/ WaitTimeout \/ SleepWoken
  BY <1>10, OutsideKeepsHandshake DEF WaitWoken, WaitTimeout, SleepWoken, handsh, workers
<1>11. CASE WorkerStop
  BY <1>11, OutsideKeepsHandshake DEF WorkerStop, workers
<1>12. CASE Join
  BY <1>12, OutsideKeepsHandshake DEF Join, handsh, workers
<1> QED
  BY <1>1, <1>2, <1>3, <1>4, <1>5, <1>6, <1>7, <1>8, <1>9, <1>10, <1>11, <1>12 DEF MainStep

(* The steps of the worker thread keep the handshake. *)
LEMMA WorkerKeepsHandshake ==
    ASSUME Handshake, WorkerStep
    PROVE  Handshake'
<1>1. CASE WorkerLoop
  \* it starts only when it sees busy.
  BY <1>1, OutsideKeepsHandshake DEF WorkerLoop, handsh, mains
<1>2. CASE WorkerTake \/ WorkerHandle
  BY <1>2, OutsideKeepsHandshake DEF WorkerTake, WorkerHandle, handsh, mains
<1>3. CASE WorkerThrows
  BY <1>3, OutsideKeepsHandshake DEF WorkerThrows, mains
<1>4. CASE WorkerCheck \/ WorkerWoken
  BY <1>4, OutsideKeepsHandshake DEF WorkerCheck, WorkerWoken, handsh, mains
<1>5. CASE WorkerDone
  \* busy is reset when the worker has left the queue.
  BY <1>5 DEF WorkerDone, mains, Handshake, MainYields, WorkerBusy, Yielding
<1>6. CASE WorkerSignal
  BY <1>6, OutsideKeepsHandshake DEF WorkerSignal, handsh, mains
<1> QED BY <1>1, <1>2, <1>3, <1>4, <1>5, <1>6 DEF WorkerStep

(* The handshake between the main thread and the worker is never broken. *)
LEMMA HandshakeInvariant == Spec => []Handshake
<1>1. Init => Handshake
  BY HandshakeInit
<1>2. Handshake /\ [Next]_vars => Handshake'
  <2> SUFFICES ASSUME Handshake, [Next]_vars PROVE Handshake'
    OBVIOUS
  <2>1. ASSUME NEW r \in Request, Arrive(r) \/ HttpStep(r) PROVE Handshake'
    BY <2>1, HttpKeepsHandshake
  <2>2. CASE Terminate \/ Terminated \/ UNCHANGED vars
    BY <2>2 DEF Terminate, Terminated, vars, handsh, mains, workers,
                Handshake, MainYields, WorkerBusy, Yielding
  <2> QED BY <2>1, <2>2, MainKeepsHandshake, WorkerKeepsHandshake DEF Next
<1> QED BY <1>1, <1>2, PTL DEF Spec

(* The callback never runs on both threads, and slots do not change under   *)
(* the worker's eyes: the hand-over of yield_to_queue is a lock.            *)
THEOREM Exclusion == Spec => []HandlersExclude
<1>1. Handshake => HandlersExclude
  BY DEF Handshake, MainYields, WorkerBusy, HandlersExclude
<1> QED BY <1>1, HandshakeInvariant, PTL

(* yield_to_queue is not nested: the assertion at its beginning holds.      *)
NotNested == main = "yield" => ~busy /\ ~yielding

(* yield_to_queue begins only when no other is in progress, which it        *)
(* asserts.                                                                 *)
THEOREM YieldNotNested == Spec => []NotNested
<1>1. Handshake => NotNested
  BY DEF Handshake, MainYields, Yielding, NotNested
<1> QED BY <1>1, HandshakeInvariant, PTL

-----------------------------------------------------------------------------
(* While the server sleeps the main thread is at its wait, or on its way    *)
(* out of the loop because the server ends.                                 *)
AtRest ==
    sleeping => \/ main = "asleep"
                \/ main \in {"process", "stopping", "joining", "returned"} /\ ~running

(* While the server sleeps the main thread is always at rest. *)
LEMMA AtRestInvariant == Spec => []AtRest
<1>1. Init => AtRest
  BY DEF Init, AtRest
<1>2. AtRest /\ [Next]_vars => AtRest'
  <2> SUFFICES ASSUME AtRest, [Next]_vars PROVE AtRest'
    OBVIOUS
  <2>1. ASSUME NEW r \in Request, Arrive(r) \/ HttpStep(r) PROVE AtRest'
    <3>1. UNCHANGED <<running, sleeping, main>>
      BY <2>1 DEF Arrive, HttpStep, WaitUntilNoSleep, CheckSleep, NoSleepWoken, PostTask,
                  PostMetrics, GiveUp, mains, flags
    <3> QED BY <3>1 DEF AtRest
  <2>2. CASE WorkerStep
    <3>1. UNCHANGED <<running, sleeping, main>>
      BY <2>2 DEF WorkerStep, WorkerLoop, WorkerTake, WorkerHandle, WorkerThrows, WorkerCheck,
                  WorkerWoken, WorkerDone, WorkerSignal, mains, flags
    <3> QED BY <3>1 DEF AtRest
  <2>3. CASE Terminate \/ Terminated \/ UNCHANGED vars
    BY <2>3 DEF Terminate, Terminated, vars, flags, mains, AtRest
  <2>4. CASE StartLoop \/ Handle \/ UpdateSlots \/ YieldBegin \/ YieldOver \/ YieldWoken \/ Yielded
    BY <2>4 DEF StartLoop, Handle, UpdateSlots, YieldBegin, YieldOver, YieldWoken, Yielded,
                flags, AtRest
  <2>5. CASE ProcessNewTasks
    \* a server that ends takes no task.
    BY <2>5 DEF ProcessNewTasks, flags, AtRest
  <2>6. CASE Idle \/ WaitWoken \/ WaitTimeout
    BY <2>6 DEF Idle, WaitWoken, WaitTimeout, flags, AtRest
  <2>7. CASE SleepWoken
    \* only the end of the server ends the sleep without resetting sleeping.
    BY <2>7 DEF SleepWoken, flags, AtRest
  <2>8. CASE WorkerStop \/ Join
    BY <2>8 DEF WorkerStop, Join, flags, AtRest
  <2> QED
    BY <2>1, <2>2, <2>3, <2>4, <2>5, <2>6, <2>7, <2>8 DEF Next, MainStep
<1> QED BY <1>1, <1>2, PTL DEF Spec

(* The model is unloaded while the server sleeps: no task is handled on     *)
(* either thread then, and no slot is decoded.                              *)
UnloadedUntouched ==
    sleeping => /\ main \notin {"handle", "update", "yield", "work", "yield_wait", "yielded"}
                /\ work \notin {"take", "handle"}

(* No task callback runs while the model is unloaded. *)
THEOREM NoCallbackAsleep == Spec => []UnloadedUntouched
<1>1. AtRest /\ Handshake => UnloadedUntouched
  BY DEF AtRest, Handshake, MainYields, WorkerBusy, UnloadedUntouched
<1> QED BY <1>1, AtRestInvariant, HandshakeInvariant, PTL

-----------------------------------------------------------------------------
(* The tasks in the queues, in the order in which the main thread will see  *)
(* them.                                                                    *)
TaskEntry == Request \cup {NextResponse, Cancel}

QueueTyped ==
    /\ queue_tasks \in Seq(TaskEntry) /\ queue_tasks_unhandled \in Seq(TaskEntry)
    /\ IF work = "handle" THEN \E e \in TaskEntry : declined = <<e>> ELSE declined = <<>>
    /\ posted \in Seq(Inference) /\ served \in Seq(Inference)
    /\ main = "init" => work = "none"

(* Declined tasks are left aside only within a yield. *)
SetAside == queue_tasks_unhandled # <<>> => main \in {"work", "yield_wait"}

(* Those of the tasks that are in U. *)
Waiting(U) == Select(queue_tasks_unhandled \o declined \o queue_tasks, U)

(* The worker has at most one task in its hands. *)
LEMMA DeclinedType ==
    ASSUME QueueTyped
    PROVE  declined \in Seq(TaskEntry)
<1>1. CASE work = "handle"
  <2>1. PICK e \in TaskEntry : declined = <<e>>
    BY <1>1 DEF QueueTyped
  <2> QED BY <2>1
<1>2. CASE work # "handle"
  BY <1>2 DEF QueueTyped
<1> QED BY <1>1, <1>2

(* The types hold at the start. *)
LEMMA QueueTypedInit == Init => QueueTyped /\ SetAside
BY DEF Init, QueueTyped, SetAside

(* What the steps that touch no task in the queues leave alone. *)
tasks == <<queue_tasks, queue_tasks_unhandled, declined, posted, served>>

(* The steps that leave the tasks alone, all but the notable ones. *)
LEMMA TasksKept ==
    ASSUME QueueTyped, [Next]_vars
    PROVE  \/ /\ UNCHANGED tasks
              /\ (work = "handle" <=> work' = "handle")
           \/ \E r \in Request : PostTask(r) \/ PostMetrics(r) \/ GiveUp(r)
           \/ ProcessNewTasks \/ UpdateSlots \/ YieldOver \/ YieldWoken
           \/ WorkerTake \/ WorkerHandle \/ WorkerThrows
<1> USE DEF tasks, flags, queues, handsh, waiting, mains, workers, clients
<1>1. CASE UNCHANGED vars \/ Terminated \/ Terminate
  BY <1>1 DEF vars, Terminated, Terminate
<1>2. ASSUME NEW r \in Request, WaitUntilNoSleep(r) \/ CheckSleep(r) \/ NoSleepWoken(r)
      PROVE  UNCHANGED tasks /\ work' = work
  BY <1>2 DEF WaitUntilNoSleep, CheckSleep, NoSleepWoken
<1>3. CASE StartLoop
  BY <1>3 DEF StartLoop, QueueTyped
<1>4. CASE Handle \/ YieldBegin \/ Yielded \/ Idle \/ WaitWoken
  BY <1>4 DEF Handle, YieldBegin, Yielded, Idle, WaitWoken
<1>5. CASE WaitTimeout \/ SleepWoken \/ WorkerStop \/ Join
  BY <1>5 DEF WaitTimeout, SleepWoken, WorkerStop, Join
<1>6. CASE WorkerLoop \/ WorkerCheck \/ WorkerWoken \/ WorkerDone \/ WorkerSignal
  BY <1>6 DEF WorkerLoop, WorkerCheck, WorkerWoken, WorkerDone, WorkerSignal
<1> QED
  BY <1>1, <1>2, <1>3, <1>4, <1>5, <1>6 DEF Next, Arrive, HttpStep, MainStep, WorkerStep

(* No task but Cancel is added when a metrics request gives up, and none    *)
(* but its own is lost.                                                     *)
LEMMA GiveUpKeeps ==
    ASSUME QueueTyped, NEW r \in Metrics, CleanupPendingTask(r)
    PROVE  /\ queue_tasks' \in Seq(TaskEntry) /\ queue_tasks_unhandled' \in Seq(TaskEntry)
           /\ queue_tasks_unhandled = <<>> => queue_tasks_unhandled' = <<>>
           /\ \A U : U \cap (Metrics \cup {Cancel}) = {} =>
                 /\ Select(queue_tasks', U) = Select(queue_tasks, U)
                 /\ Select(queue_tasks_unhandled', U) = Select(queue_tasks_unhandled, U)
<1>1. queue_tasks \in Seq(TaskEntry) /\ queue_tasks_unhandled \in Seq(TaskEntry) /\ Cancel \in TaskEntry
  BY DEF QueueTyped, TaskEntry
<1>2. ASSUME NEW q \in Seq(TaskEntry), NEW U
      PROVE  /\ Without(q, {r}) \in Seq(TaskEntry)
             /\ Select(Without(q, {r}), U) = Select(q, U \ {r})
  BY SelectWithout
<1>3. \A q \in Seq(TaskEntry) : Without(q, {r}) \in Seq(TaskEntry)
  BY <1>2
<1>4. Without(<<>>, {r}) = <<>>
  BY SelectEmpty DEF Without
<1>5. ASSUME NEW U, U \cap (Metrics \cup {Cancel}) = {}
      PROVE  /\ Select(queue_tasks', U) = Select(queue_tasks, U)
             /\ Select(queue_tasks_unhandled', U) = Select(queue_tasks_unhandled, U)
  <2>1. U \ {r} = U /\ Cancel \notin U
    BY <1>5
  <2>2. \A q \in Seq(TaskEntry) : Select(Without(q, {r}), U) = Select(q, U)
    BY <1>2, <2>1
  <2>3. Select(<<Cancel>>, U) = <<>>
    BY <2>1, SelectOne
  <2>4. PICK q \in Seq(TaskEntry) : q = Without(queue_tasks, {r})
    BY <1>1, <1>3
  <2>5. <<Cancel>> \in Seq(TaskEntry)
    BY <1>1
  <2>6. Select(<<Cancel>> \o q, U) = Select(<<Cancel>>, U) \o Select(q, U)
    <3>1. ASSUME NEW a \in Seq(TaskEntry) PROVE Select(a \o q, U) = Select(a, U) \o Select(q, U)
      BY SelectConcat
    <3> QED BY <2>5, <3>1
  <2>7. Select(q, U) \in Seq(TaskEntry \cap U)
    BY SelectType
  <2>8. Select(<<Cancel>> \o q, U) = Select(q, U)
    BY <2>3, <2>6, <2>7
  <2> QED BY <1>1, <2>2, <2>4, <2>8 DEF CleanupPendingTask
<1>6. queue_tasks' \in Seq(TaskEntry) /\ queue_tasks_unhandled' \in Seq(TaskEntry)
  <2>1. PICK q \in Seq(TaskEntry) : q = Without(queue_tasks, {r})
    BY <1>1, <1>3
  <2>2. <<Cancel>> \o q \in Seq(TaskEntry)
    BY <1>1
  <2> QED BY <1>1, <1>3, <2>1, <2>2 DEF CleanupPendingTask
<1> QED BY <1>4, <1>5, <1>6 DEF CleanupPendingTask

(* The worker's thread is not there before the loop begins. *)
LEMMA WorkNone ==
    ASSUME QueueTyped, [Next]_vars
    PROVE  main' = "init" => work' = "none"
<1> USE DEF flags, queues, handsh, waiting, mains, workers, clients
<1>1. CASE UNCHANGED vars \/ Terminated \/ Terminate
  BY <1>1 DEF vars, Terminated, Terminate, QueueTyped
<1>2. ASSUME NEW r \in Request, Arrive(r) \/ HttpStep(r) PROVE UNCHANGED <<main, work>>
  BY <1>2 DEF Arrive, HttpStep, WaitUntilNoSleep, CheckSleep, NoSleepWoken, PostTask, PostMetrics, GiveUp
<1>3. CASE WorkerStep
  BY <1>3 DEF WorkerStep, WorkerLoop, WorkerTake, WorkerHandle, WorkerThrows, WorkerCheck, WorkerWoken,
              WorkerDone, WorkerSignal, QueueTyped
<1>4. CASE StartLoop \/ ProcessNewTasks \/ Handle \/ UpdateSlots \/ YieldBegin \/ YieldOver
  BY <1>4 DEF StartLoop, ProcessNewTasks, Handle, UpdateSlots, YieldBegin, YieldOver
<1>5. CASE YieldWoken \/ Yielded \/ Idle \/ WaitWoken \/ WaitTimeout \/ SleepWoken \/ WorkerStop \/ Join
  BY <1>5 DEF YieldWoken, Yielded, Idle, WaitWoken, WaitTimeout, SleepWoken, WorkerStop, Join
<1> QED BY <1>1, <1>2, <1>3, <1>4, <1>5 DEF Next, MainStep, QueueTyped

(* Every step keeps the types. *)
LEMMA QueueTypedStep ==
    ASSUME QueueTyped, [Next]_vars
    PROVE  QueueTyped'
<1> USE DEF flags, queues, handsh, waiting, mains, workers, clients
<1>0. /\ queue_tasks \in Seq(TaskEntry) /\ queue_tasks_unhandled \in Seq(TaskEntry)
      /\ posted \in Seq(Inference) /\ served \in Seq(Inference)
      /\ NextResponse \in TaskEntry /\ Cancel \in TaskEntry
      /\ Request \subseteq TaskEntry
  BY DEF QueueTyped, TaskEntry
<1>1. (main' = "init" => work' = "none")
  BY WorkNone
<1>2. CASE UNCHANGED tasks /\ (work = "handle" <=> work' = "handle")
  BY <1>1, <1>2 DEF QueueTyped, tasks
<1>3. ASSUME NEW r \in Request, PostTask(r) PROVE QueueTyped'
  BY <1>0, <1>1, <1>3 DEF QueueTyped, PostTask, PostBack
<1>4. ASSUME NEW r \in Request, PostMetrics(r) PROVE QueueTyped'
  <2>1. <<r>> \o queue_tasks \in Seq(TaskEntry)
    BY <1>0
  <2> QED BY <1>1, <1>4, <2>1 DEF QueueTyped, PostMetrics, PostFront
<1>5. ASSUME NEW r \in Request, GiveUp(r) PROVE QueueTyped'
  <2>1. r \in Metrics /\ CleanupPendingTask(r)
    BY <1>5 DEF GiveUp
  <2>2. queue_tasks' \in Seq(TaskEntry) /\ queue_tasks_unhandled' \in Seq(TaskEntry)
    BY <2>1, GiveUpKeeps
  <2> QED BY <1>1, <1>5, <2>2 DEF QueueTyped, GiveUp
<1>6. CASE ProcessNewTasks
  <2>1. queue_tasks # <<>> => Head(queue_tasks) \in TaskEntry /\ Tail(queue_tasks) \in Seq(TaskEntry)
    BY <1>0
  <2>2. queue_tasks' \in Seq(TaskEntry)
    BY <1>0, <1>6, <2>1 DEF ProcessNewTasks
  <2>3. served' \in Seq(Inference)
    <3>1. \A e \in Inference : Append(served, e) \in Seq(Inference)
      BY <1>0
    <3> QED BY <1>0, <1>6, <3>1 DEF ProcessNewTasks
  <2>4. UNCHANGED <<queue_tasks_unhandled, work, declined, posted>>
    BY <1>6 DEF ProcessNewTasks
  <2> QED BY <1>1, <2>2, <2>3, <2>4 DEF QueueTyped
<1>7. CASE UpdateSlots
  <2>1. queue_tasks' \in Seq(TaskEntry)
    <3>1. Append(queue_tasks, NextResponse) \in Seq(TaskEntry)
      BY <1>0
    <3> QED BY <1>0, <1>7, <3>1 DEF UpdateSlots, PostBack
  <2>2. UNCHANGED <<queue_tasks_unhandled, work, declined, posted, served>>
    BY <1>7 DEF UpdateSlots
  <2> QED BY <1>1, <2>1, <2>2 DEF QueueTyped
<1>8. CASE YieldOver \/ YieldWoken
  <2>1. queue_tasks_unhandled \o queue_tasks \in Seq(TaskEntry) /\ <<>> \in Seq(TaskEntry)
    BY <1>0
  <2>2. queue_tasks' \in Seq(TaskEntry) /\ queue_tasks_unhandled' \in Seq(TaskEntry)
    BY <1>0, <1>8, <2>1 DEF YieldOver, YieldWoken, PutBack
  <2>3. UNCHANGED <<declined, work, posted, served>>
    BY <1>8 DEF YieldOver, YieldWoken
  <2> QED BY <1>1, <2>2, <2>3 DEF QueueTyped
<1>9. CASE WorkerTake
  <2>1. work = "take"
    BY <1>9 DEF WorkerTake
  <2>2. queue_tasks # <<>> => Head(queue_tasks) \in TaskEntry /\ Tail(queue_tasks) \in Seq(TaskEntry)
    BY <1>0
  <2>3. /\ queue_tasks' \in Seq(TaskEntry)
        /\ IF work' = "handle" THEN \E e \in TaskEntry : declined' = <<e>> ELSE declined' = <<>>
    BY <1>0, <1>9, <2>1, <2>2 DEF WorkerTake, QueueTyped
  <2>4. UNCHANGED <<queue_tasks_unhandled, posted, served>>
    BY <1>9 DEF WorkerTake
  <2> QED BY <1>0, <1>1, <2>3, <2>4 DEF QueueTyped
<1>10. CASE WorkerHandle
  <2>1. PICK e \in TaskEntry : declined = <<e>>
    BY <1>10 DEF WorkerHandle, QueueTyped
  <2>2. queue_tasks_unhandled' \in Seq(TaskEntry)
    <3>1. Append(queue_tasks_unhandled, e) \in Seq(TaskEntry) /\ declined[1] = e
      BY <1>0, <2>1
    <3> QED BY <1>0, <1>10, <3>1 DEF WorkerHandle
  <2> QED BY <1>0, <1>1, <1>10, <2>2 DEF QueueTyped, WorkerHandle
<1>11. CASE WorkerThrows
  BY <1>0, <1>1, <1>11 DEF QueueTyped, WorkerThrows
<1> QED
  BY <1>2, <1>3, <1>4, <1>5, <1>6, <1>7, <1>8, <1>9, <1>10, <1>11, TasksKept

(* Every step keeps it that declined tasks are left aside only within a     *)
(* yield.                                                                   *)
LEMMA SetAsideStep ==
    ASSUME QueueTyped, SetAside, Handshake, [Next]_vars
    PROVE  SetAside'
<1> USE DEF flags, queues, handsh, waiting, mains, workers, clients
<1>1. CASE UNCHANGED <<queue_tasks_unhandled, main>>
  BY <1>1 DEF SetAside
<1>2. ASSUME NEW r \in Request, GiveUp(r) PROVE SetAside'
  <2>1. r \in Metrics /\ CleanupPendingTask(r) /\ main' = main
    BY <1>2 DEF GiveUp
  <2> QED BY <2>1, GiveUpKeeps DEF SetAside
<1>3. CASE YieldOver \/ YieldWoken
  BY <1>3 DEF YieldOver, YieldWoken, PutBack, SetAside
<1>4. CASE WorkerHandle
  BY <1>4 DEF WorkerHandle, SetAside, Handshake, WorkerBusy, MainYields
<1>5. CASE queue_tasks_unhandled' = queue_tasks_unhandled /\ main \notin {"work", "yield_wait"}
  BY <1>5 DEF SetAside
<1>6. \/ UNCHANGED <<queue_tasks_unhandled, main>>
      \/ queue_tasks_unhandled' = queue_tasks_unhandled /\ main \notin {"work", "yield_wait"}
      \/ YieldOver \/ YieldWoken \/ WorkerHandle
      \/ \E r \in Request : GiveUp(r)
  <2>1. CASE UNCHANGED vars \/ Terminated \/ Terminate
    BY <2>1 DEF vars, Terminated, Terminate
  <2>2. ASSUME NEW r \in Request, WaitUntilNoSleep(r) \/ CheckSleep(r) \/ NoSleepWoken(r)
                   \/ PostTask(r) \/ PostMetrics(r)
        PROVE  UNCHANGED <<queue_tasks_unhandled, main>>
    BY <2>2 DEF WaitUntilNoSleep, CheckSleep, NoSleepWoken, PostTask, PostMetrics
  <2>3. CASE WorkerLoop \/ WorkerTake \/ WorkerThrows \/ WorkerCheck \/ WorkerWoken \/ WorkerDone \/ WorkerSignal
    BY <2>3 DEF WorkerLoop, WorkerTake, WorkerThrows, WorkerCheck, WorkerWoken, WorkerDone, WorkerSignal
  <2>4. CASE StartLoop \/ ProcessNewTasks \/ Handle \/ UpdateSlots \/ YieldBegin \/ Yielded \/ Idle
    BY <2>4 DEF StartLoop, ProcessNewTasks, Handle, UpdateSlots, YieldBegin, Yielded, Idle
  <2>5. CASE WaitWoken \/ WaitTimeout \/ SleepWoken \/ WorkerStop \/ Join
    BY <2>5 DEF WaitWoken, WaitTimeout, SleepWoken, WorkerStop, Join
  <2> QED BY <2>1, <2>2, <2>3, <2>4, <2>5 DEF Next, Arrive, HttpStep, MainStep, WorkerStep
<1> QED BY <1>1, <1>2, <1>3, <1>4, <1>5, <1>6

(* What a step does to the waiting tasks other than metrics and Cancel:     *)
(* they are posted at the back and taken from the front, and nothing else   *)
(* changes them.                                                            *)
LEMMA WaitingStep ==
    ASSUME QueueTyped, SetAside, Handshake, [Next]_vars, NEW U, U \cap (Metrics \cup {Cancel}) = {}
    PROVE  /\ \/ Waiting(U)' = Waiting(U) /\ UNCHANGED <<posted, served>>
              \/ \E r \in Inference : PostTask(r) /\ Waiting(U)' = Waiting(U) \o Select(<<r>>, U)
              \/ UpdateSlots /\ active # {} /\ UNCHANGED <<posted, served>>
              \/ /\ ProcessNewTasks /\ main' = "handle" /\ queue_tasks # <<>>
                 /\ Waiting(U) = Select(<<Head(queue_tasks)>>, U) \o Waiting(U)'
           /\ UpdateSlots /\ active # {} => Waiting(U)' = Waiting(U) \o Select(<<NextResponse>>, U)
<1> USE DEF flags, queues, handsh, waiting, mains, workers, clients
<1>1. /\ queue_tasks \in Seq(TaskEntry) /\ queue_tasks_unhandled \in Seq(TaskEntry)
      /\ declined \in Seq(TaskEntry)
  BY DeclinedType DEF QueueTyped
<1>2. /\ queue_tasks' \in Seq(TaskEntry) /\ queue_tasks_unhandled' \in Seq(TaskEntry)
      /\ declined' \in Seq(TaskEntry)
  <2>1. QueueTyped'
    BY QueueTypedStep
  <2>2. CASE work' = "handle"
    <3>1. PICK e \in TaskEntry : declined' = <<e>>
      BY <2>1, <2>2 DEF QueueTyped
    <3> QED BY <2>1, <3>1 DEF QueueTyped
  <2>3. CASE work' # "handle"
    BY <2>1, <2>3 DEF QueueTyped
  <2> QED BY <2>2, <2>3
<1>3. \A a, b, c \in Seq(TaskEntry) :
         /\ (a \o b) \o c = a \o (b \o c) /\ a \o b \in Seq(TaskEntry)
         /\ a \o <<>> = a /\ <<>> \o a = a
  <2> SUFFICES ASSUME NEW a \in Seq(TaskEntry), NEW b \in Seq(TaskEntry), NEW c \in Seq(TaskEntry)
               PROVE  /\ (a \o b) \o c = a \o (b \o c) /\ a \o b \in Seq(TaskEntry)
                      /\ a \o <<>> = a /\ <<>> \o a = a
    OBVIOUS
  <2> QED BY ConcatAssociative, ConcatEmptySeq
<1>4. \A a, b \in Seq(TaskEntry) : Select(a \o b, U) = Select(a, U) \o Select(b, U)
  BY SelectTwo
<1>5. \A a \in Seq(TaskEntry) : Select(a, U) \in Seq(TaskEntry)
  BY SelectElements
<1>6. \A a \in Seq(TaskEntry), e \in TaskEntry : Append(a, e) = a \o <<e>>
  BY AppendIsConcat
<1>7. /\ Select(<<>>, U) = <<>> /\ <<>> \in Seq(TaskEntry)
      /\ \A e \in TaskEntry : <<e>> \in Seq(TaskEntry) /\ Select(<<e>>, U) = IF e \in U THEN <<e>> ELSE <<>>
  BY SelectEmpty, SelectOne
<1>8. Request \subseteq TaskEntry /\ NextResponse \in TaskEntry /\ Cancel \in TaskEntry
  BY DEF TaskEntry
<1> DEFINE u == queue_tasks_unhandled
           d == declined
           q == queue_tasks
           line == u \o d \o q
<1>9. Waiting(U) = Select(line, U) /\ Waiting(U)' = Select(line', U) /\ line \in Seq(TaskEntry)
  BY <1>1, <1>3 DEF Waiting
<1>10. ASSUME UNCHANGED tasks PROVE Waiting(U)' = Waiting(U)
  BY <1>9, <1>10 DEF tasks
<1>11. ASSUME NEW e \in TaskEntry, u' = u, d' = d, q' = Append(q, e)
       PROVE  Waiting(U)' = Waiting(U) \o Select(<<e>>, U)
  <2>1. line' = line \o <<e>>
    <3>1. PICK f \in Seq(TaskEntry) : f = <<e>>
      BY <1>7
    <3>2. PICK g \in Seq(TaskEntry) : g = u \o d
      BY <1>1, <1>3
    <3>3. (g \o q) \o f = g \o (q \o f)
      BY <1>1, <1>3
    <3> QED BY <1>1, <1>6, <1>11, <3>1, <3>2, <3>3
  <2>2. PICK l \in Seq(TaskEntry) : l = line
    BY <1>9
  <2>3. PICK f \in Seq(TaskEntry) : f = <<e>>
    BY <1>7
  <2>4. Select(l \o f, U) = Select(l, U) \o Select(f, U)
    BY <1>4
  <2> QED BY <1>9, <2>1, <2>2, <2>3, <2>4
<1>12. ASSUME NEW r \in Request, PostTask(r)
       PROVE  r \in Inference /\ Waiting(U)' = Waiting(U) \o Select(<<r>>, U)
  BY <1>8, <1>11, <1>12 DEF PostTask, PostBack
<1>13. ASSUME NEW r \in Request, PostMetrics(r)
       PROVE  Waiting(U)' = Waiting(U)
  <2>1. u' = u /\ d' = d /\ q' = <<r>> \o q /\ r \notin U
    BY <1>13 DEF PostMetrics, PostFront
  <2>2. PICK f \in Seq(TaskEntry) : f = <<r>> /\ Select(f, U) = <<>>
    BY <1>7, <1>8, <2>1
  <2>3. PICK p \in Seq(TaskEntry) : p = f \o q
    BY <1>1, <1>3
  <2>4. Select(p, U) = Select(f, U) \o Select(q, U)
    BY <1>1, <1>4, <2>3
  <2>5. Select(q, U) \in Seq(TaskEntry)
    BY <1>1, <1>5
  <2>6. Select(p, U) = Select(q, U)
    BY <1>3, <2>2, <2>4, <2>5
  <2>7. PICK g \in Seq(TaskEntry) : g = u \o d
    BY <1>1, <1>3
  <2>8. Select(g \o p, U) = Select(g, U) \o Select(p, U) /\ Select(g \o q, U) = Select(g, U) \o Select(q, U)
    BY <1>1, <1>4
  <2> QED BY <1>9, <2>1, <2>2, <2>3, <2>6, <2>7, <2>8
<1>14. ASSUME NEW r \in Request, GiveUp(r)
       PROVE  Waiting(U)' = Waiting(U)
  <2>1. r \in Metrics /\ CleanupPendingTask(r) /\ d' = d
    BY <1>14 DEF GiveUp
  <2>2. Select(q', U) = Select(q, U) /\ Select(u', U) = Select(u, U)
    BY <2>1, GiveUpKeeps
  <2>3. Select(u \o d, U) = Select(u, U) \o Select(d, U) /\ Select(u' \o d, U) = Select(u', U) \o Select(d, U)
    BY <1>1, <1>2, <1>4
  <2>4. PICK g \in Seq(TaskEntry) : g = u \o d
    BY <1>1, <1>3
  <2>5. PICK h \in Seq(TaskEntry) : h = u' \o d
    BY <1>1, <1>2, <1>3
  <2>6. Select(g \o q, U) = Select(g, U) \o Select(q, U) /\ Select(h \o q', U) = Select(h, U) \o Select(q', U)
    BY <1>1, <1>2, <1>4
  <2> QED BY <1>9, <2>1, <2>2, <2>3, <2>4, <2>5, <2>6
<1>15. ASSUME ProcessNewTasks
       PROVE  \/ Waiting(U)' = Waiting(U) /\ UNCHANGED <<posted, served>>
              \/ /\ main' = "handle" /\ queue_tasks # <<>>
                 /\ Waiting(U) = Select(<<Head(queue_tasks)>>, U) \o Waiting(U)'
  <2>1. CASE ~running \/ q = <<>>
    BY <1>9, <1>15, <2>1 DEF ProcessNewTasks
  <2>2. CASE running /\ q # <<>>
    <3>1. /\ main = "process" /\ main' = "handle" /\ u' = u /\ d' = d
          /\ q' = Tail(q)
      BY <1>15, <2>2 DEF ProcessNewTasks
    <3>2. u = <<>>
      BY <3>1 DEF SetAside
    <3>3. d = <<>>
      BY <3>1 DEF QueueTyped, Handshake, MainYields, WorkerBusy
    <3>4. line = q /\ line' = Tail(q)
      BY <1>1, <1>2, <1>3, <3>1, <3>2, <3>3
    <3>5. Select(q, U) = Select(<<Head(q)>>, U) \o Select(Tail(q), U)
      BY <1>1, <2>2, SelectHead
    <3> QED BY <1>9, <2>2, <3>1, <3>4, <3>5
  <2> QED BY <2>1, <2>2
<1>16. ASSUME YieldOver \/ YieldWoken PROVE Waiting(U)' = Waiting(U)
  <2>1. CASE UNCHANGED <<u, d, q>>
    BY <1>9, <2>1
  <2>2. CASE u' = <<>> /\ q' = u \o q /\ d' = d /\ ~busy
    <3>1. d = <<>>
      BY <2>2 DEF QueueTyped, Handshake, WorkerBusy
    <3>2. line' = line
      BY <1>1, <1>2, <1>3, <2>2, <3>1
    <3> QED BY <1>9, <3>2
  <2> QED BY <1>16, <2>1, <2>2 DEF YieldOver, YieldWoken, PutBack
<1>17. ASSUME WorkerTake PROVE Waiting(U)' = Waiting(U)
  <2>1. CASE UNCHANGED <<u, d, q>>
    BY <1>9, <2>1
  <2>2. CASE work = "take" /\ u' = u /\ q # <<>> /\ d' = <<Head(q)>> /\ q' = Tail(q)
    <3>1. d = <<>>
      BY <2>2 DEF QueueTyped
    <3>2. q = d' \o q'
      BY <1>1, <2>2
    <3>3. line' = u \o (d' \o q')
      BY <1>1, <1>2, <1>3, <2>2
    <3> QED BY <1>1, <1>3, <1>9, <3>1, <3>2, <3>3
  <2> QED BY <1>17, <2>1, <2>2 DEF WorkerTake
<1>18. ASSUME WorkerHandle PROVE Waiting(U)' = Waiting(U)
  <2>1. PICK e \in TaskEntry : d = <<e>>
    BY <1>18 DEF WorkerHandle, QueueTyped
  <2>2. d[1] = e /\ d' = <<>> /\ q' = q
    BY <1>18, <2>1 DEF WorkerHandle
  <2>3. CASE e \in Metrics
    <3>1. u' = u
      BY <1>18, <2>2, <2>3 DEF WorkerHandle
    <3>2. Select(d, U) = <<>>
      BY <1>7, <2>1, <2>3
    <3> HIDE DEF u, d, q
    <3>3. Select(u \o d, U) = Select(u, U)
      <4>1. Select(u \o d, U) = Select(u, U) \o Select(d, U)
        BY <1>1, <1>4 DEF u, d, q
      <4>2. Select(u, U) \in Seq(TaskEntry)
        BY <1>1, <1>5 DEF u, d, q
      <4>3. Select(u, U) \o <<>> = Select(u, U)
        BY <1>3, <4>2
      <4> QED BY <3>2, <4>1, <4>3
    <3>4. PICK g \in Seq(TaskEntry) : g = u \o d
      BY <1>1, <1>3 DEF u, d, q
    <3>5. Select(g \o q, U) = Select(g, U) \o Select(q, U) /\ Select(u \o q, U) = Select(u, U) \o Select(q, U)
      BY <1>1, <1>4 DEF u, d, q
    <3>6. line' = u \o q
      BY <1>1, <1>3, <2>2, <3>1 DEF u, d, q
    <3> QED BY <1>9, <3>3, <3>4, <3>5, <3>6
  <2>4. CASE e \notin Metrics
    <3>1. u' = Append(u, e)
      BY <1>18, <2>2, <2>4 DEF WorkerHandle
    <3>2. u' = u \o d
      BY <1>1, <1>6, <2>1, <3>1
    <3>3. line' = line
      BY <1>1, <1>2, <1>3, <2>2, <3>2
    <3> QED BY <1>9, <3>3
  <2> QED BY <2>3, <2>4
<1>19. ASSUME WorkerThrows PROVE Waiting(U)' = Waiting(U)
  <2>1. PICK e \in TaskEntry : d = <<e>>
    BY <1>19 DEF WorkerThrows, QueueTyped
  <2>2. e \in Metrics /\ d' = <<>> /\ q' = q /\ u' = u
    BY <1>19, <2>1 DEF WorkerThrows
  <2>3. Select(d, U) = <<>>
    BY <1>7, <2>1, <2>2
  <2> HIDE DEF u, d, q
  <2>4. Select(u \o d, U) = Select(u, U)
    <3>1. Select(u \o d, U) = Select(u, U) \o Select(d, U)
      BY <1>1, <1>4 DEF u, d, q
    <3>2. Select(u, U) \in Seq(TaskEntry)
      BY <1>1, <1>5 DEF u, d, q
    <3>3. Select(u, U) \o <<>> = Select(u, U)
      BY <1>3, <3>2
    <3> QED BY <2>3, <3>1, <3>3
  <2>5. PICK g \in Seq(TaskEntry) : g = u \o d
    BY <1>1, <1>3 DEF u, d, q
  <2>6. Select(g \o q, U) = Select(g, U) \o Select(q, U) /\ Select(u \o q, U) = Select(u, U) \o Select(q, U)
    BY <1>1, <1>4 DEF u, d, q
  <2>7. line' = u \o q
    BY <1>1, <1>3, <2>2 DEF u, d, q
  <2> QED BY <1>9, <2>4, <2>5, <2>6, <2>7
<1>20. /\ (UNCHANGED tasks \/ UpdateSlots \/ YieldOver \/ YieldWoken \/ WorkerTake \/ WorkerHandle \/ WorkerThrows)
             => UNCHANGED <<posted, served>>
       /\ \A r \in Request : PostMetrics(r) \/ GiveUp(r) => UNCHANGED <<posted, served>>
  BY DEF tasks, UpdateSlots, YieldOver, YieldWoken, WorkerTake, WorkerHandle, WorkerThrows, PostMetrics, GiveUp
<1> HIDE DEF line, u, d, q
<1>21. UpdateSlots /\ active # {} => Waiting(U)' = Waiting(U) \o Select(<<NextResponse>>, U)
  BY <1>8, <1>11 DEF UpdateSlots, PostBack, u, d, q
<1>22. CASE \E r \in Request : PostTask(r) \/ PostMetrics(r) \/ GiveUp(r)
  BY <1>12, <1>13, <1>14, <1>20, <1>21, <1>22
<1>23. CASE UpdateSlots
  <2>1. CASE active = {}
    BY <1>9, <1>20, <1>21, <1>23, <2>1 DEF UpdateSlots, line, u, d, q
  <2>2. CASE active # {}
    BY <1>8, <1>11, <1>20, <1>23, <2>2 DEF UpdateSlots, PostBack, u, d, q
  <2> QED BY <2>1, <2>2
<1> QED
  BY <1>10, <1>15, <1>16, <1>17, <1>18, <1>19, <1>20, <1>21, <1>22, <1>23, TasksKept

(* Inference tasks reach the slots each once and in the order they were     *)
(* posted: the queue, what the worker has in its hands and what it declined *)
(* are together one line.                                                   *)
THEOREM InferenceInOrder == Spec => []TasksInOrder
<1> DEFINE Inv == QueueTyped /\ SetAside /\ TasksInOrder
<1>1. Init => Inv
  <2> SUFFICES ASSUME Init PROVE Inv
    OBVIOUS
  <2>1. queue_tasks_unhandled \o declined \o queue_tasks = <<>>
    BY DEF Init
  <2>2. posted = <<>> /\ served = <<>> /\ Select(<<>>, Inference) = <<>>
    BY SelectEmpty DEF Init
  <2> QED BY <2>1, <2>2, QueueTypedInit DEF TasksInOrder
<1>2. Inv /\ Handshake /\ [Next]_vars => Inv'
  <2> SUFFICES ASSUME QueueTyped, SetAside, TasksInOrder, Handshake, [Next]_vars
               PROVE  Inv'
    OBVIOUS
  <2>1. QueueTyped' /\ SetAside'
    BY QueueTypedStep, SetAsideStep
  <2>2. Inference \cap (Metrics \cup {Cancel}) = {} /\ NextResponse \notin Inference
    BY QueueAssumption DEF Request
  <2>3. posted = served \o Waiting(Inference)
    BY DEF TasksInOrder, Waiting
  <2>4. Waiting(Inference) \in Seq(Inference) /\ Waiting(Inference)' \in Seq(Inference)
    <3>1. ASSUME NEW a \in Seq(TaskEntry) PROVE Select(a, Inference) \in Seq(Inference)
      <4>1. Select(a, Inference) \in Seq(TaskEntry \cap Inference) /\ TaskEntry \cap Inference = Inference
        BY SelectType DEF TaskEntry, Request
      <4> QED BY <4>1
    <3>2. \A a, b, c \in Seq(TaskEntry) : a \o b \o c \in Seq(TaskEntry)
      OBVIOUS
    <3>3. /\ queue_tasks_unhandled \o declined \o queue_tasks \in Seq(TaskEntry)
      BY <3>2, DeclinedType DEF QueueTyped
    <3>4. declined' \in Seq(TaskEntry)
      <4>1. CASE work' = "handle"
        <5>1. PICK e \in TaskEntry : declined' = <<e>>
          BY <2>1, <4>1 DEF QueueTyped
        <5> QED BY <5>1
      <4>2. CASE work' # "handle"
        BY <2>1, <4>2 DEF QueueTyped
      <4> QED BY <4>1, <4>2
    <3>5. queue_tasks_unhandled' \o declined' \o queue_tasks' \in Seq(TaskEntry)
      BY <2>1, <3>2, <3>4 DEF QueueTyped
    <3> QED BY <3>1, <3>3, <3>5 DEF Waiting
  <2>5. posted' = served' \o Waiting(Inference)'
    <3> HIDE DEF Waiting
    <3>1. served \in Seq(Inference)
      BY DEF QueueTyped
    <3>2. CASE UNCHANGED <<posted, served, Waiting(Inference)>>
      BY <2>3, <3>2
    <3>3. ASSUME NEW r \in Inference, PostTask(r), Waiting(Inference)' = Waiting(Inference) \o Select(<<r>>, Inference)
          PROVE  posted' = served' \o Waiting(Inference)'
      <4>1. posted' = Append(posted, r) /\ served' = served
        BY <3>3 DEF PostTask
      <4>2. Select(<<r>>, Inference) = <<r>>
        BY SelectOne
      <4>3. Append(posted, r) = posted \o <<r>>
        BY AppendIsConcat DEF QueueTyped
      <4>4. PICK w \in Seq(Inference) : w = Waiting(Inference)
        BY <2>4
      <4>5. PICK f \in Seq(Inference) : f = <<r>>
        <5>1. <<r>> \in Seq(Inference)
          OBVIOUS
        <5> QED BY <5>1
      <4>6. (served \o w) \o f = served \o (w \o f)
        BY <3>1, ConcatAssociative
      <4> QED BY <2>3, <3>3, <4>1, <4>2, <4>3, <4>4, <4>5, <4>6
    <3>4. CASE /\ UpdateSlots /\ UNCHANGED <<posted, served>>
               /\ Waiting(Inference)' = Waiting(Inference) \o Select(<<NextResponse>>, Inference)
      <4>1. Select(<<NextResponse>>, Inference) = <<>>
        BY <2>2, SelectOne
      <4>2. Waiting(Inference)' = Waiting(Inference)
        BY <2>4, <3>4, <4>1
      <4> QED BY <2>3, <3>4, <4>2
    <3>5. CASE /\ ProcessNewTasks /\ main' = "handle" /\ queue_tasks # <<>>
               /\ Waiting(Inference) = Select(<<Head(queue_tasks)>>, Inference) \o Waiting(Inference)'
      <4>1. posted' = posted
        BY <3>5 DEF ProcessNewTasks, clients
      <4>2. CASE Head(queue_tasks) \in Inference
        <5>1. PICK e \in Inference : e = Head(queue_tasks)
          BY <4>2
        <5>2. served' = Append(served, e)
          BY <3>5, <5>1 DEF ProcessNewTasks
        <5>3. Append(served, e) = served \o <<e>>
          BY <3>1, AppendIsConcat
        <5>4. Select(<<e>>, Inference) = <<e>>
          BY SelectOne
        <5>5. PICK w \in Seq(Inference) : w = Waiting(Inference)'
          BY <2>4
        <5>6. PICK f \in Seq(Inference) : f = <<e>>
          <6>1. <<e>> \in Seq(Inference)
            OBVIOUS
          <6> QED BY <6>1
        <5>7. (served \o f) \o w = served \o (f \o w)
          BY <3>1, ConcatAssociative
        <5> QED BY <2>3, <3>5, <4>1, <5>1, <5>2, <5>3, <5>4, <5>5, <5>6, <5>7
      <4>3. CASE Head(queue_tasks) \notin Inference
        <5>1. served' = served
          BY <3>5, <4>3 DEF ProcessNewTasks
        <5>2. Select(<<Head(queue_tasks)>>, Inference) = <<>>
          BY <4>3, SelectOne
        <5>3. Waiting(Inference) = Waiting(Inference)'
          BY <2>4, <3>5, <5>2
        <5> QED BY <2>3, <4>1, <5>1, <5>3
      <4> QED BY <4>2, <4>3
    <3> QED BY <2>2, <3>2, <3>3, <3>4, <3>5, WaitingStep
  <2> QED BY <2>1, <2>5 DEF TasksInOrder, Waiting
<1> QED BY <1>1, <1>2, HandshakeInvariant, PTL DEF Spec

-----------------------------------------------------------------------------
(* While slots decode, the task that makes update_slots come around again   *)
(* is somewhere in the queues: the main thread cannot fall asleep on them.  *)
InUpdate == {"yield", "work", "yield_wait", "yielded", "idle"}
Coming   == active # {} /\ main \in InUpdate => Waiting({NextResponse}) # <<>>

(* A thread that waits for tasks, or sleeps, has no slot to decode.         *)
Quiet == main \in {"waiting", "asleep"} \/ sleeping => active = {}

(* How a step changes the slots in use and where it takes the main thread.  *)
LEMMA ActiveStep ==
    ASSUME AtRest, Handshake, SetAside, QueueTyped, [Next]_vars
    PROVE  /\ active' \subseteq active \/ (Handle /\ main' = "process" /\ ~sleeping')
           /\ main' \in InUpdate =>
                 \/ main \in InUpdate
                 \/ main = "waiting" /\ UNCHANGED active
                 \/ UpdateSlots /\ UNCHANGED active
           /\ \/ UNCHANGED <<main, sleeping>>
              \/ main' \notin {"waiting", "asleep"} /\ (sleeping' => sleeping)
              \/ main = "idle" /\ Waiting({NextResponse}) = <<>>
              \/ main \in {"waiting", "asleep"} /\ (sleeping' => sleeping)
<1> USE DEF flags, queues, handsh, waiting, mains, workers, clients, InUpdate
<1>1. CASE UNCHANGED vars \/ Terminated \/ Terminate
  BY <1>1 DEF vars, Terminated, Terminate
<1>2. ASSUME NEW r \in Request, Arrive(r) \/ HttpStep(r) PROVE UNCHANGED <<main, sleeping, active>>
  BY <1>2 DEF Arrive, HttpStep, WaitUntilNoSleep, CheckSleep, NoSleepWoken, PostTask, PostMetrics, GiveUp
<1>3. CASE WorkerStep
  BY <1>3 DEF WorkerStep, WorkerLoop, WorkerTake, WorkerHandle, WorkerThrows, WorkerCheck, WorkerWoken,
              WorkerDone, WorkerSignal
<1>4. CASE StartLoop \/ ProcessNewTasks \/ YieldBegin \/ YieldOver \/ YieldWoken
  BY <1>4 DEF StartLoop, ProcessNewTasks, YieldBegin, YieldOver, YieldWoken
<1>5. CASE Handle
  BY <1>5 DEF Handle, AtRest
<1>6. CASE UpdateSlots
  BY <1>6 DEF UpdateSlots
<1>7. CASE Yielded
  BY <1>7 DEF Yielded
<1>8. CASE WaitWoken \/ WaitTimeout \/ SleepWoken \/ WorkerStop \/ Join
  BY <1>8 DEF WaitWoken, WaitTimeout, SleepWoken, WorkerStop, Join
<1>9. CASE Idle
  <2>1. CASE main' = "process" /\ UNCHANGED <<sleeping, active>>
    BY <1>9, <2>1
  <2>2. CASE main = "idle" /\ queue_tasks = <<>> /\ main' \in {"waiting", "asleep"} /\ UNCHANGED active
    <3>1. queue_tasks_unhandled = <<>> /\ declined = <<>>
      BY <2>2 DEF SetAside, QueueTyped, Handshake, MainYields, WorkerBusy
    <3>2. queue_tasks_unhandled \o declined \o queue_tasks = <<>>
      BY <2>2, <3>1
    <3>3. Waiting({NextResponse}) = <<>>
      BY <3>2, SelectEmpty DEF Waiting
    <3> QED BY <2>2, <3>3
  <2> QED BY <1>9, <2>1, <2>2 DEF Idle
<1> QED BY <1>1, <1>2, <1>3, <1>4, <1>5, <1>6, <1>7, <1>8, <1>9 DEF Next, MainStep

(* The server does not sleep while slots decode.                            *)
LEMMA QuietStep ==
    ASSUME AtRest, Handshake, SetAside, QueueTyped, Coming, Quiet, [Next]_vars
    PROVE  Coming' /\ Quiet'
<1>1. {NextResponse} \cap (Metrics \cup {Cancel}) = {}
  BY QueueAssumption DEF Request
<1>2. Coming'
  <2> SUFFICES ASSUME active' # {}, main' \in InUpdate PROVE Waiting({NextResponse})' # <<>>
    BY DEF Coming
  <2>1. main' # "process" /\ main' # "handle"
    BY DEF InUpdate
  <2>2. active' \subseteq active /\ active # {}
    BY <2>1, ActiveStep
  <2>3. \/ Waiting({NextResponse})' = Waiting({NextResponse})
        \/ \E r \in Inference :
              PostTask(r) /\ Waiting({NextResponse})' = Waiting({NextResponse}) \o Select(<<r>>, {NextResponse})
        \/ UpdateSlots
    <3> HIDE DEF Waiting
    <3> QED BY <1>1, <2>1, WaitingStep
  <2>4. \A r \in Inference : Select(<<r>>, {NextResponse}) = <<>>
    BY SelectOne, QueueAssumption DEF Request
  <2>5. Select(<<NextResponse>>, {NextResponse}) = <<NextResponse>>
    BY SelectOne
  <2>6. Waiting({NextResponse}) \in Seq(TaskEntry)
    <3>1. \A a, b, c \in Seq(TaskEntry) : a \o b \o c \in Seq(TaskEntry)
      OBVIOUS
    <3>2. queue_tasks_unhandled \o declined \o queue_tasks \in Seq(TaskEntry)
      BY <3>1, DeclinedType DEF QueueTyped
    <3> QED BY <3>2, SelectElements DEF Waiting
  <2>7. PICK w \in Seq(TaskEntry) : w = Waiting({NextResponse})
    BY <2>6
  <2>8. w \o <<>> = w /\ w \o <<NextResponse>> # <<>>
    OBVIOUS
  <2>9. CASE UpdateSlots
    <3>1. Waiting({NextResponse})' = Waiting({NextResponse}) \o Select(<<NextResponse>>, {NextResponse})
      <4> HIDE DEF Waiting
      <4> QED BY <1>1, <2>2, <2>9, WaitingStep
    <3> HIDE DEF Waiting
    <3> QED BY <2>5, <2>7, <2>8, <3>1
  <2>10. CASE main \in InUpdate
    <3>1. w # <<>>
      BY <2>2, <2>7, <2>10 DEF Coming
    <3> HIDE DEF Waiting
    <3> QED BY <2>3, <2>4, <2>7, <2>8, <2>9, <3>1
  <2>11. CASE main = "waiting" /\ UNCHANGED active
    BY <2>2, <2>11 DEF Quiet
  <2> QED BY <2>9, <2>10, <2>11, ActiveStep
<1>3. Quiet'
  <2>1. CASE active' \subseteq active /\ (main' \in {"waiting", "asleep"} \/ sleeping')
    <3>1. CASE active = {}
      BY <2>1, <3>1 DEF Quiet
    <3>2. CASE active # {}
      BY <2>1, <3>2, ActiveStep DEF Quiet, Coming, InUpdate
    <3> QED BY <3>1, <3>2
  <2> QED BY <2>1, ActiveStep DEF Quiet
<1> QED BY <1>2, <1>3

(* What is left aside and the slots in use never meet the sleep: the model  *)
(* is unloaded only when no slot decodes, no declined request waits and the *)
(* worker has nothing in its hands.                                         *)
THEOREM SleepsOnlyIdle == Spec => []SleepsIdle
<1> DEFINE Inv == AtRest /\ Handshake /\ SetAside /\ QueueTyped /\ Coming /\ Quiet
<1>1. Init => QueueTyped /\ SetAside /\ Coming /\ Quiet
  BY QueueTypedInit DEF Init, Coming, Quiet
<1>2. QueueTyped /\ SetAside /\ Coming /\ Quiet /\ AtRest /\ Handshake /\ [Next]_vars
         => QueueTyped' /\ SetAside' /\ Coming' /\ Quiet'
  BY QueueTypedStep, SetAsideStep, QuietStep
<1>3. Quiet /\ SetAside /\ Handshake /\ AtRest => SleepsIdle
  BY DEF Quiet, SetAside, Handshake, MainYields, AtRest, SleepsIdle
<1> QED BY <1>1, <1>2, <1>3, AtRestInvariant, HandshakeInvariant, PTL DEF Spec
=============================================================================
