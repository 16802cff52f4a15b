----------------------------- MODULE ServerSlots -----------------------------
(***************************************************************************)
(* Requests of the HTTP server: from the reader that posts a request's     *)
(* tasks (server_response_reader), through the task queue with its         *)
(* deferred tasks (server_queue) and the slots that run them               *)
(* (server_context), to the results the reader takes (server_response).    *)
(*                                                                         *)
(* Threads: every reader runs on an HTTP thread; the main thread takes     *)
(* tasks from the queue and decodes; while it decodes, a worker thread     *)
(* takes them.  Each locked section of the queues is a step, so that a     *)
(* task that a thread has taken but not yet placed is in none of them.     *)
(* Slots belong to the main thread.                                        *)
(*                                                                         *)
(* Tasks are numbers.  A child (n_cmpl > 1) travels with its parent and    *)
(* waits in a slot until the parent has processed the common prompt.       *)
(***************************************************************************)
EXTENDS FiniteSets, QueueOps

CONSTANTS
    NSlots,  \* params_base.n_parallel
    Settings \* what comes to the server and what may happen to it: records with
             \*   kind    kind[t]: "completion", "slot_action" or "metrics"
             \*   pin     pin[t]: the requested slot, or -1
             \*   parent  parent[t]: the parent task, or 0
             \*   gen     n_predict: tokens a slot generates at most
             \*   fail    what may go wrong, a subset of Failure
             \*   leave   whether clients may disconnect
             \*   cache   whether there is a prompt cache (--cache-ram)

(* A launch fails; a slot action fails; a prompt is refused; a prompt is    *)
(* empty; the KV cache is full, and prompts of idle slots are cleared; it   *)
(* is, and the batch is decoded in several views; llama_decode fails;       *)
(* sampling throws; an exception outside any slot ends pre_decode, decode   *)
(* or post_decode.                                                          *)
Failure == {"launch", "action", "prompt", "empty", "full", "split", "decode", "sample", "abort"}

Slot == 0 .. NSlots - 1
AllTasks == UNION {DOMAIN g.kind : g \in Settings}

ASSUME ServerAssumption ==
    /\ NSlots \in Nat \ {0}
    /\ \A g \in Settings :
          LET tasks == DOMAIN g.kind
              roots == {t \in tasks : g.parent[t] = 0} IN
          /\ g.kind \in Seq({"completion", "slot_action", "metrics"})
          /\ g.pin \in [tasks -> Slot \cup {-1}] /\ g.parent \in [tasks -> roots \cup {0}]
          /\ \A t \in tasks :
                /\ Cardinality({c \in tasks : g.parent[c] = t}) < NSlots
                /\ g.parent[t] # 0 =>
                      g.kind[t] = "completion" /\ g.kind[g.parent[t]] = "completion" /\ g.pin[t] = -1
                /\ g.kind[t] = "slot_action" => g.pin[t] \in Slot
          /\ g.gen \in Nat \ {0} /\ g.fail \subseteq Failure /\ {g.leave, g.cache} \subseteq BOOLEAN

VARIABLES
    setting,
    queue_tasks,            \* entries, the head first
    queue_tasks_deferred,
    queue_tasks_unhandled,
    taken,                  \* the entry the main thread has taken, a sequence
    taken_yield,            \* the same of the worker
    phase,                  \* where the main thread is
    slots,                  \* [state, task, n_gen] of every slot, and whether its
                            \*   sequence has all tokens of the prompt (whole)
    batch,                  \* slots whose last token in the batch is not yet decoded
    view,                   \* slots to sample of the view that has been decoded
    prompt,                 \* prompt[s]: the task whose tokens slot s holds, or 0
    states,                 \* tasks whose prompts are in the prompt cache
    waiting_task_ids,
    queue_results,          \* [id, error] of final results
    reader,                 \* reader[r]: what the reader of request r does
    received                \* received[r]: ids with a final result

queues  == <<queue_tasks, queue_tasks_deferred, queue_tasks_unhandled>>
prompts == <<prompt, states>>
results == <<waiting_task_ids, queue_results>>
clients == <<reader, received>>
main    == <<phase, slots, batch, view>>
vars == <<setting, queues, taken, taken_yield, main, prompts, results, clients>>

Kind   == setting.kind
Pin    == setting.pin
Parent == setting.parent
MaxGen == setting.gen

Task == DOMAIN Kind
Root == {t \in Task : Parent[t] = 0}
Children(t) == {c \in Task : Parent[c] = t}
Ids(t) == {t} \cup Children(t)
May(failure) == failure \in setting.fail

Entry(type, id) == [type |-> type, id |-> id]
NextResponse == Entry("next", 0)

Idle == [state |-> "IDLE", task |-> 0, n_gen |-> 0, whole |-> TRUE]
Processing(s) == slots[s].state # "IDLE"
SlotsInOrder(S) == Select([i \in 1 .. NSlots |-> i - 1], S)
TasksInOrder(S) == Select([t \in Task |-> t], S)

-----------------------------------------------------------------------------
(* server_queue *)

(* What cleanup_pending_task takes out of the queues. *)
TaskEntries(ids) == {Entry("task", t) : t \in ids}

(* The id_slot field of the queued task.  The slot a slot action is for is  *)
(* kept elsewhere, in slot_action.                                          *)
IdSlot(e) == IF Kind[e.id] = "completion" THEN Pin[e.id] ELSE -1

(* pop_deferred_task: the first deferred task that asks for slot s, else    *)
(* the first, moves to the front of the queue.                              *)
PopDeferred(q, s) ==
    LET match == {i \in DOMAIN q.deferred : IdSlot(q.deferred[i]) = s}
        i     == IF match = {} THEN 1 ELSE Min(match)
    IN  IF q.deferred = <<>> THEN q
        ELSE [queue    |-> <<q.deferred[i]>> \o q.queue,
              deferred |-> RemoveAt(q.deferred, i)]

(* The same for each of the slots S, one after another. *)
PopDeferredFor(S, q) ==
    LET after[n \in 0 .. NSlots] ==
            IF n = 0 THEN q
            ELSE IF n - 1 \in S THEN PopDeferred(after[n - 1], n - 1) ELSE after[n - 1]
    IN  after[NSlots]

(* server_slot::release of the slots S. *)
Release(S) ==
    LET q == PopDeferredFor(S, [queue |-> queue_tasks, deferred |-> queue_tasks_deferred])
    IN  /\ queue_tasks' = q.queue
        /\ queue_tasks_deferred' = q.deferred

Defer(e) ==
    /\ queue_tasks_deferred' = Append(queue_tasks_deferred, e)
    /\ UNCHANGED queue_tasks

Result(t, error) == [id |-> t, error |-> error]
ResultsFor(ids) == {Result(t, error) : t \in ids, error \in BOOLEAN}

(* server_response::send: dropped unless somebody waits for it. *)
Send(res) ==
    /\ queue_results' = queue_results \o Select(res, ResultsFor(waiting_task_ids))
    /\ UNCHANGED waiting_task_ids

ResultsOf(S, error) ==
    LET seq == SlotsInOrder(S) IN [i \in DOMAIN seq |-> Result(slots[seq[i]].task, error)]

-----------------------------------------------------------------------------
(* Readers, on HTTP threads. *)

(* post_task, post_tasks: the ids are made known before the task is posted. *)
PostTasks(r) ==
    /\ reader[r] = "new"
    /\ waiting_task_ids' = waiting_task_ids \cup Ids(r)
    /\ queue_tasks' = Append(queue_tasks, Entry("task", r))
    /\ reader' = [reader EXCEPT ![r] = "waiting"]
    /\ UNCHANGED <<queue_tasks_deferred, queue_tasks_unhandled, taken, taken_yield,
                   main, prompts, queue_results, received>>

HasNext(r) == received[r] # Ids(r)

(* next: recv_with_timeout takes the first result for one of the ids; an    *)
(* error stops the reader.                                                  *)
Receive(r) ==
    /\ reader[r] = "waiting"
    /\ \E i \in DOMAIN queue_results :
          /\ queue_results[i].id \in Ids(r)
          /\ \A j \in 1 .. i - 1 : queue_results[j].id \notin Ids(r)
          /\ queue_results' = RemoveAt(queue_results, i)
          /\ IF queue_results[i].error
             THEN reader' = [reader EXCEPT ![r] = "stop"] /\ UNCHANGED received
             ELSE /\ received' = [received EXCEPT ![r] = @ \cup {queue_results[i].id}]
                  /\ reader' = IF received'[r] = Ids(r) THEN [reader EXCEPT ![r] = "stop"] ELSE reader
    /\ UNCHANGED <<queues, taken, taken_yield, main, prompts, waiting_task_ids>>

(* should_stop is true after a timeout: the client has gone. *)
Leave(r) ==
    /\ setting.leave
    /\ reader[r] = "waiting"
    /\ reader' = [reader EXCEPT ![r] = "stop"]
    /\ UNCHANGED <<queues, taken, taken_yield, main, prompts, results, received>>

(* stop, or the destructor: nobody waits for the ids any more. *)
Stop(r) ==
    /\ reader[r] = "stop"
    /\ waiting_task_ids' = waiting_task_ids \ Ids(r)
    /\ reader' = [reader EXCEPT ![r] = IF HasNext(r) THEN "cleanup" ELSE "done"]
    /\ UNCHANGED <<queues, taken, taken_yield, main, prompts, queue_results, received>>

(* A bug: results that are already there stay. *)
CleanupNone(r) ==
    /\ reader[r] = "cleanup"
    /\ reader' = [reader EXCEPT ![r] = "cancel"]
    /\ UNCHANGED <<queues, taken, taken_yield, main, prompts, results, received>>

(* The single-id removal drops the results, too. *)
Cleanup(r) ==
    /\ reader[r] = "cleanup"
    /\ queue_results' = Without(queue_results, ResultsFor(Ids(r)))
    /\ reader' = [reader EXCEPT ![r] = "cancel"]
    /\ UNCHANGED <<queues, taken, taken_yield, main, prompts, waiting_task_ids, received>>

(* post of the CANCEL tasks, at the front. *)
Cancel(r) ==
    /\ reader[r] = "cancel"
    /\ LET ids == TasksInOrder(Ids(r)) IN
       queue_tasks' = [i \in DOMAIN ids |-> Entry("cancel", ids[i])]
                         \o Without(queue_tasks, TaskEntries(Ids(r)))
    /\ queue_tasks_deferred' = Without(queue_tasks_deferred, TaskEntries(Ids(r)))
    /\ queue_tasks_unhandled' = Without(queue_tasks_unhandled, TaskEntries(Ids(r)))
    /\ reader' = [reader EXCEPT ![r] = "done"]
    /\ UNCHANGED <<taken, taken_yield, main, prompts, results, received>>

-----------------------------------------------------------------------------
(* The main thread: start_loop, process_new_tasks, process_single_task. *)

(* Takes the next task; when there is none the slots are updated. *)
TakeTask ==
    /\ phase = "tasks"
    /\ taken = <<>>
    /\ queue_tasks # <<>>
    /\ taken' = <<Head(queue_tasks)>>
    /\ queue_tasks' = Tail(queue_tasks)
    /\ UNCHANGED <<queue_tasks_deferred, queue_tasks_unhandled, taken_yield, main,
                   prompts, results, clients>>

(* The task that a completion, its children or a slot action is about. *)
Taken(kind) ==
    /\ phase = "tasks"
    /\ taken # <<>>
    /\ taken[1].type = "task"
    /\ Kind[taken[1].id] = kind
    /\ taken' = <<>>
    /\ UNCHANGED <<queue_tasks_unhandled, taken_yield, phase, batch, view, clients>>

FreeSlots == {s \in Slot : ~Processing(s)}

(* get_available_slot, the slot: the one asked for, free or not, else the   *)
(* free one with the most similar prompt or the least recently used; 0 or   *)
(* one slot.                                                                *)
AvailableSlot(t) ==
    IF Pin[t] # -1 THEN {Pin[t]} ELSE FreeSlots

(* get_available_slot, the prompt cache: what the prompts and the cache may *)
(* be after slot s was chosen.  When the task would keep less than half of  *)
(* the slot's prompt, the prompt is saved (which may evict others, or not   *)
(* fit), and a cached one that suits the task better is loaded, or fails to *)
(* load and leaves nothing.  A slot that is processing, chosen because it   *)
(* was asked for, was skipped when similarities were computed: it counts as *)
(* one that keeps nothing.                                                  *)
CacheUpdates(s) ==
    LET now == [prompt |-> prompt, states |-> states]
        after(saved) ==
            {[now EXCEPT !.states = saved]}
            \cup {[prompt |-> [prompt EXCEPT ![s] = p], states |-> saved \ {p}] :
                     p \in saved \ {prompt[s]}}
            \cup {[prompt |-> [prompt EXCEPT ![s] = 0], states |-> saved] :
                     p \in saved \ {prompt[s]}}
    IN  {now} \cup IF setting.cache
                   THEN UNION {after(saved) : saved \in SUBSET ((states \cup {prompt[s]}) \ {0})}
                   ELSE {}

(* cache_idle_slots: after a launch the prompts of idle slots are saved and *)
(* cleared, or stay if the KV cache is not unified.                         *)
IdleSaves(u, idle) ==
    {u} \cup IF setting.cache
             THEN {[prompt |-> [s \in Slot |-> IF s \in off THEN 0 ELSE u.prompt[s]], states |-> S] :
                     off \in {{}, idle},
                     S \in SUBSET ((u.states \cup {u.prompt[s] : s \in idle}) \ {0})}
             ELSE {}

Cached(u) == prompt' = u.prompt /\ states' = u.states

(* No slot, or the one asked for is busy, or too few for the children. *)
HandleDefer ==
    /\ Taken("completion")
    /\ LET t == taken[1].id IN
       \/ AvailableSlot(t) = {} /\ UNCHANGED prompts
       \/ \E s \in AvailableSlot(t) :
             /\ \/ Processing(s)
                \/ Cardinality(FreeSlots \ {s}) < Cardinality(Children(t))
             /\ \E u \in CacheUpdates(s) : Cached(u)
    /\ Defer(taken[1])
    /\ UNCHANGED <<slots, results>>

Launched(t) == [Idle EXCEPT !.state = IF Parent[t] # 0 THEN "WAIT_OTHER" ELSE "STARTED", !.task = t]

(* launch_slots_with_parent_task, launch_slot_with_task: the children get   *)
(* the first free slots.                                                    *)
HandleLaunch ==
    /\ Taken("completion")
    /\ LET t == taken[1].id IN
       \E s \in AvailableSlot(t) :
          LET kids == TasksInOrder(Children(t))
              free == SlotsInOrder(FreeSlots \ {s})
              at(x) == {i \in DOMAIN kids : free[i] = x} IN
          /\ ~Processing(s)
          /\ Len(kids) <= Len(free)
          /\ slots' = [x \in Slot |->
                          IF x = s THEN Launched(t)
                          ELSE IF at(x) # {} THEN Launched(kids[CHOOSE i \in at(x) : TRUE])
                          ELSE slots[x]]
          /\ \E u \in CacheUpdates(s) :
             \E v \in IdleSaves(u, {x \in Slot : slots'[x].state = "IDLE"}) : Cached(v)
    /\ UNCHANGED <<queue_tasks, queue_tasks_deferred, results>>

(* A launch fails, of the task or of its n-th child: an error is sent, the  *)
(* children launched before are released again, their contexts cleared, and *)
(* the task is dropped.                                                     *)
HandleLaunchFails ==
    /\ May("launch")
    /\ Taken("completion")
    /\ LET t == taken[1].id IN
       \E s \in AvailableSlot(t) :
          LET kids == TasksInOrder(Children(t))
              free == SlotsInOrder(FreeSlots \ {s}) IN
          /\ ~Processing(s)
          /\ Len(kids) <= Len(free)
          /\ \E u \in CacheUpdates(s) : \E n \in 0 .. Len(kids) :
                LET off == {free[i] : i \in 1 .. n} IN
                /\ Send(<<Result(IF n = Len(kids) THEN t ELSE kids[n + 1], TRUE)>>)
                /\ Release(off)
                /\ Cached([u EXCEPT !.prompt = [x \in Slot |-> IF x \in off THEN 0 ELSE @[x]]])
    /\ UNCHANGED slots

(* A bug: a slot action does not wait for the slot. *)
HandleSlotActionNow ==
    /\ Taken("slot_action")
    /\ LET t == taken[1].id IN
       /\ \/ UNCHANGED prompt
          \/ prompt' = [prompt EXCEPT ![Pin[t]] = 0]
       /\ Send(<<Result(t, FALSE)>>)
    /\ UNCHANGED <<queue_tasks, queue_tasks_deferred, slots, states>>

(* SLOT_SAVE, SLOT_RESTORE, SLOT_ERASE: deferred while the slot is busy.    *)
(* Saving leaves the prompt, the others replace or clear it, also when they *)
(* fail.                                                                    *)
HandleSlotAction ==
    /\ Taken("slot_action")
    /\ LET t == taken[1].id IN
       IF Processing(Pin[t])
       THEN Defer(taken[1]) /\ UNCHANGED <<prompts, results>>
       ELSE /\ \/ UNCHANGED prompt
               \/ prompt' = [prompt EXCEPT ![Pin[t]] = 0]
            /\ \/ Send(<<Result(t, FALSE)>>)
               \/ May("action") /\ Send(<<Result(t, TRUE)>>)
            /\ UNCHANGED <<queue_tasks, queue_tasks_deferred, states>>
    /\ UNCHANGED slots

(* METRICS, SLOT_GET *)
HandleMetrics ==
    /\ Taken("metrics")
    /\ Send(<<Result(taken[1].id, FALSE)>>)
    /\ UNCHANGED <<queue_tasks, queue_tasks_deferred, slots, prompts>>

(* A child's context is cleared when it is released. *)
PromptsAfterRelease(S) ==
    [s \in Slot |-> IF s \in S /\ Parent[slots[s].task] # 0 THEN 0 ELSE prompt[s]]

(* CANCEL: releases the slot that runs the task. *)
HandleCancel ==
    LET run == {s \in Slot : slots[s].task = taken[1].id} IN
    /\ phase = "tasks"
    /\ taken # <<>>
    /\ taken[1].type = "cancel"
    /\ taken' = <<>>
    /\ Release(run)
    /\ prompt' = PromptsAfterRelease(run)
    /\ slots' = [s \in Slot |-> IF s \in run THEN Idle ELSE slots[s]]
    /\ UNCHANGED <<queue_tasks_unhandled, taken_yield, phase, batch, view, states, results, clients>>

HandleNextResponse ==
    /\ phase = "tasks"
    /\ taken = <<NextResponse>>
    /\ taken' = <<>>
    /\ UNCHANGED <<queues, taken_yield, main, prompts, results, clients>>

-----------------------------------------------------------------------------
(* The main thread: update_slots. *)

(* No task is left.  Unless all slots are idle, NEXT_RESPONSE makes sure    *)
(* that the loop comes around again.                                        *)
UpdateSlots ==
    /\ phase = "tasks"
    /\ taken = <<>>
    /\ queue_tasks = <<>>
    /\ IF FreeSlots = Slot THEN phase' = "wait" /\ UNCHANGED queue_tasks
       ELSE phase' = "pre_decode" /\ queue_tasks' = <<NextResponse>>
    /\ UNCHANGED <<queue_tasks_deferred, queue_tasks_unhandled, taken, taken_yield,
                   slots, batch, view, prompts, results, clients>>

Advance(s, state) == [slots[s] EXCEPT !.state = state]

(* pre_decode: generating slots, those that are compatible, get their last  *)
(* token into the batch; then prompts are added, all of it, a part or none, *)
(* as far as they fit (bound: in two batches).  A prompt can be refused,    *)
(* generation can run into the end of the context: an error releases the    *)
(* slot.  An empty prompt is answered at once.                              *)
PreDecode ==
    LET state(S) == {s \in Slot : slots[s].state \in S}
        pending == state({"STARTED", "PROCESSING_PROMPT"})
        generating == state({"GENERATING"})
    IN
    /\ phase = "pre_decode"
    /\ \E what \in [Slot -> {"none", "next", "fit", "part", "empty", "fail"}] :
          LET to(w) == {s \in Slot : what[s] = w}
              off   == to("empty") \cup to("fail")
              added == to("next") \cup to("fit") \cup to("part")
          IN
          /\ to("next") \subseteq generating
          /\ to("fit") \subseteq pending
          /\ to("part") \cup to("empty") \subseteq state({"STARTED"})
          /\ to("fail") \subseteq pending \cup generating
          /\ to("empty") # {} => May("empty")
          /\ to("fail") # {} => May("prompt")
          /\ added = {} => pending \cup generating = off
          /\ slots' = [s \in Slot |-> CASE s \in off -> Idle
                                       [] s \in to("part") -> Advance(s, "PROCESSING_PROMPT")
                                       [] s \in to("fit") -> Advance(s, "DONE_PROMPT")
                                       [] OTHER -> slots[s]]
          /\ prompt' = [s \in Slot |-> IF s \in to("part") \cup to("fit") THEN slots[s].task
                                       ELSE PromptsAfterRelease(off)[s]]
          /\ Send(ResultsOf(to("fail"), TRUE) \o ResultsOf(to("empty"), FALSE))
          /\ Release(off)
          /\ batch' = added
          /\ phase' = IF added = {} THEN "wait" ELSE "decode"
    /\ UNCHANGED <<queue_tasks_unhandled, taken, taken_yield, view, states, clients>>

(* yield_to_queue: while the main thread decodes, the worker takes tasks.   *)
YieldTake ==
    /\ phase = "decode"
    /\ taken_yield = <<>>
    /\ queue_tasks # <<>>
    /\ taken_yield' = <<Head(queue_tasks)>>
    /\ queue_tasks' = Tail(queue_tasks)
    /\ UNCHANGED <<queue_tasks_deferred, queue_tasks_unhandled, taken, main,
                   prompts, results, clients>>

IsMetrics(e) == e.type = "task" /\ Kind[e.id] = "metrics"

(* A bug: what cannot be answered now is dropped. *)
YieldHandleDrop ==
    /\ taken_yield # <<>>
    /\ taken_yield' = <<>>
    /\ IF IsMetrics(taken_yield[1]) THEN Send(<<Result(taken_yield[1].id, FALSE)>>) ELSE UNCHANGED results
    /\ UNCHANGED <<queues, taken, main, prompts, clients>>

(* Answers the ones that only read, sets the others aside. *)
YieldHandle ==
    /\ taken_yield # <<>>
    /\ taken_yield' = <<>>
    /\ IF IsMetrics(taken_yield[1])
       THEN Send(<<Result(taken_yield[1].id, FALSE)>>) /\ UNCHANGED queue_tasks_unhandled
       ELSE /\ queue_tasks_unhandled' = Append(queue_tasks_unhandled, taken_yield[1])
            /\ UNCHANGED results
    /\ UNCHANGED <<queue_tasks, queue_tasks_deferred, taken, main, prompts, clients>>

(* A bug: the declined tasks stay where they were, too. *)
YieldEndKeep ==
    /\ taken_yield = <<>>
    /\ queue_tasks' = queue_tasks_unhandled \o queue_tasks
    /\ UNCHANGED queue_tasks_unhandled

(* The end of the yield: the main thread waits until the worker is done     *)
(* with its task, then the declined tasks go back in front, in order.       *)
YieldEnd ==
    /\ taken_yield = <<>>
    /\ queue_tasks' = queue_tasks_unhandled \o queue_tasks
    /\ queue_tasks_unhandled' = <<>>

(* The tokens of slot s come before those of x: generating slots first. *)
Before(s, x) ==
    LET rank(y) == IF slots[y].state = "GENERATING" THEN y ELSE NSlots + y
    IN  rank(s) < rank(x)

(* The slots whose last token is in the next view of the batch: all of it,  *)
(* unless it was halved for want of room.  A view without the last token of *)
(* any slot is of interest only if it wakes children.                       *)
Views(join) ==
    {d \in SUBSET batch :
        /\ d # batch => May("split") /\ d \cup join # {}
        /\ \A s \in d, x \in batch : Before(x, s) => x \in d}

(* The slots to sample: not those with a part of their prompt only; and the *)
(* children that have taken over i_batch of a parent among them.            *)
ToSample(d, now) ==
    LET last == {s \in d : now[s].state \in {"DONE_PROMPT", "GENERATING"}}
    IN  last \cup {s \in Slot : /\ now[s].state = "DONE_PROMPT"
                                /\ \E p \in last : now[p].task = Parent[now[s].task]}

(* A bug: children are forgotten. *)
DecodeAlone ==
    /\ phase = "decode"
    /\ YieldEnd
    /\ \E d \in Views({}) : batch' = batch \ d /\ view' = ToSample(d, slots)
    /\ phase' = "post_decode"
    /\ UNCHANGED <<queue_tasks_deferred, taken, taken_yield, slots, prompts, results, clients>>

(* decode of a view succeeds, after prompts of idle slots were cleared if   *)
(* there was no room.  Children whose parent has its whole prompt in the    *)
(* batch join it: they get a copy of the parent's sequence as it is now.    *)
Decode ==
    LET done(s) == {p \in Slot : slots[p].state = "DONE_PROMPT" /\ slots[p].task = Parent[slots[s].task]}
        join == {s \in Slot : slots[s].state = "WAIT_OTHER" /\ done(s) # {}}
    IN
    /\ phase = "decode"
    /\ YieldEnd
    /\ \E cleared \in SUBSET {s \in FreeSlots : prompt[s] # 0} :
          /\ cleared # {} => May("full")
          /\ prompt' = [s \in Slot |-> IF s \in join THEN slots[s].task
                                       ELSE IF s \in cleared THEN 0 ELSE prompt[s]]
    /\ \E d \in Views(join) :
          /\ batch' = batch \ d
          /\ slots' = [s \in Slot |->
                          IF s \in join
                          THEN [slots[s] EXCEPT !.state = "DONE_PROMPT", !.whole = done(s) \cap batch' = {}]
                          ELSE slots[s]]
          /\ view' = ToSample(d, slots')
    /\ phase' = "post_decode"
    /\ UNCHANGED <<queue_tasks_deferred, taken, taken_yield, states, results, clients>>

(* A fatal error of llama_decode, or nothing can be decoded: every slot     *)
(* reports it and is released, its context cleared.                         *)
DecodeFails ==
    LET run == {s \in Slot : Processing(s)} IN
    /\ May("decode")
    /\ phase = "decode"
    /\ taken_yield = <<>>
    /\ LET q == PopDeferredFor(run, [queue |-> queue_tasks_unhandled \o queue_tasks,
                                     deferred |-> queue_tasks_deferred])
       IN queue_tasks' = q.queue /\ queue_tasks_deferred' = q.deferred
    /\ queue_tasks_unhandled' = <<>>
    /\ Send(ResultsOf(run, TRUE))
    /\ slots' = [s \in Slot |-> Idle]
    /\ prompt' = [s \in Slot |-> IF s \in run THEN 0 ELSE prompt[s]]
    /\ batch' = {}
    /\ phase' = "wait"
    /\ UNCHANGED <<taken, taken_yield, view, states, clients>>

(* abort_all_slots: an exception that belongs to no slot, after some prompts *)
(* were entered into their slots, or after decoding.                        *)
AbortAll ==
    LET run == {s \in Slot : Processing(s)} IN
    /\ May("abort")
    /\ phase \in {"pre_decode", "post_decode"}
    /\ \E part \in SUBSET {s \in run : phase = "pre_decode" /\ slots[s].state = "STARTED"} :
          prompt' = [s \in Slot |-> IF s \in part THEN slots[s].task ELSE PromptsAfterRelease(run)[s]]
    /\ Send(ResultsOf(run, TRUE))
    /\ Release(run)
    /\ slots' = [s \in Slot |-> Idle]
    /\ batch' = {} /\ view' = {}
    /\ phase' = "wait"
    /\ UNCHANGED <<queue_tasks_unhandled, taken, taken_yield, states, clients>>

(* post_decode: every slot in the view samples a token; it stops or goes    *)
(* on, and stops at n_predict; an exception is answered with an error.  The *)
(* rest of the batch comes next.                                            *)
PostDecode ==
    /\ phase = "post_decode"
    /\ \E end \in SUBSET view : \E fail \in SUBSET (view \ end) :
          /\ fail # {} => May("sample")
          /\ \A s \in view \ (end \cup fail) : slots[s].n_gen + 1 < MaxGen
          /\ slots' = [s \in Slot |->
                          IF s \in end \cup fail THEN Idle
                          ELSE IF s \in view
                               THEN [slots[s] EXCEPT !.state = "GENERATING", !.n_gen = @ + 1]
                               ELSE slots[s]]
          /\ prompt' = PromptsAfterRelease(end \cup fail)
          /\ Send(ResultsOf(end, FALSE) \o ResultsOf(fail, TRUE))
          /\ Release(end \cup fail)
    /\ view' = {}
    /\ phase' = IF batch = {} THEN "wait" ELSE "decode"
    /\ UNCHANGED <<queue_tasks_unhandled, taken, taken_yield, batch, states, clients>>

(* start_loop waits for a task. *)
Wake ==
    /\ phase = "wait"
    /\ queue_tasks # <<>>
    /\ phase' = "tasks"
    /\ UNCHANGED <<queues, taken, taken_yield, slots, batch, view, prompts, results, clients>>

-----------------------------------------------------------------------------
Init ==
    /\ setting \in Settings
    /\ queue_tasks = <<>> /\ queue_tasks_deferred = <<>> /\ queue_tasks_unhandled = <<>>
    /\ taken = <<>> /\ taken_yield = <<>>
    /\ phase = "tasks"
    /\ slots = [s \in Slot |-> Idle]
    /\ batch = {} /\ view = {}
    /\ prompt = [s \in Slot |-> 0]
    /\ states = {}
    /\ waiting_task_ids = {}
    /\ queue_results = <<>>
    /\ reader = [r \in Root |-> "new"]
    /\ received = [r \in Root |-> {}]

ReaderStep(r) == UNCHANGED setting /\ r \in Root /\ (Receive(r) \/ Stop(r) \/ Cleanup(r) \/ Cancel(r))

MainStep == UNCHANGED setting /\
  ( \/ TakeTask \/ HandleDefer \/ HandleLaunch \/ HandleLaunchFails \/ HandleSlotAction
    \/ HandleMetrics \/ HandleCancel \/ HandleNextResponse
    \/ UpdateSlots \/ PreDecode \/ Decode \/ DecodeFails \/ AbortAll \/ PostDecode \/ Wake )

WorkerStep == UNCHANGED setting /\ (YieldTake \/ YieldHandle)

Terminated ==
    /\ phase = "wait" /\ queue_tasks = <<>>
    /\ \A r \in Root : reader[r] = "done"
    /\ UNCHANGED vars

Next ==
    \/ \E r \in Root : UNCHANGED setting /\ (PostTasks(r) \/ Leave(r))
    \/ \E r \in Root : ReaderStep(r)
    \/ MainStep
    \/ WorkerStep
    \/ Terminated

Spec == Init /\ [][Next]_vars

(* Threads keep running; requests need not come, clients need not leave. *)
FairSpec ==
    /\ Spec /\ WF_vars(MainStep) /\ WF_vars(UNCHANGED setting /\ YieldHandle)
    /\ \A r \in AllTasks : WF_vars(ReaderStep(r))

-----------------------------------------------------------------------------
(* How many copies of what there is of task t are under way: in a queue, in *)
(* a thread's hands, in a slot, or a result, waiting or received.           *)
Entries == queue_tasks \o queue_tasks_deferred \o queue_tasks_unhandled \o taken \o taken_yield
RootOf(t) == IF Parent[t] = 0 THEN t ELSE Parent[t]
Copies(t) ==
    Count(Entries, {Entry("task", RootOf(t))}) + Count(queue_results, ResultsFor({t}))
    + Cardinality({s \in Slot : slots[s].task = t})
    + (IF t \in received[RootOf(t)] THEN 1 ELSE 0)

(* No task is run or answered twice, whichever way it takes through the     *)
(* main thread's and the worker's queues: no reader gets a "duplicate       *)
(* result" (wait_for_all) and no two slots get the same task.               *)
AnsweredOnce == \A t \in Task : Copies(t) <= 1

(* While a reader waits for task t, the task is on its way, or its result   *)
(* is, or an error that ends the whole request.                             *)
NothingLost ==
    \A r \in Root : reader[r] = "waiting" =>
        \/ \A t \in Ids(r) : Copies(t) = 1
        \/ \E i \in DOMAIN queue_results : queue_results[i].id \in Ids(r) /\ queue_results[i].error

(* When a reader has stopped and cleaned up, no result is left that nobody  *)
(* will ever take.                                                          *)
NoOrphanResult ==
    \A i \in DOMAIN queue_results :
        reader[RootOf(queue_results[i].id)] \in {"waiting", "stop", "cleanup"}

(* A slot generates from the prompt of its own task, whatever other tasks   *)
(* did to slots and their prompts meanwhile, and from all of it: a child    *)
(* has not copied a sequence of its parent that lacks tokens.               *)
PromptMatches ==
    \A s \in Slot : slots[s].state \in {"PROCESSING_PROMPT", "DONE_PROMPT", "GENERATING"} =>
        /\ prompt[s] = slots[s].task
        /\ slots[s].state = "GENERATING" => slots[s].whole

(* Every request is answered, or ends with an error, although tasks are     *)
(* deferred, set aside while decoding and put back.                         *)
AllAnswered ==
    \A r \in AllTasks :
        (r \in Root /\ reader[r] = "waiting") ~> (r \in Root => reader[r] = "done")

(* No slot is occupied forever, even when prompts fail: update_slots always *)
(* comes around again, and children are woken or cancelled.                 *)
SlotsFreed == \A s \in Slot : []<>(~Processing(s))
=============================================================================
