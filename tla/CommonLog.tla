------------------------------ MODULE CommonLog ------------------------------
(***************************************************************************)
(* The logger (common/log.cpp): threads put messages into a ring of        *)
(* entries, a worker prints them without holding the mutex, and a caller   *)
(* stops and restarts the worker (common_log_pause, common_log_resume;     *)
(* common_log_flush is one after the other).                               *)
(*                                                                         *)
(* A step is one critical section of mtx, or the printing of one entry     *)
(* while the mutex is free.  A notification takes a thread out of a wait   *)
(* set; the thread then evaluates its predicate again.  pause and resume   *)
(* are for one thread at a time (log.h: "not thread-safe"), hence one      *)
(* caller.                                                                 *)
(***************************************************************************)
EXTENDS Naturals, Sequences, FiniteSets

CONSTANTS
    Thread,      \* threads that log
    Size,        \* queue.size(), 512 in the program
    MaxAdd,      \* a bound: messages of each thread
    MaxPause     \* a bound: how often the caller pauses

ASSUME LogAssumption ==
    /\ Size \in Nat /\ Size >= 3
    /\ MaxAdd \in Nat
    /\ MaxPause \in Nat

VARIABLES
    queue,       \* the ring: [msg, is_end] at 0 .. Size - 1
    head, tail,  \* next to be printed, next to be written
    running,     \* messages are accepted
    waitFull,    \* threads that wait on cv_full
    sent,        \* how many calls of add of each thread have returned
    worker,      \* where the worker is
    h, end,      \* flush_queue: the entry at hand, the tail taken under the mutex
    stop,        \* flush_queue has met the entry that ends the worker
    caller,      \* where the thread is that pauses and resumes
    pauses,      \* calls of pause so far
    accepted,    \* messages put into the ring, in their order
    printed,     \* messages printed, in their order
    overfull     \* pause has pushed its entry into a full ring, and no flush under way

ring    == <<queue, head, tail>>
flush   == <<h, end, stop>>
history == <<accepted, printed, overfull>>
vars    == <<ring, running, waitFull, sent, worker, flush, caller, pauses, history>>

Message == Thread \X (1 .. MaxAdd)
NoMessage == <<>>
Index == 0 .. Size - 1

After(i) == (i + 1) % Size

(* A bug: the ring may be filled to the last entry. *)
BugIsFull == FALSE

IsFull  == After(tail) = head
IsEmpty == head = tail

Init ==
    /\ queue = [i \in Index |-> [msg |-> NoMessage, is_end |-> FALSE]]
    /\ head = 0 /\ tail = 0
    /\ running = TRUE
    /\ waitFull = {}
    /\ sent = [t \in Thread |-> 0]
    /\ worker = "lock"
    /\ h = 0 /\ end = 0 /\ stop = FALSE
    /\ caller = "idle"
    /\ pauses = 0
    /\ accepted = <<>> /\ printed = <<>> /\ overfull = FALSE

----------------------------------------------------------------------------
(* cv_new.notify_one: only the worker waits there. *)
Notified == IF worker = "wait" THEN "lock" ELSE worker

(* add blocks while the ring is full. *)
AddWaits(t) ==
    /\ t \notin waitFull /\ sent[t] < MaxAdd
    /\ running /\ IsFull
    /\ waitFull' = waitFull \cup {t}
    /\ UNCHANGED <<ring, running, sent, worker, flush, caller, pauses, history>>

(* add while the worker is paused: the message is discarded. *)
AddDiscards(t) ==
    /\ t \notin waitFull /\ sent[t] < MaxAdd
    /\ ~running
    /\ sent' = [sent EXCEPT ![t] = @ + 1]
    /\ UNCHANGED <<ring, running, waitFull, worker, flush, caller, pauses, history>>

(* A bug: the entry of an earlier pause keeps its mark. *)
BugFilled(m) == [queue EXCEPT ![tail].msg = m]

(* What add writes: the message, and that the entry does not end the worker. *)
Filled(m) == [queue EXCEPT ![tail] = [msg |-> m, is_end |-> FALSE]]

(* A bug: the worker sleeps whatever there is to print. *)
BugAdd(t) ==
    /\ t \notin waitFull /\ sent[t] < MaxAdd
    /\ running /\ ~IsFull
    /\ LET m == <<t, sent[t] + 1>>
       IN  /\ queue' = Filled(m)
           /\ accepted' = Append(accepted, m)
    /\ tail' = After(tail)
    /\ sent' = [sent EXCEPT ![t] = @ + 1]
    /\ UNCHANGED <<head, running, waitFull, worker, flush, caller, pauses, printed, overfull>>

Add(t) ==
    /\ t \notin waitFull /\ sent[t] < MaxAdd
    /\ running /\ ~IsFull
    /\ LET m == <<t, sent[t] + 1>>
       IN  /\ queue' = Filled(m)
           /\ accepted' = Append(accepted, m)
    /\ tail' = After(tail)
    /\ worker' = Notified
    /\ sent' = [sent EXCEPT ![t] = @ + 1]
    /\ UNCHANGED <<head, running, waitFull, flush, caller, pauses, printed, overfull>>

----------------------------------------------------------------------------
(* The worker, with the mutex: nothing to do. *)
WorkerWaits ==
    /\ worker = "lock" /\ IsEmpty
    /\ worker' = "wait"
    /\ UNCHANGED <<ring, running, waitFull, sent, flush, caller, pauses, history>>

(* It takes what there is now and lets go of the mutex. *)
WorkerTakes ==
    /\ worker = "lock" /\ ~IsEmpty
    /\ worker' = "flush"
    /\ h' = head /\ end' = tail /\ stop' = FALSE
    /\ UNCHANGED <<ring, running, waitFull, sent, caller, pauses, history>>

(* One round of flush_queue, without the mutex. *)
PrintEntry ==
    /\ worker = "flush" /\ h # end /\ ~stop
    /\ stop' = queue[h].is_end
    /\ printed' = IF stop' THEN printed ELSE Append(printed, queue[h].msg)
    /\ h' = After(h)
    /\ UNCHANGED <<ring, running, waitFull, sent, worker, end, caller, pauses, accepted, overfull>>

(* A bug: nobody is told that there is room again. *)
BugFlushEnds ==
    /\ worker = "flush" /\ (h = end \/ stop)
    /\ head' = h
    /\ worker' = IF stop THEN "done" ELSE "lock"
    /\ UNCHANGED <<queue, tail, running, waitFull, sent, flush, caller, pauses, history>>

(* The entries printed are free only now. *)
FlushEnds ==
    /\ worker = "flush" /\ (h = end \/ stop)
    /\ head' = h
    /\ waitFull' = {}
    /\ worker' = IF stop THEN "done" ELSE "lock"
    /\ UNCHANGED <<queue, tail, running, sent, flush, caller, pauses, history>>

----------------------------------------------------------------------------
(* A bug: pause does not wake the worker. *)
BugPause ==
    /\ caller = "idle" /\ pauses < MaxPause
    /\ running' = FALSE
    /\ queue' = [queue EXCEPT ![tail].is_end = TRUE]
    /\ tail' = After(tail)
    /\ waitFull' = {}
    /\ caller' = "join"
    /\ pauses' = pauses + 1
    /\ overfull' = (IsFull /\ worker # "flush")
    /\ UNCHANGED <<head, sent, worker, flush, accepted, printed>>

(* pause does not ask whether the ring is full.  During a flush that is     *)
(* harmless: the entries at hand are freed before the worker looks at the   *)
(* ring again.  Otherwise tail meets head, and the ring counts as empty.    *)
Pause ==
    /\ caller = "idle" /\ pauses < MaxPause
    /\ running' = FALSE
    /\ queue' = [queue EXCEPT ![tail].is_end = TRUE]
    /\ tail' = After(tail)
    /\ worker' = Notified
    /\ waitFull' = {}
    /\ caller' = "join"
    /\ pauses' = pauses + 1
    /\ overfull' = (IsFull /\ worker # "flush")
    /\ UNCHANGED <<head, sent, flush, accepted, printed>>

(* A bug: a thread is not joined. *)
BugJoin ==
    /\ caller = "join"
    /\ caller' = "paused"
    /\ UNCHANGED <<ring, running, waitFull, sent, worker, flush, pauses, history>>

(* thrd.join() *)
Join ==
    /\ caller = "join" /\ worker = "done"
    /\ caller' = "paused"
    /\ UNCHANGED <<ring, running, waitFull, sent, worker, flush, pauses, history>>

Resume ==
    /\ caller = "paused"
    /\ running' = TRUE
    /\ worker' = "lock"
    /\ caller' = "idle"
    /\ UNCHANGED <<ring, waitFull, sent, flush, pauses, history>>

----------------------------------------------------------------------------
AddStep(t) == AddWaits(t) \/ AddDiscards(t) \/ Add(t)
WorkerStep == WorkerWaits \/ WorkerTakes \/ PrintEntry \/ FlushEnds

Next ==
    \/ \E t \in Thread : AddStep(t)
    \/ WorkerStep
    \/ Pause \/ Join \/ Resume

Spec == Init /\ [][Next]_vars

(* The operating system runs the worker, and a thread that waits for it to *)
(* end goes on when it has.  Nobody need log, pause or resume.             *)
FairSpec == Spec /\ WF_vars(WorkerStep) /\ WF_vars(Join)

----------------------------------------------------------------------------
Entry == [msg : Message \cup {NoMessage}, is_end : BOOLEAN]

TypeOK ==
    /\ queue \in [Index -> Entry]
    /\ head \in Index /\ tail \in Index
    /\ running \in BOOLEAN
    /\ waitFull \in SUBSET Thread
    /\ sent \in [Thread -> 0 .. MaxAdd]
    /\ worker \in {"lock", "wait", "flush", "done"}
    /\ h \in Index /\ end \in Index /\ stop \in BOOLEAN
    /\ caller \in {"idle", "join", "paused"}
    /\ pauses \in 0 .. MaxPause
    /\ accepted \in Seq(Message) /\ printed \in Seq(Message \cup {NoMessage})
    /\ overfull \in BOOLEAN

(* How far it is from i to j around the ring, and what lies there. *)
Dist(i, j) == IF i <= j THEN j - i ELSE j + Size - i
Between(i, j) == {k \in Index : Dist(i, k) < Dist(i, j)}

(* The next entry to be printed. *)
Reading == IF worker = "flush" THEN h ELSE head

(* What it will print in this round and in the next one. *)
Unread == IF worker = "flush" THEN Between(h, end) \cup Between(end, tail) ELSE Between(head, tail)
(* The entry that ends the worker is still to be met. *)
StopPending == caller = "join" /\ worker # "done" /\ ~(worker = "flush" /\ stop)
(* How many entries are still to be read, the one that ends the worker       *)
(* included, and how many of them are messages.                            *)
Ahead == IF worker = "flush" THEN Dist(h, end) + Dist(end, tail) ELSE Dist(head, tail)
Pending == Ahead - (IF StopPending THEN 1 ELSE 0)

(* While the worker reads entries without the mutex, the entry that add or  *)
(* pause would write next is not among those it still has to read.         *)
NoDataRace == worker = "flush" /\ running => tail \notin Between(h, end)

(* Every message that was accepted is either printed or still in the ring, *)
(* once, and in the order in which it was accepted: the end of the ring,   *)
(* blocking, pausing and restarting lose and reorder nothing, unless pause  *)
(* has pushed its entry into a full ring and no flush was under way: that   *)
(* loses what is in the ring.                                              *)
InOrder ==
    ~overfull =>
        /\ Len(accepted) = Len(printed) + Pending
        /\ \A k \in 1 .. Len(printed) : accepted[k] = printed[k]
        /\ \A k \in 1 .. Pending : accepted[Len(printed) + k] = queue[(Reading + k - 1) % Size].msg

(* When pause has returned, all that was accepted is printed: what         *)
(* common_log_flush is for.                                                *)
Flushed == caller = "paused" => printed = accepted

(* As long as pause waits for the worker to end, the worker still has the  *)
(* entry before it that makes it end, or has met it already: exactly       *)
(* unless pause has found the ring full and no flush under way.            *)
StopSeen ==
    caller = "join" =>
        (~overfull <=>
            \/ worker = "done"
            \/ worker = "flush" /\ stop
            \/ \E i \in Unread : queue[i].is_end)

(* pause returns: the worker gets to the entry that ends it, whatever it   *)
(* was doing, also when pause finds the ring full during a flush.  In a     *)
(* ring that is full while no flush is under way it does not return, see    *)
(* PauseAlwaysReturns.                                                     *)
PauseReturns == caller = "join" /\ ~overfull ~> caller = "paused"

(* "push an entry to signal the worker thread to stop" (log.cpp:300): the   *)
(* entry that pause pushes stops the worker, and pause returns, whatever   *)
(* is in the ring.  The code does not keep this: see Pause.                *)
PauseAlwaysReturns == caller = "join" ~> caller = "paused"

(* A thread that waits because the ring is full is woken up. *)
AddWoken == \A t \in Thread : t \in waitFull ~> t \notin waitFull

(* A message that was accepted is printed, also when no other follows it   *)
(* and nobody pauses: the worker is never left asleep next to a message,   *)
(* unless pause has made a full ring look empty.                           *)
AllPrinted ==
    \A n \in 1 .. MaxAdd * Cardinality(Thread) :
        Len(accepted) >= n ~> Len(printed) >= n \/ overfull

=============================================================================
