----------------------------- MODULE Threadpool -----------------------------
(***************************************************************************)
(* The thread pool of the CPU backend (ggml-cpu/ggml-cpu.c, built without  *)
(* OpenMP): how threads are given a graph, compute its nodes together      *)
(* between barriers made of two counters, share out the chunks of matrix   *)
(* products, and sleep, pause and end.                                     *)
(*                                                                         *)
(* Thread 0 is the one that calls ggml_graph_compute; the others poll the  *)
(* word n_graph, which holds the number of the graph and of the threads    *)
(* that take part in it, for a while and then wait on a condition.  A step *)
(* is one atomic operation, or one section under the mutex.                *)
(*                                                                         *)
(* A node is one of: "empty"; "op", of which every thread computes its     *)
(* part; "rows" and "chunks", matrix products with one chunk per thread,   *)
(* or with many, taken from a shared counter.                              *)
(***************************************************************************)
EXTENDS Integers, Sequences, FiniteSets

CONSTANTS
    NThreads,  \* threadpool->n_threads
    Plans,     \* graphs with their plans: [threads, nodes]
    MayAbort,  \* whether there is an abort_callback that may return true
    MaxGraphs, \* bound of the model: calls of ggml_graph_compute
    MaxPauses  \* bound of the model: calls of ggml_threadpool_pause

Thread == 0 .. NThreads - 1
Kinds  == {"empty", "op", "rows", "chunks"}

ASSUME PoolAssumption ==
    /\ NThreads \in Nat \ {0} /\ MayAbort \in BOOLEAN
    /\ {MaxGraphs, MaxPauses} \subseteq Nat
    /\ Plans # {} /\ \A p \in Plans : p.threads \in Nat \ {0} /\ p.nodes \in Seq(Kinds)

VARIABLES
    cplan,            \* the graph and its plan
    n_graph,          \* [count, threads]
    n_barrier, n_barrier_passed,
    current_chunk,
    stop, pause, abort, ec,
    waiters,          \* threads waiting on cond
    pc,               \* pc[t]: where thread t is
    last_graph,       \* of the thread
    nth,              \* params.nth of the thread
    node,             \* node_n of the thread
    chunk,            \* its chunk
    n_passed, ret,    \* in ggml_barrier: n_passed, and where it was called
    out,              \* out[k]: the parts of node k computed in this graph
    wdata,            \* wdata[t]: the node for which t last converted its part of src1
    graphs, pauses    \* calls so far

shared == <<cplan, abort, ec, out>>
control == <<stop, pause, waiters, graphs, pauses>>
barrier == <<n_barrier, n_barrier_passed>>
local == <<nth, node, chunk, n_passed, ret>>
vars == <<shared, control, barrier, local, n_graph, current_chunk, pc, last_graph, wdata>>

NoGraph == [count |-> 0, threads |-> 0]
N_GRAPHS == 65536   \* n_graph keeps 16 bits for the number of the graph

Goto(t, l) == pc' = [pc EXCEPT ![t] = l]
Woken(t) == t \notin waiters
Broadcast == waiters' = {}

Nodes == cplan.nodes
Kind(k) == Nodes[k + 1]

(* The parts of node k that n threads compute.  With fewer than four chunks *)
(* per thread the product is split by thread.                               *)
Parts(k, n) ==
    CASE Kind(k) = "empty"          -> {}
      [] Kind(k) \in {"op", "rows"} -> 0 .. n - 1
      [] Kind(k) = "chunks"         -> 0 .. 4 * n - 1

-----------------------------------------------------------------------------
(* ggml_barrier: the last thread to come resets the counter and lets the    *)
(* others go.                                                               *)

(* Where the thread goes on. *)
Leave(t) ==
    /\ IF ret[t] = "end" THEN nth' = [nth EXCEPT ![t] = 0] ELSE UNCHANGED nth
    /\ node' = [node EXCEPT ![t] = IF ret[t] = "next" THEN @ + 1 ELSE @]
    /\ Goto(t, CASE ret[t] = "chunk" -> "chunk"
                 [] ret[t] = "next"  -> "node"
                 [] ret[t] = "end"   -> IF t = 0 THEN "finish" ELSE "top")
    /\ ret' = [ret EXCEPT ![t] = "none"]
    /\ n_passed' = [n_passed EXCEPT ![t] = 0]
    /\ chunk' = [chunk EXCEPT ![t] = IF ret[t] = "chunk" THEN t ELSE 0]

Enter(t) ==
    /\ pc[t] = "enter"
    /\ IF n_graph.threads = 1 THEN Leave(t)
       ELSE /\ n_passed' = [n_passed EXCEPT ![t] = n_barrier_passed]
            /\ Goto(t, "arrive")
            /\ UNCHANGED <<nth, node, chunk, ret>>
    /\ UNCHANGED <<shared, control, barrier, n_graph, current_chunk, last_graph, wdata>>

Arrive(t) ==
    /\ pc[t] = "arrive"
    /\ n_barrier' = n_barrier + 1
    /\ Goto(t, IF n_barrier = n_graph.threads - 1 THEN "last" ELSE "spin")
    /\ UNCHANGED <<shared, control, n_barrier_passed, local, n_graph, current_chunk, last_graph, wdata>>

Last(t) ==
    /\ pc[t] = "last"
    /\ n_barrier' = 0
    /\ Goto(t, "pass")
    /\ UNCHANGED <<shared, control, n_barrier_passed, local, n_graph, current_chunk, last_graph, wdata>>

Pass(t) ==
    /\ pc[t] = "pass"
    /\ n_barrier_passed' = n_barrier_passed + 1
    /\ Leave(t)
    /\ UNCHANGED <<shared, control, n_barrier, n_graph, current_chunk, last_graph, wdata>>

Spin(t) ==
    /\ pc[t] = "spin"
    /\ n_barrier_passed # n_passed[t]
    /\ Leave(t)
    /\ UNCHANGED <<shared, control, barrier, n_graph, current_chunk, last_graph, wdata>>

Barrier(t, from) ==
    /\ ret' = [ret EXCEPT ![t] = from]
    /\ Goto(t, "enter")

-----------------------------------------------------------------------------
(* ggml_graph_compute_thread. *)

ReadParams(t) ==
    /\ pc[t] = "start"
    /\ nth' = [nth EXCEPT ![t] = n_graph.threads]
    /\ Goto(t, "node")
    /\ UNCHANGED <<shared, control, barrier, node, chunk, n_passed, ret, n_graph, current_chunk,
                   last_graph, wdata>>

(* A bug: no barrier after the last node. *)
NextNodeNoBarrier(t) ==
    /\ pc[t] = "node"
    /\ IF node[t] >= Len(Nodes) \/ abort = node[t]
       THEN Goto(t, IF t = 0 THEN "finish" ELSE "top") /\ node' = [node EXCEPT ![t] = 0]
       ELSE IF Kind(node[t]) = "empty" THEN node' = [node EXCEPT ![t] = @ + 1] /\ UNCHANGED pc
            ELSE /\ Goto(t, IF Kind(node[t]) = "op" THEN "op" ELSE "convert")
                 /\ UNCHANGED node
    /\ UNCHANGED <<shared, control, barrier, nth, chunk, n_passed, ret, n_graph, current_chunk,
                   last_graph, wdata>>

(* The head of the loop over the nodes. *)
NextNode(t) ==
    /\ pc[t] = "node"
    /\ IF node[t] >= Len(Nodes) \/ abort = node[t] THEN Barrier(t, "end") /\ node' = [node EXCEPT ![t] = 0]
       ELSE IF Kind(node[t]) = "empty"
            THEN node' = [node EXCEPT ![t] = @ + 1] /\ UNCHANGED <<pc, ret>>
            ELSE /\ Goto(t, IF Kind(node[t]) = "op" THEN "op" ELSE "convert")
                 /\ UNCHANGED <<node, ret>>
    /\ UNCHANGED <<shared, control, barrier, nth, chunk, n_passed, n_graph, current_chunk,
                   last_graph, wdata>>

Computed(t, part) == out' = [out EXCEPT ![node[t]] = @ \cup {part}]

ComputeOp(t) ==
    /\ pc[t] = "op"
    /\ Computed(t, t)
    /\ Goto(t, "after")
    /\ UNCHANGED <<cplan, abort, ec, control, barrier, local, n_graph, current_chunk, last_graph, wdata>>

(* A bug: the counter starts at the first chunk. *)
ConvertFromZero(t) ==
    /\ pc[t] = "convert"
    /\ wdata' = [wdata EXCEPT ![t] = node[t]]
    /\ current_chunk' = IF t = 0 THEN 0 ELSE current_chunk
    /\ Barrier(t, "chunk")
    /\ UNCHANGED <<shared, control, barrier, nth, node, chunk, n_passed, n_graph, last_graph>>

(* ggml_compute_forward_mul_mat: the thread's part of src1 is converted;    *)
(* thread 0 sets the counter past the chunks the threads start with.        *)
Convert(t) ==
    /\ pc[t] = "convert"
    /\ wdata' = [wdata EXCEPT ![t] = node[t]]
    /\ current_chunk' = IF t = 0 THEN nth[t] ELSE current_chunk
    /\ Barrier(t, "chunk")
    /\ UNCHANGED <<shared, control, barrier, nth, node, chunk, n_passed, n_graph, last_graph>>

(* One chunk, and the next one unless every thread had one to itself.       *)
ComputeChunk(t) ==
    LET nchunk == Cardinality(Parts(node[t], nth[t])) IN
    /\ pc[t] = "chunk"
    /\ IF chunk[t] >= nchunk
       THEN Goto(t, "after") /\ UNCHANGED <<out, chunk, current_chunk>>
       ELSE /\ Computed(t, chunk[t])
            /\ IF nth[t] >= nchunk THEN Goto(t, "after") /\ UNCHANGED <<chunk, current_chunk>>
               ELSE /\ chunk' = [chunk EXCEPT ![t] = current_chunk]
                    /\ current_chunk' = current_chunk + 1
                    /\ UNCHANGED pc
    /\ UNCHANGED <<cplan, abort, ec, control, barrier, nth, node, n_passed, ret, n_graph,
                   last_graph, wdata>>

(* A bug: it tells the others to stop before the node it has just computed. *)
AfterNodeEarly(t) ==
    /\ pc[t] = "after"
    /\ \/ UNCHANGED <<abort, ec>>
       \/ t = 0 /\ MayAbort /\ abort' = node[t] /\ ec' = "ABORTED"
    /\ IF node[t] + 1 < Len(Nodes) THEN Barrier(t, "next") /\ UNCHANGED node
       ELSE node' = [node EXCEPT ![t] = @ + 1] /\ Goto(t, "node") /\ UNCHANGED ret
    /\ UNCHANGED <<cplan, out, control, barrier, nth, chunk, n_passed, n_graph, current_chunk,
                   last_graph, wdata>>

(* Thread 0 asks whether to abort, before the barrier that ends the node.   *)
AfterNode(t) ==
    /\ pc[t] = "after"
    /\ \/ UNCHANGED <<abort, ec>>
       \/ t = 0 /\ MayAbort /\ abort' = node[t] + 1 /\ ec' = "ABORTED"
    /\ IF node[t] + 1 < Len(Nodes) THEN Barrier(t, "next") /\ UNCHANGED node
       ELSE node' = [node EXCEPT ![t] = @ + 1] /\ Goto(t, "node") /\ UNCHANGED ret
    /\ UNCHANGED <<cplan, out, control, barrier, nth, chunk, n_passed, n_graph, current_chunk,
                   last_graph, wdata>>

-----------------------------------------------------------------------------
(* ggml_graph_compute_secondary_thread. *)

(* A paused thread waits; a stopped one ends. *)
Top(t) ==
    /\ pc[t] = "top"
    /\ Woken(t)
    /\ IF pause THEN waiters' = waiters \cup {t} /\ UNCHANGED pc
       ELSE Goto(t, IF stop THEN "exited" ELSE "poll") /\ UNCHANGED waiters
    /\ UNCHANGED <<shared, stop, pause, graphs, pauses, barrier, local, n_graph, current_chunk,
                   last_graph, wdata>>

(* ggml_graph_compute_thread_ready: a graph the thread has not seen is work *)
(* for it only when enough threads take part.                               *)
NewGraph(t) == n_graph # last_graph[t]
Ready(t) == stop \/ pause \/ NewGraph(t)

See(t, otherwise) ==
    IF ~stop /\ ~pause /\ NewGraph(t)
    THEN /\ last_graph' = [last_graph EXCEPT ![t] = n_graph]
         /\ Goto(t, IF t < n_graph.threads THEN "start" ELSE otherwise)
    ELSE Goto(t, otherwise) /\ UNCHANGED last_graph

(* The thread polls, for as long as it takes or until it gives up. *)
Poll(t) ==
    /\ pc[t] = "poll"
    /\ See(t, "check")
    /\ UNCHANGED <<shared, control, barrier, local, n_graph, current_chunk, wdata>>

(* A bug: it waits without looking again. *)
CheckNot(t) ==
    /\ pc[t] = "check"
    /\ Woken(t)
    /\ waiters' = waiters \cup {t}
    /\ Goto(t, "top")
    /\ UNCHANGED <<shared, stop, pause, graphs, pauses, barrier, local, n_graph, current_chunk,
                   last_graph, wdata>>

(* Then it looks again under the mutex, and waits. *)
Check(t) ==
    /\ pc[t] = "check"
    /\ Woken(t)
    /\ IF Ready(t) THEN See(t, "top") /\ UNCHANGED waiters
       ELSE waiters' = waiters \cup {t} /\ UNCHANGED <<pc, last_graph>>
    /\ UNCHANGED <<shared, stop, pause, graphs, pauses, barrier, local, n_graph, current_chunk, wdata>>

-----------------------------------------------------------------------------
(* The calls of the client, in thread 0. *)

(* ggml_graph_compute: the parameters are set without any synchronisation. *)
Compute(p) ==
    /\ pc[0] = "idle"
    /\ graphs < MaxGraphs
    /\ graphs' = graphs + 1
    /\ cplan' = p
    /\ current_chunk' = 0
    /\ abort' = -1
    /\ ec' = "SUCCESS"
    /\ out' = [k \in 0 .. Len(p.nodes) - 1 |-> {}]
    /\ wdata' = [t \in Thread |-> -1]
    /\ Goto(0, "kickoff")
    /\ UNCHANGED <<stop, pause, waiters, pauses, barrier, local, n_graph, last_graph>>

(* ggml_graph_compute_kickoff; it resumes a paused pool. *)
Kickoff ==
    /\ pc[0] = "kickoff"
    /\ n_graph' = [count   |-> (n_graph.count + 1) % N_GRAPHS,
                   threads |-> IF cplan.threads < NThreads THEN cplan.threads ELSE NThreads]
    /\ pause' = FALSE
    /\ Broadcast
    /\ Goto(0, "start")
    /\ UNCHANGED <<shared, stop, graphs, pauses, barrier, local, current_chunk, last_graph, wdata>>

Finish ==
    /\ pc[0] = "finish"
    /\ Goto(0, "idle")
    /\ UNCHANGED <<shared, control, barrier, local, n_graph, current_chunk, last_graph, wdata>>

Pause ==
    /\ pc[0] = "idle"
    /\ pauses < MaxPauses /\ ~pause
    /\ pause' = TRUE
    /\ pauses' = pauses + 1
    /\ Broadcast
    /\ UNCHANGED <<shared, stop, graphs, barrier, local, n_graph, current_chunk, pc, last_graph, wdata>>

Resume ==
    /\ pc[0] = "idle"
    /\ pause
    /\ pause' = FALSE
    /\ Broadcast
    /\ UNCHANGED <<shared, stop, graphs, pauses, barrier, local, n_graph, current_chunk, pc,
                   last_graph, wdata>>

(* ggml_threadpool_free *)
Free ==
    /\ pc[0] = "idle"
    /\ stop' = TRUE
    /\ pause' = FALSE
    /\ Broadcast
    /\ Goto(0, "join")
    /\ UNCHANGED <<shared, graphs, pauses, barrier, local, n_graph, current_chunk, last_graph, wdata>>

Join ==
    /\ pc[0] = "join"
    /\ \A t \in Thread \ {0} : pc[t] = "exited"
    /\ Goto(0, "freed")
    /\ UNCHANGED <<shared, control, barrier, local, n_graph, current_chunk, last_graph, wdata>>

-----------------------------------------------------------------------------
Init ==
    /\ cplan \in Plans
    /\ n_graph = NoGraph /\ n_barrier = 0 /\ n_barrier_passed = 0 /\ current_chunk = 0
    /\ stop = FALSE /\ pause \in BOOLEAN /\ abort = -1 /\ ec = "SUCCESS"
    /\ waiters = {}
    /\ pc = [t \in Thread |-> IF t = 0 THEN "idle" ELSE "top"]
    /\ last_graph = [t \in Thread |-> NoGraph]
    /\ nth = [t \in Thread |-> 0] /\ node = [t \in Thread |-> 0] /\ chunk = [t \in Thread |-> 0]
    /\ n_passed = [t \in Thread |-> 0] /\ ret = [t \in Thread |-> "none"]
    /\ out = [k \in 0 .. Len(cplan.nodes) - 1 |-> {}] /\ wdata = [t \in Thread |-> -1]
    /\ graphs = 0 /\ pauses = 0

ComputeStep(t) ==
    \/ ReadParams(t) \/ NextNode(t) \/ ComputeOp(t) \/ Convert(t) \/ ComputeChunk(t) \/ AfterNode(t)
    \/ Enter(t) \/ Arrive(t) \/ Last(t) \/ Pass(t) \/ Spin(t)

(* What a call of thread 0 does once it has begun; what a worker does. *)
MainStep == Kickoff \/ ComputeStep(0) \/ Finish \/ Join
WorkerStep(t) == Top(t) \/ Poll(t) \/ Check(t) \/ ComputeStep(t)

Freed == pc[0] = "freed" /\ UNCHANGED vars

Next ==
    \/ \E p \in Plans : Compute(p)
    \/ Pause \/ Resume \/ Free
    \/ MainStep
    \/ \E t \in Thread \ {0} : WorkerStep(t)
    \/ Freed

Spec == Init /\ [][Next]_vars

(* Threads keep running; the client need not call. *)
FairSpec == Spec /\ WF_vars(MainStep) /\ \A t \in Thread \ {0} : WF_vars(WorkerStep(t))

-----------------------------------------------------------------------------
Computing == {"start", "node", "op", "convert", "chunk", "after", "enter", "arrive", "last", "pass", "spin"}
Complete(k) == out[k] = Parts(k, n_graph.threads)

(* No thread touches a node before the nodes in front of it are complete,   *)
(* nor multiplies while a part of src1 is not yet converted, or is already  *)
(* converted for another product; and no chunk is computed twice, although  *)
(* threads take their first one without the counter.                        *)
InputsReady ==
    \A t \in Thread : pc[t] \in {"op", "convert", "chunk"} =>
        /\ \A k \in 0 .. node[t] - 1 : Complete(k)
        /\ pc[t] = "chunk" =>
              \A u \in 0 .. n_graph.threads - 1 : wdata[u] = node[t]
        /\ pc[t] = "chunk" /\ chunk[t] \in Parts(node[t], nth[t]) =>
              /\ chunk[t] \notin out[node[t]]
              /\ \A u \in Thread \ {t} : pc[u] = "chunk" => chunk[u] # chunk[t]

(* When ggml_graph_compute returns all nodes are computed, or after an      *)
(* abort all of those before it and nothing of the others.                  *)
ResultComplete ==
    pc[0] = "finish" =>
        \A k \in DOMAIN out :
            IF ec = "SUCCESS" \/ k < abort THEN Complete(k) ELSE out[k] = {}

(* "No worker threads should be accessing the parameters below at this      *)
(* stage": a worker that leaves the last barrier late only spins.           *)
ParamsUntouched ==
    pc[0] \in {"idle", "kickoff", "join", "freed"} =>
        \A t \in Thread \ {0} : pc[t] \in Computing => pc[t] = "spin" /\ ret[t] = "end"

(* Every ggml_graph_compute returns, whichever threads took part in the     *)
(* graphs before and whatever they wait for; ggml_threadpool_free returns;  *)
(* and a paused pool comes to rest: no worker keeps polling.                *)
Progress ==
    /\ pc[0] = "kickoff" ~> pc[0] = "finish"
    /\ pc[0] = "join" ~> pc[0] = "freed"
    /\ (pause /\ pc[0] = "idle") ~> (~pause \/ waiters = Thread \ {0})
=============================================================================
