--------------------------- MODULE ThreadpoolProofs ---------------------------
(***************************************************************************)
(* The safety properties of the CPU thread pool, for every number of       *)
(* threads and every graph: between two barriers the threads of a graph    *)
(* work on one stretch of it, behind which every node is complete.         *)
(***************************************************************************)
EXTENDS Threadpool, FiniteSetTheorems, SequenceTheorems, TLAPS

-----------------------------------------------------------------------------
(* Where a thread is, as the others see it.                                 *)

(* The threads that take part in the graph. *)
Team == 0 .. n_graph.threads - 1

(* The thread has arrived at the barrier it is in, and is held there. *)
Held(t) == pc[t] = "spin" /\ n_passed[t] = n_barrier_passed

(* The thread was let go, and has not noticed yet. *)
Released(t, r) == pc[t] = "spin" /\ n_passed[t] < n_barrier_passed /\ ret[t] = r

AtBarrier(t, r) == (pc[t] \in {"enter", "arrive", "last", "pass"} \/ Held(t)) /\ ret[t] = r

(* A worker that has not begun the graph, or is done with it. *)
Away(t) ==
    /\ t # 0
    /\ pc[t] \in {"top", "poll", "check", "exited"} \/ Released(t, "end")
    /\ node[t] = 0

-----------------------------------------------------------------------------
(* Types. *)
PC == {"idle", "kickoff", "join", "freed", "finish", "top", "poll", "check", "exited"} \cup Computing

Returns == {"none", "chunk", "next", "end"}

Typed ==
    /\ cplan \in Plans
    /\ n_graph \in [count : Nat, threads : 0 .. NThreads]
    /\ last_graph \in [Thread -> [count : Nat, threads : 0 .. NThreads]]
    /\ n_barrier \in Nat /\ n_barrier_passed \in Nat /\ current_chunk \in Nat
    /\ abort \in Int /\ ec \in {"SUCCESS", "ABORTED"} /\ (ec = "SUCCESS" <=> abort = -1)
    /\ pc \in [Thread -> PC]
    /\ nth \in [Thread -> Nat] /\ node \in [Thread -> Nat] /\ chunk \in [Thread -> Nat]
    /\ n_passed \in [Thread -> Nat] /\ ret \in [Thread -> Returns]
    /\ wdata \in [Thread -> Int]
    /\ out \in [0 .. Len(Nodes) - 1 -> SUBSET Nat]
    /\ \A t \in Thread :
          /\ pc[t] \in {"idle", "kickoff", "join", "freed", "finish"} => t = 0
          /\ pc[t] \in {"top", "poll", "check", "exited"} => t # 0
          /\ pc[t] \in {"enter", "arrive", "last", "pass", "spin"} <=> ret[t] # "none"
          /\ pc[t] \in {"arrive", "spin"} => n_passed[t] <= n_barrier_passed

(* The thread takes part in the graph that is being computed. *)
Busy(t) == pc[t] \in Computing /\ ~Released(t, "end")

(* It has seen the graph, and works with its number of threads. *)
Engaged ==
    \A t \in Thread : Busy(t) =>
        /\ t # 0 => last_graph[t] = n_graph
        /\ pc[t] # "start" => nth[t] = n_graph.threads

-----------------------------------------------------------------------------
(* The barrier: the counter is the number of threads that have arrived, and *)
(* who comes last, or opens the barrier, finds all the others held.         *)
Arrived == {t \in Team : Held(t) \/ pc[t] = "last"}

BarrierCounts ==
    /\ \A t \in Thread : pc[t] \in {"arrive", "last", "pass"} \/ Held(t) =>
          n_graph.threads > 1 /\ t \in Team
    /\ \A t \in Thread : pc[t] = "arrive" => n_passed[t] = n_barrier_passed
    /\ \A t \in Thread : pc[t] \in {"last", "pass"} => \A u \in Team \ {t} : Held(u)
    /\ IF \E t \in Thread : pc[t] = "pass" THEN n_barrier = 0 ELSE n_barrier = Cardinality(Arrived)

-----------------------------------------------------------------------------
(* The stretch of the graph between two barriers. *)

Products == {"rows", "chunks"}

(* From node k on there is nothing to do before node j. *)
Skipped(k, j) == j \in k .. Len(Nodes) /\ \A i \in k .. j - 1 : Kind(i) = "empty" /\ i # abort

(* The first node from k on for which there is something to do is j. *)
At(k, j, K) == Skipped(k, j) /\ j < Len(Nodes) /\ j # abort /\ Kind(j) \in K

(* The thread has done its part of the operation j, the first from k on. *)
DidOp(t, k, j) == At(k, j, {"op"}) /\ t \in out[j]

(* From node k on there is nothing to do. *)
Stops(k) == \E j \in k .. Len(Nodes) : Skipped(k, j) /\ (j = Len(Nodes) \/ j = abort)

(* What a thread at node j does in the stretch that begins with node k. *)
Doing(t, k, j) ==
    \/ k = 0 /\ Away(t)
    \/ k = 0 /\ j = 0 /\ pc[t] = "start"
    \/ Released(t, "next") /\ j + 1 = k
    \/ pc[t] = "node" /\ Skipped(k, j)
    \/ pc[t] = "op" /\ At(k, j, {"op"})
    \/ pc[t] = "after" /\ DidOp(t, k, j)
    \/ AtBarrier(t, "next") /\ DidOp(t, k, j) /\ j + 1 < Len(Nodes)
    \/ pc[t] = "node" /\ j = Len(Nodes) /\ DidOp(t, k, j - 1)
    \/ AtBarrier(t, "end") /\ j = 0 /\ (Stops(k) \/ DidOp(t, k, Len(Nodes) - 1))
    \/ pc[t] = "convert" /\ At(k, j, Products)
    \/ AtBarrier(t, "chunk") /\ At(k, j, Products) /\ wdata[t] = j
           /\ (t = 0 => current_chunk = n_graph.threads)

InAhead(t, k) == \E j \in 0 .. Len(Nodes) : node[t] = j /\ Doing(t, k, j)

Ahead(k) ==
    /\ k \in 0 .. Len(Nodes)
    /\ abort = -1 \/ abort >= k
    /\ \A i \in 0 .. k - 1 : Complete(i)
    /\ \A i \in k .. Len(Nodes) - 1 : out[i] # {} => At(k, i, {"op"}) /\ out[i] \subseteq Team
    /\ \A t \in Team : InAhead(t, k)

(* A thread that multiplies takes its first chunk without the counter. *)
Holds(t)   == IF ret[t] = "chunk" THEN t ELSE chunk[t]
Holding(t) == Released(t, "chunk") \/ pc[t] = "chunk"

(* A thread in the stretch in which the product k is computed. *)
InProduct(t, k) ==
    \/ Holding(t) /\ node[t] = k
    \/ pc[t] = "after" /\ node[t] = k
    \/ AtBarrier(t, "next") /\ node[t] = k /\ k + 1 < Len(Nodes)
    \/ pc[t] = "node" /\ node[t] = k + 1 /\ k + 1 = Len(Nodes)
    \/ AtBarrier(t, "end") /\ node[t] = 0 /\ k + 1 = Len(Nodes)

(* One chunk for each thread. *)
RowsShared(k) ==
    \A t \in Team : IF Holding(t) THEN Holds(t) = t /\ t \notin out[k] ELSE t \in out[k]

(* The chunks below the counter are computed or held by one thread; a       *)
(* thread stops only when the counter is past the last.                     *)
ChunksShared(k) ==
    /\ current_chunk >= n_graph.threads
    /\ \A c \in out[k] : c < current_chunk
    /\ \A t \in Team : IF Holding(t)
          THEN /\ Holds(t) < current_chunk /\ Holds(t) \notin out[k]
               /\ \A u \in Team : Holding(u) /\ Holds(u) = Holds(t) => u = t
          ELSE current_chunk >= 4 * n_graph.threads
    /\ \A c \in Parts(k, n_graph.threads) : c < current_chunk =>
          c \in out[k] \/ \E t \in Team : Holding(t) /\ Holds(t) = c

Product(k) ==
    /\ k \in 0 .. Len(Nodes) - 1
    /\ abort = -1 \/ abort > k
    /\ \A i \in 0 .. k - 1 : Complete(i)
    /\ \A i \in k + 1 .. Len(Nodes) - 1 : out[i] = {}
    /\ out[k] \subseteq Parts(k, n_graph.threads)
    /\ \A t \in Team : InProduct(t, k) /\ wdata[t] = k
    /\ \/ Kind(k) = "rows" /\ RowsShared(k)
       \/ Kind(k) = "chunks" /\ ChunksShared(k)

(* No worker is busy with the graph, nor will be. *)
Rested == \A t \in Team \ {0} : Away(t) /\ last_graph[t] = n_graph

(* Behind the last barrier. *)
Over ==
    /\ n_graph.threads > 0
    /\ pc[0] = "finish" \/ Released(0, "end")
    /\ node[0] = 0
    /\ Rested
    /\ \A k \in DOMAIN out :
          IF abort = -1 \/ k < abort THEN Complete(k) ELSE out[k] = {}

Idle == pc[0] \in {"idle", "kickoff", "join", "freed"} /\ Rested /\ node[0] = 0
    /\ (pc[0] = "kickoff" => abort = -1 /\ \A k \in DOMAIN out : out[k] = {})

Stretch ==
    \/ Idle
    \/ Over
    \/ n_graph.threads > 0 /\ \E k \in 0 .. Len(Nodes) : Ahead(k) \/ Product(k)

Others == \A t \in Thread \ Team : t # 0 => Away(t)

IInv == Typed /\ Engaged /\ BarrierCounts /\ Others /\ Stretch

-----------------------------------------------------------------------------
(* What a step may touch.                                                   *)

(* Thread u and what it has of its own are as they were. *)
Same(u) ==
    /\ pc'[u] = pc[u] /\ node'[u] = node[u] /\ ret'[u] = ret[u] /\ n_passed'[u] = n_passed[u]
    /\ nth'[u] = nth[u] /\ chunk'[u] = chunk[u]
    /\ wdata'[u] = wdata[u] /\ last_graph'[u] = last_graph[u]

(* A graph has finitely many nodes, each of a known kind. *)
LEMMA NodesType ==
    ASSUME Typed
    PROVE  Len(Nodes) \in Nat /\ \A k \in 0 .. Len(Nodes) - 1 : Kind(k) \in Kinds
<1>1. Nodes \in Seq(Kinds)
  BY PoolAssumption DEF Typed, Nodes
<1>2. Len(Nodes) \in Nat
  BY <1>1
<1>3. ASSUME NEW k \in 0 .. Len(Nodes) - 1 PROVE Kind(k) \in Kinds
  <2>1. k + 1 \in 1 .. Len(Nodes)
    BY <1>2
  <2> HIDE DEF Nodes
  <2> QED BY <1>1, <2>1, ElementOfSeq DEF Kind
<1> QED BY <1>2, <1>3

(* Thread 0 is a thread. *)
LEMMA ZeroIsThread == 0 \in Thread
BY PoolAssumption DEF Thread

(* The team of a graph is made of threads of the pool. *)
LEMMA TeamThreads == ASSUME Typed PROVE Team \subseteq Thread /\ n_graph.threads \in Nat
<1>1. n_graph.threads \in 0 .. NThreads /\ NThreads \in Nat
  BY PoolAssumption DEF Typed
<1> QED BY <1>1 DEF Team, Thread

(* Leaving a barrier. *)
LEMMA LeaveFacts ==
    ASSUME Typed, NEW t \in Thread, Leave(t)
    PROVE  /\ ret'[t] = "none" /\ n_passed'[t] = 0
           /\ ret[t] = "chunk" => /\ pc'[t] = "chunk" /\ node'[t] = node[t]
                                  /\ nth'[t] = nth[t] /\ chunk'[t] = t
           /\ ret[t] = "next" => /\ pc'[t] = "node" /\ node'[t] = node[t] + 1
                                 /\ nth'[t] = nth[t] /\ chunk'[t] = 0
           /\ ret[t] = "end" => /\ pc'[t] = IF t = 0 THEN "finish" ELSE "top"
                                /\ node'[t] = node[t] /\ nth'[t] = 0 /\ chunk'[t] = 0
           /\ \A u \in Thread : u # t =>
                 /\ pc'[u] = pc[u] /\ node'[u] = node[u] /\ ret'[u] = ret[u]
                 /\ n_passed'[u] = n_passed[u] /\ nth'[u] = nth[u] /\ chunk'[u] = chunk[u]
<1>1. /\ ret'[t] = "none" /\ n_passed'[t] = 0
      /\ \A u \in Thread : u # t => ret'[u] = ret[u] /\ n_passed'[u] = n_passed[u]
  BY DEF Leave, Typed
<1>2. /\ ret[t] = "next" => node'[t] = node[t] + 1
      /\ ret[t] # "next" => node'[t] = node[t]
      /\ \A u \in Thread : u # t => node'[u] = node[u]
  BY DEF Leave, Typed
<1>3. /\ ret[t] = "end" => nth'[t] = 0
      /\ ret[t] # "end" => nth'[t] = nth[t]
      /\ \A u \in Thread : u # t => nth'[u] = nth[u]
  BY DEF Leave, Typed
<1>4. /\ chunk'[t] = IF ret[t] = "chunk" THEN t ELSE 0
      /\ \A u \in Thread : u # t => chunk'[u] = chunk[u]
  BY DEF Leave, Typed
<1>5. /\ ret[t] = "chunk" => pc'[t] = "chunk"
      /\ ret[t] = "next" => pc'[t] = "node"
      /\ ret[t] = "end" => pc'[t] = IF t = 0 THEN "finish" ELSE "top"
      /\ \A u \in Thread : u # t => pc'[u] = pc[u]
  BY DEF Leave, Goto, Typed
<1> QED BY <1>1, <1>2, <1>3, <1>4, <1>5

(* A thread's step leaves the other threads as they are. *)
LEMMA OnlyActor ==
    ASSUME Typed, NEW t \in Thread, ComputeStep(t) \/ Top(t) \/ Poll(t) \/ Check(t),
           NEW u \in Thread, u # t
    PROVE  Same(u)
<1> USE DEF Same, local, Goto
<1>1. CASE ReadParams(t)
  BY <1>1 DEF ReadParams, Typed
<1>2. CASE NextNode(t)
  BY <1>2 DEF NextNode, Typed, Barrier
<1>3. CASE ComputeOp(t)
  BY <1>3 DEF ComputeOp, Computed, Typed
<1>4. CASE Convert(t)
  BY <1>4 DEF Convert, Typed, Barrier
<1>5. CASE ComputeChunk(t)
  BY <1>5 DEF ComputeChunk, Computed, Typed
<1>6. CASE AfterNode(t)
  BY <1>6 DEF AfterNode, Typed, Barrier
<1>7. CASE Enter(t)
  <2>1. wdata' = wdata /\ last_graph' = last_graph
    BY <1>7 DEF Enter
  <2>2. CASE Leave(t)
    <3>1. /\ pc'[u] = pc[u] /\ node'[u] = node[u] /\ ret'[u] = ret[u]
          /\ n_passed'[u] = n_passed[u] /\ nth'[u] = nth[u] /\ chunk'[u] = chunk[u]
      BY <2>2, LeaveFacts
    <3> QED BY <2>1, <3>1
  <2>3. CASE ~Leave(t)
    BY <1>7, <2>1, <2>3 DEF Enter, Typed
  <2> QED BY <2>2, <2>3
<1>8. CASE Arrive(t)
  BY <1>8 DEF Arrive, Typed
<1>9. CASE Last(t)
  BY <1>9 DEF Last, Typed
<1>10. CASE Pass(t)
  BY <1>10, LeaveFacts DEF Pass
<1>11. CASE Spin(t)
  BY <1>11, LeaveFacts DEF Spin
<1>12. CASE Top(t)
  BY <1>12 DEF Top, Typed
<1>13. CASE Poll(t)
  BY <1>13 DEF Poll, See, Typed
<1>14. CASE Check(t)
  BY <1>14 DEF Check, See, Typed
<1> QED
  BY <1>1, <1>2, <1>3, <1>4, <1>5, <1>6, <1>7, <1>8, <1>9, <1>10, <1>11, <1>12, <1>13, <1>14
  DEF ComputeStep

(* Nor does it change the graph. *)
LEMMA GraphKept ==
    ASSUME NEW t \in Thread, ComputeStep(t) \/ Top(t) \/ Poll(t) \/ Check(t)
    PROVE  cplan' = cplan /\ n_graph' = n_graph /\ stop' = stop
BY DEF ComputeStep, Top, Poll, Check, shared, control, ReadParams, NextNode, ComputeOp, Convert,
       ComputeChunk, AfterNode, Enter, Arrive, Last, Pass, Spin

-----------------------------------------------------------------------------
(* Types.                                                                  *)
LEMMA TypedInit == Init => Typed
<1> SUFFICES ASSUME Init PROVE Typed
  OBVIOUS
<1>1. cplan \in Plans /\ abort = -1 /\ ec = "SUCCESS" /\ n_graph \in [count : Nat, threads : 0 .. NThreads]
  BY PoolAssumption DEF Init, NoGraph
<1>2. \A t \in Thread : pc[t] = (IF t = 0 THEN "idle" ELSE "top") /\ ret[t] = "none"
  BY DEF Init
<1>3. pc \in [Thread -> PC] /\ ret \in [Thread -> Returns]
  BY DEF Init, PC, Returns
<1>4. last_graph \in [Thread -> [count : Nat, threads : 0 .. NThreads]]
  BY PoolAssumption DEF Init, NoGraph
<1>5. out \in [0 .. Len(Nodes) - 1 -> SUBSET Nat]
  BY DEF Init, Nodes
<1>6. /\ n_barrier \in Nat /\ n_barrier_passed \in Nat /\ current_chunk \in Nat
      /\ nth \in [Thread -> Nat] /\ node \in [Thread -> Nat] /\ chunk \in [Thread -> Nat]
      /\ n_passed \in [Thread -> Nat] /\ wdata \in [Thread -> Int]
  BY DEF Init
<1> QED BY <1>1, <1>2, <1>3, <1>4, <1>5, <1>6 DEF Typed

(* The client's steps keep the types. *)
LEMMA TypedClient ==
    ASSUME Typed,
           (\E p \in Plans : Compute(p)) \/ Kickoff \/ Finish \/ Pause \/ Resume \/ Free \/ Join
           \/ UNCHANGED vars
    PROVE  Typed'
<1> USE DEF Typed, local, shared, control, barrier, Goto, PC
<1>1. ASSUME NEW p \in Plans, Compute(p) PROVE Typed'
  <2>1. p.nodes \in Seq(Kinds)
    BY PoolAssumption
  <2>2. out' \in [0 .. Len(Nodes') - 1 -> SUBSET Nat]
    BY <1>1, <2>1 DEF Compute, Nodes
  <2>3. wdata' \in [Thread -> Int]
    BY <1>1 DEF Compute
  <2>4. pc' \in [Thread -> PC] /\ \A t \in Thread : pc'[t] = IF t = 0 THEN "kickoff" ELSE pc[t]
    BY <1>1 DEF Compute
  <2>5. /\ cplan' \in Plans /\ current_chunk' = 0 /\ abort' = -1 /\ ec' = "SUCCESS"
        /\ UNCHANGED <<n_graph, last_graph, barrier, local>>
    BY <1>1 DEF Compute
  <2>6. ASSUME NEW t \in Thread
        PROVE  /\ pc'[t] \in {"idle", "kickoff", "join", "freed", "finish"} => t = 0
               /\ pc'[t] \in {"top", "poll", "check", "exited"} => t # 0
               /\ pc'[t] \in {"enter", "arrive", "last", "pass", "spin"} <=> ret'[t] # "none"
               /\ pc'[t] \in {"arrive", "spin"} => n_passed'[t] <= n_barrier_passed'
    <3>1. pc[0] = "idle"
      BY <1>1 DEF Compute
    <3> QED BY <2>4, <2>5, <3>1
  <2> QED BY <2>2, <2>3, <2>4, <2>5, <2>6
<1>2. CASE Kickoff
  <2>1. n_graph' \in [count : Nat, threads : 0 .. NThreads]
    <3>1. (n_graph.count + 1) % N_GRAPHS \in Nat
      BY DEF N_GRAPHS
    <3>2. cplan.threads \in Nat /\ NThreads \in Nat
      BY PoolAssumption
    <3> QED BY <1>2, <3>1, <3>2 DEF Kickoff
  <2> QED BY <1>2, <2>1 DEF Kickoff, Nodes, Computing
<1>3. CASE Finish \/ Free \/ Join
  BY <1>3 DEF Finish, Free, Join, Nodes
<1>4. CASE Pause \/ Resume
  BY <1>4 DEF Pause, Resume, Nodes
<1>5. CASE UNCHANGED vars
  BY <1>5 DEF vars, Nodes
<1> QED BY <1>1, <1>2, <1>3, <1>4, <1>5

(* A worker's steps between graphs keep the types. *)
LEMMA TypedWorker ==
    ASSUME Typed, NEW t \in Thread \ {0}, Top(t) \/ Poll(t) \/ Check(t)
    PROVE  Typed'
<1>1. \/ pc' = pc
      \/ \E x \in {"top", "poll", "check", "exited", "start"} : pc' = [pc EXCEPT ![t] = x]
  BY DEF Top, Poll, Check, See, Goto
<1>2. last_graph' \in [Thread -> [count : Nat, threads : 0 .. NThreads]]
  BY DEF Top, Poll, Check, See, Typed
<1>3. /\ cplan' = cplan /\ abort' = abort /\ ec' = ec /\ out' = out /\ n_barrier' = n_barrier
      /\ n_barrier_passed' = n_barrier_passed /\ nth' = nth /\ node' = node /\ chunk' = chunk
      /\ n_passed' = n_passed /\ ret' = ret /\ n_graph' = n_graph
      /\ current_chunk' = current_chunk /\ wdata' = wdata
  BY DEF Top, Poll, Check, shared, barrier, local
<1>4. pc[t] \in {"top", "poll", "check"}
  BY DEF Top, Poll, Check
<1>5. pc' \in [Thread -> PC]
  BY <1>1 DEF Typed, PC, Computing
<1>6. ASSUME NEW u \in Thread
      PROVE  /\ pc'[u] \in {"idle", "kickoff", "join", "freed", "finish"} => u = 0
             /\ pc'[u] \in {"top", "poll", "check", "exited"} => u # 0
             /\ pc'[u] \in {"enter", "arrive", "last", "pass", "spin"} <=> ret'[u] # "none"
             /\ pc'[u] \in {"arrive", "spin"} => n_passed'[u] <= n_barrier_passed'
  BY <1>1, <1>3, <1>4 DEF Typed
<1> QED BY <1>2, <1>3, <1>5, <1>6 DEF Typed, Nodes

(* A thread that leaves a barrier for where it came from keeps the types. *)
LEMMA LeaveTyped ==
    ASSUME Typed, NEW t \in Thread, Leave(t), ret[t] # "none",
           cplan' = cplan, n_graph' = n_graph, last_graph' = last_graph,
           n_barrier' = n_barrier, n_barrier_passed' \in Nat,
           n_barrier_passed' >= n_barrier_passed,
           current_chunk' = current_chunk, abort' = abort, ec' = ec, wdata' = wdata, out' = out
    PROVE  Typed'
<1>1. /\ pc' \in [Thread -> PC] /\ nth' \in [Thread -> Nat] /\ node' \in [Thread -> Nat]
      /\ chunk' \in [Thread -> Nat] /\ n_passed' \in [Thread -> Nat] /\ ret' \in [Thread -> Returns]
  <2>1. ret[t] \in {"chunk", "next", "end"} /\ t \in Nat
    BY DEF Typed, Returns, Thread
  <2>2. nth' \in [Thread -> Nat] /\ node' \in [Thread -> Nat] /\ chunk' \in [Thread -> Nat]
    <3>1. nth \in [Thread -> Nat] /\ node \in [Thread -> Nat] /\ chunk \in [Thread -> Nat]
      BY DEF Typed
    <3>2. nth' \in [Thread -> Nat]
      BY <3>1 DEF Leave
    <3>3. node' \in [Thread -> Nat]
      BY <3>1 DEF Leave
    <3>4. chunk' \in [Thread -> Nat]
      BY <2>1, <3>1 DEF Leave
    <3> QED BY <3>2, <3>3, <3>4
  <2>3. n_passed' \in [Thread -> Nat] /\ ret' \in [Thread -> Returns]
    BY DEF Leave, Typed, Returns
  <2>4. pc' \in [Thread -> PC]
    <3>1. \E x \in {"chunk", "node", "finish", "top"} : pc' = [pc EXCEPT ![t] = x]
      BY <2>1 DEF Leave, Goto
    <3> QED BY <3>1 DEF PC, Computing, Typed
  <2> QED BY <2>2, <2>3, <2>4
<1>2. ASSUME NEW u \in Thread
      PROVE  /\ pc'[u] \in {"idle", "kickoff", "join", "freed", "finish"} => u = 0
             /\ pc'[u] \in {"top", "poll", "check", "exited"} => u # 0
             /\ pc'[u] \in {"enter", "arrive", "last", "pass", "spin"} <=> ret'[u] # "none"
             /\ pc'[u] \in {"arrive", "spin"} => n_passed'[u] <= n_barrier_passed'
  <2>1. CASE u = t
    <3>1. ret[t] \in {"chunk", "next", "end"}
      BY DEF Typed, Returns
    <3> QED BY <2>1, <3>1, LeaveFacts
  <2>2. CASE u # t
    <3>1. pc'[u] = pc[u] /\ ret'[u] = ret[u] /\ n_passed'[u] = n_passed[u]
      BY <2>2, LeaveFacts
    <3>2. n_passed[u] \in Nat /\ n_barrier_passed \in Nat
      BY DEF Typed
    <3> QED BY <3>1, <3>2 DEF Typed
  <2> QED BY <2>1, <2>2
<1> QED BY <1>1, <1>2 DEF Typed, Nodes

(* What a thread adds to a node is a natural number. *)
LEMMA ComputedTyped ==
    ASSUME Typed, NEW t \in Thread, NEW part \in Nat, Computed(t, part)
    PROVE  /\ out' \in [0 .. Len(Nodes) - 1 -> SUBSET Nat]
           /\ \A i \in 0 .. Len(Nodes) - 1 :
                 out'[i] = IF i = node[t] THEN out[i] \cup {part} ELSE out[i]
BY DEF Computed, Typed

(* A step that only moves the thread on, outside of the barrier. *)
LEMMA MoveTyped ==
    ASSUME Typed, NEW t \in Thread, NEW x \in {"node", "op", "convert", "chunk", "after"},
           ret[t] = "none", pc' = [pc EXCEPT ![t] = x], ret' = ret, cplan' = cplan,
           n_graph' = n_graph, last_graph' = last_graph, n_barrier' = n_barrier,
           n_barrier_passed' = n_barrier_passed, current_chunk' \in Nat,
           abort' \in Int, ec' \in {"SUCCESS", "ABORTED"}, ec' = "SUCCESS" <=> abort' = -1,
           nth' \in [Thread -> Nat], node' \in [Thread -> Nat], chunk' \in [Thread -> Nat],
           n_passed' = n_passed, wdata' = wdata,
           out' \in [0 .. Len(Nodes) - 1 -> SUBSET Nat]
    PROVE  Typed'
<1>1. pc' \in [Thread -> PC] /\ \A u \in Thread : pc'[u] = IF u = t THEN x ELSE pc[u]
  BY DEF Typed, PC, Computing
<1>2. ASSUME NEW u \in Thread
      PROVE  /\ pc'[u] \in {"idle", "kickoff", "join", "freed", "finish"} => u = 0
             /\ pc'[u] \in {"top", "poll", "check", "exited"} => u # 0
             /\ pc'[u] \in {"enter", "arrive", "last", "pass", "spin"} <=> ret'[u] # "none"
             /\ pc'[u] \in {"arrive", "spin"} => n_passed'[u] <= n_barrier_passed'
  BY <1>1 DEF Typed
<1> QED BY <1>1, <1>2 DEF Typed, Nodes

(* A step that brings the thread to a barrier. *)
LEMMA BarrierTyped ==
    ASSUME Typed, NEW t \in Thread, NEW r \in {"chunk", "next", "end"}, Barrier(t, r),
           cplan' = cplan,
           n_graph' = n_graph, last_graph' = last_graph, n_barrier' = n_barrier,
           n_barrier_passed' = n_barrier_passed, current_chunk' \in Nat,
           abort' \in Int, ec' \in {"SUCCESS", "ABORTED"}, ec' = "SUCCESS" <=> abort' = -1,
           nth' = nth, node' \in [Thread -> Nat], chunk' = chunk,
           n_passed' = n_passed, wdata' \in [Thread -> Int], out' = out
    PROVE  Typed'
<1>1. /\ pc' \in [Thread -> PC] /\ ret' \in [Thread -> Returns]
      /\ \A u \in Thread : /\ pc'[u] = IF u = t THEN "enter" ELSE pc[u]
                           /\ ret'[u] = IF u = t THEN r ELSE ret[u]
  BY DEF Typed, PC, Computing, Barrier, Goto, Returns
<1>2. ASSUME NEW u \in Thread
      PROVE  /\ pc'[u] \in {"idle", "kickoff", "join", "freed", "finish"} => u = 0
             /\ pc'[u] \in {"top", "poll", "check", "exited"} => u # 0
             /\ pc'[u] \in {"enter", "arrive", "last", "pass", "spin"} <=> ret'[u] # "none"
             /\ pc'[u] \in {"arrive", "spin"} => n_passed'[u] <= n_barrier_passed'
  BY <1>1 DEF Typed
<1> QED BY <1>1, <1>2 DEF Typed, Nodes

(* A step within the barrier. *)
LEMMA WithinTyped ==
    ASSUME Typed, NEW t \in Thread, NEW x \in {"arrive", "last", "pass", "spin"},
           ret[t] # "none", pc' = [pc EXCEPT ![t] = x], ret' = ret, cplan' = cplan,
           n_graph' = n_graph, last_graph' = last_graph, n_barrier' \in Nat,
           n_barrier_passed' = n_barrier_passed, current_chunk' = current_chunk,
           abort' = abort, ec' = ec,
           nth' = nth, node' = node, chunk' = chunk,
           n_passed' \in [Thread -> Nat], wdata' = wdata, out' = out,
           \A u \in Thread : n_passed'[u] = n_passed[u]
                             \/ (u = t /\ n_passed'[u] <= n_barrier_passed),
           x \in {"arrive", "spin"} => n_passed'[t] <= n_barrier_passed
    PROVE  Typed'
<1>1. pc' \in [Thread -> PC] /\ \A u \in Thread : pc'[u] = IF u = t THEN x ELSE pc[u]
  BY DEF Typed, PC, Computing
<1>2. ASSUME NEW u \in Thread
      PROVE  /\ pc'[u] \in {"idle", "kickoff", "join", "freed", "finish"} => u = 0
             /\ pc'[u] \in {"top", "poll", "check", "exited"} => u # 0
             /\ pc'[u] \in {"enter", "arrive", "last", "pass", "spin"} <=> ret'[u] # "none"
             /\ pc'[u] \in {"arrive", "spin"} => n_passed'[u] <= n_barrier_passed'
  BY <1>1 DEF Typed
<1> QED BY <1>1, <1>2 DEF Typed, Nodes

(* The steps within a graph keep the types. *)
LEMMA TypedCompute ==
    ASSUME Typed, NEW t \in Thread, ComputeStep(t)
    PROVE  Typed'
<1> USE DEF local, shared, control, barrier
<1>0. /\ ret[t] \in Returns /\ node[t] \in Nat /\ t \in Nat
      /\ nth \in [Thread -> Nat] /\ node \in [Thread -> Nat] /\ chunk \in [Thread -> Nat]
      /\ current_chunk \in Nat /\ n_barrier \in Nat /\ n_barrier_passed \in Nat
      /\ n_passed \in [Thread -> Nat] /\ ec \in {"SUCCESS", "ABORTED"} /\ abort \in Int
      /\ (ec = "SUCCESS" <=> abort = -1) /\ wdata \in [Thread -> Int]
      /\ out \in [0 .. Len(Nodes) - 1 -> SUBSET Nat]
  BY DEF Typed, Thread
<1>1. CASE ReadParams(t)
  <2>1. ret[t] = "none"
    BY <1>1 DEF ReadParams, Typed
  <2>2. nth' \in [Thread -> Nat]
    <3>1. n_graph.threads \in Nat
      BY TeamThreads
    <3> QED BY <1>0, <1>1, <3>1 DEF ReadParams
  <2> QED BY <1>0, <1>1, <2>1, <2>2, MoveTyped DEF ReadParams, Goto
<1>2. CASE NextNode(t)
  <2>1. ret[t] = "none"
    BY <1>2 DEF NextNode, Typed
  <2>2. node' \in [Thread -> Nat]
    <3>1. \E x \in {0, node[t], node[t] + 1} : node' = [node EXCEPT ![t] = x]
      <4>1. node = [node EXCEPT ![t] = node[t]]
        BY <1>0
      <4> QED BY <1>2, <4>1 DEF NextNode
    <3>2. {0, node[t], node[t] + 1} \subseteq Nat
      BY <1>0
    <3> QED BY <1>0, <3>1, <3>2
  <2>3. CASE Barrier(t, "end")
    BY <1>0, <1>2, <2>2, <2>3, BarrierTyped DEF NextNode
  <2>4. CASE ~Barrier(t, "end")
    <3>1. ret' = ret /\ \E x \in {"node", "op", "convert"} : pc' = [pc EXCEPT ![t] = x]
      <4>1. CASE pc' = pc
        <5>1. pc' = [pc EXCEPT ![t] = "node"]
          BY <1>2, <4>1 DEF NextNode, Typed
        <5> QED BY <1>2, <2>4, <5>1 DEF NextNode
      <4>2. CASE pc' # pc
        BY <1>2, <2>4, <4>2 DEF NextNode, Goto
      <4> QED BY <4>1, <4>2
    <3> QED BY <1>0, <1>2, <2>1, <2>2, <3>1, MoveTyped DEF NextNode
  <2> QED BY <2>3, <2>4
<1>3. CASE ComputeOp(t)
  <2>1. ret[t] = "none"
    BY <1>3 DEF ComputeOp, Typed
  <2>2. out' \in [0 .. Len(Nodes) - 1 -> SUBSET Nat]
    BY <1>0, <1>3, ComputedTyped DEF ComputeOp
  <2> QED BY <1>0, <1>3, <2>1, <2>2, MoveTyped DEF ComputeOp, Goto
<1>4. CASE Convert(t)
  <2>1. wdata' \in [Thread -> Int]
    BY <1>0, <1>4 DEF Convert
  <2>2. current_chunk' \in Nat
    BY <1>0, <1>4 DEF Convert
  <2> QED BY <1>0, <1>4, <2>1, <2>2, BarrierTyped DEF Convert
<1>5. CASE ComputeChunk(t)
  <2>1. ret[t] = "none"
    BY <1>5 DEF ComputeChunk, Typed
  <2>2. out' \in [0 .. Len(Nodes) - 1 -> SUBSET Nat]
    BY <1>0, <1>5, ComputedTyped DEF ComputeChunk
  <2>3. chunk' \in [Thread -> Nat] /\ current_chunk' \in Nat
    <3>1. \/ chunk' = chunk /\ current_chunk' = current_chunk
          \/ chunk' = [chunk EXCEPT ![t] = current_chunk] /\ current_chunk' = current_chunk + 1
      BY <1>5 DEF ComputeChunk
    <3>2. chunk \in [Thread -> Nat] /\ current_chunk \in Nat
      BY <1>0
    <3>3. current_chunk' \in Nat
      BY <3>1, <3>2
    <3>4. chunk' \in [Thread -> Nat]
      BY <3>1, <3>2
    <3> QED BY <3>3, <3>4
  <2>4. \E x \in {"chunk", "after"} : pc' = [pc EXCEPT ![t] = x]
    <3>1. pc = [pc EXCEPT ![t] = "chunk"]
      BY <1>5 DEF ComputeChunk, Typed
    <3> QED BY <1>5, <3>1 DEF ComputeChunk, Goto
  <2> QED BY <1>0, <1>5, <2>1, <2>2, <2>3, <2>4, MoveTyped DEF ComputeChunk
<1>6. CASE AfterNode(t)
  <2>1. ret[t] = "none"
    BY <1>6 DEF AfterNode, Typed
  <2>2. abort' \in Int /\ ec' \in {"SUCCESS", "ABORTED"} /\ (ec' = "SUCCESS" <=> abort' = -1)
    BY <1>0, <1>6 DEF AfterNode
  <2>3. node' \in [Thread -> Nat]
    BY <1>0, <1>6 DEF AfterNode
  <2>4. CASE Barrier(t, "next")
    BY <1>0, <1>6, <2>2, <2>3, <2>4, BarrierTyped DEF AfterNode
  <2>5. CASE ~Barrier(t, "next")
    BY <1>0, <1>6, <2>1, <2>2, <2>3, <2>5, MoveTyped DEF AfterNode, Goto
  <2> QED BY <2>4, <2>5
<1>7. CASE Enter(t)
  <2>1. ret[t] # "none"
    BY <1>7 DEF Enter, Typed
  <2>2. CASE Leave(t)
    BY <1>0, <1>7, <2>1, <2>2, LeaveTyped DEF Enter
  <2>3. CASE ~Leave(t)
    <3>1. n_passed' \in [Thread -> Nat]
          /\ \A u \in Thread : n_passed'[u] = IF u = t THEN n_barrier_passed ELSE n_passed[u]
      BY <1>0, <1>7, <2>3 DEF Enter
    <3>2. n_barrier_passed <= n_barrier_passed
      BY <1>0
    <3> QED BY <1>0, <1>7, <2>1, <2>3, <3>1, <3>2, WithinTyped DEF Enter, Goto
  <2> QED BY <2>2, <2>3
<1>8. CASE Arrive(t)
  <2>1. ret[t] # "none" /\ n_passed[t] <= n_barrier_passed
    BY <1>8 DEF Arrive, Typed
  <2>2. \E x \in {"last", "spin"} : pc' = [pc EXCEPT ![t] = x]
    BY <1>8 DEF Arrive, Goto
  <2>3. n_barrier' \in Nat
    BY <1>0, <1>8 DEF Arrive
  <2> QED BY <1>0, <1>8, <2>1, <2>2, <2>3, WithinTyped DEF Arrive
<1>9. CASE Last(t)
  <2>1. ret[t] # "none"
    BY <1>9 DEF Last, Typed
  <2> QED BY <1>0, <1>9, <2>1, WithinTyped DEF Last, Goto
<1>10. CASE Pass(t)
  <2>1. ret[t] # "none"
    BY <1>10 DEF Pass, Typed
  <2> QED BY <1>0, <1>10, <2>1, LeaveTyped DEF Pass
<1>11. CASE Spin(t)
  <2>1. ret[t] # "none"
    BY <1>11 DEF Spin, Typed
  <2> QED BY <1>0, <1>11, <2>1, LeaveTyped DEF Spin
<1> QED
  BY <1>1, <1>2, <1>3, <1>4, <1>5, <1>6, <1>7, <1>8, <1>9, <1>10, <1>11 DEF ComputeStep

(* Every step keeps the types. *)
LEMMA TypedStep == Typed /\ [Next]_vars => Typed'
BY TypedClient, TypedWorker, TypedCompute, ZeroIsThread DEF Next, MainStep, WorkerStep, Freed

-----------------------------------------------------------------------------
(* Who can take a step.                                                     *)

(* A thread that spins and goes on was let go. *)
LEMMA SpinReleased ==
    ASSUME Typed, NEW t \in Thread, Spin(t)
    PROVE  ~Held(t) /\ Released(t, ret[t]) /\ ret[t] \in {"chunk", "next", "end"}
<1>1. n_passed[t] \in Nat /\ n_barrier_passed \in Nat /\ ret[t] \in Returns
  BY DEF Typed
<1> QED BY <1>1 DEF Spin, Held, Released, Typed, Returns

(* A thread that computes belongs to the team, and the graph is under way. *)
LEMMA Working ==
    ASSUME IInv, NEW t \in Thread, Busy(t)
    PROVE  /\ t \in Team /\ n_graph.threads > 0
           /\ \E k \in 0 .. Len(Nodes) : Ahead(k) \/ Product(k)
<1>1. ~Away(t) /\ pc[t] \notin {"idle", "kickoff", "join", "freed", "finish"}
  BY DEF Busy, Away, Computing
<1>2. ~Idle
  BY <1>1, ZeroIsThread DEF Idle, Rested, IInv, Others
<1>3. ~Over
  BY <1>1, ZeroIsThread DEF Over, Rested, IInv, Others, Busy
<1>4. n_graph.threads > 0 /\ \E k \in 0 .. Len(Nodes) : Ahead(k) \/ Product(k)
  BY <1>2, <1>3 DEF IInv, Stretch
<1>5. t \in Team
  <2>1. CASE t = 0
    <3>1. n_graph.threads \in Nat
      BY TeamThreads DEF IInv
    <3> QED BY <1>4, <2>1, <3>1 DEF Team
  <2>2. CASE t # 0
    BY <1>1, <2>2 DEF IInv, Others
  <2> QED BY <2>1, <2>2
<1> QED BY <1>4, <1>5

(* A thread that steps in the computation works, or leaves the graph. *)
LEMMA Stepping ==
    ASSUME NEW t \in Thread, ComputeStep(t)
    PROVE  pc[t] \in Computing /\ ~Held(t)
BY DEF ComputeStep, Computing, Held, ReadParams, NextNode, ComputeOp, Convert,
       ComputeChunk, AfterNode, Enter, Arrive, Last, Pass, Spin

(* It moves within the computation until it leaves the last barrier. *)
LEMMA StaysBusy ==
    ASSUME Typed, NEW t \in Thread, ComputeStep(t), pc'[t] \in Computing
    PROVE  /\ pc'[t] # "start" /\ ~Released(t, "end")
           /\ nth'[t] = IF pc[t] = "start" THEN n_graph.threads ELSE nth[t]
<1> USE DEF local, Released
<1>1. CASE ReadParams(t)
  BY <1>1 DEF ReadParams, Goto, Typed
<1>2. CASE NextNode(t)
  BY <1>2 DEF NextNode, Goto, Typed, Barrier
<1>3. CASE ComputeOp(t)
  BY <1>3 DEF ComputeOp, Goto, Typed
<1>4. CASE Convert(t)
  BY <1>4 DEF Convert, Goto, Typed, Barrier
<1>5. CASE ComputeChunk(t)
  BY <1>5 DEF ComputeChunk, Goto, Typed
<1>6. CASE AfterNode(t)
  BY <1>6 DEF AfterNode, Goto, Typed, Barrier
<1>7. CASE Arrive(t) \/ Last(t)
  BY <1>7 DEF Arrive, Last, Goto, Typed
<1>8. CASE Enter(t) /\ ~Leave(t)
  BY <1>8 DEF Enter, Goto, Typed
<1>9. CASE Leave(t) /\ pc[t] \in {"enter", "pass", "spin"}
  <2>1. ret[t] \in {"chunk", "next", "end"}
    BY <1>9 DEF Typed, Returns
  <2>2. ret[t] # "end"
    BY <1>9, LeaveFacts DEF Computing
  <2> QED BY <1>9, <2>1, <2>2, LeaveFacts
<1> QED BY <1>1, <1>2, <1>3, <1>4, <1>5, <1>6, <1>7, <1>8, <1>9 DEF ComputeStep, Enter, Pass, Spin

-----------------------------------------------------------------------------
(* The barrier.                                                             *)

(* A step outside of the counted part of the barrier leaves the count alone. *)
LEMMA BarrierOutside ==
    ASSUME Typed, BarrierCounts, NEW t \in Thread,
           n_graph' = n_graph, n_barrier' = n_barrier, n_barrier_passed' = n_barrier_passed,
           \A u \in Thread : u # t => pc'[u] = pc[u] /\ n_passed'[u] = n_passed[u],
           ~Held(t), pc[t] \notin {"last", "pass"}, pc'[t] \notin {"last", "pass", "spin"},
           pc'[t] = "arrive" =>
               n_passed'[t] = n_barrier_passed /\ n_graph.threads > 1 /\ t \in Team
    PROVE  BarrierCounts'
<1>1. \A u \in Thread : Held(u)' <=> Held(u)
  BY DEF Held
<1>2. Team' = Team /\ Team \subseteq Thread
  BY TeamThreads DEF Team
<1>3. Arrived' = Arrived
  BY <1>1, <1>2 DEF Arrived
<1>4. \A u \in Thread : pc'[u] = "pass" <=> pc[u] = "pass"
  OBVIOUS
<1>5. \A u \in Thread : pc'[u] \in {"arrive", "last", "pass"} \/ Held(u)' =>
          n_graph'.threads > 1 /\ u \in Team'
  BY <1>1, <1>2 DEF BarrierCounts
<1>6. \A u \in Thread : pc'[u] = "arrive" => n_passed'[u] = n_barrier_passed'
  BY DEF BarrierCounts
<1>7. \A u \in Thread : pc'[u] \in {"last", "pass"} => \A v \in Team' \ {u} : Held(v)'
  BY <1>1, <1>2 DEF BarrierCounts
<1>8. IF \E u \in Thread : pc'[u] = "pass" THEN n_barrier' = 0 ELSE n_barrier' = Cardinality(Arrived')
  BY <1>3, <1>4 DEF BarrierCounts
<1> QED BY <1>5, <1>6, <1>7, <1>8 DEF BarrierCounts

(* The size of an interval that begins at 0. *)
LEMMA IntervalSize ==
    ASSUME NEW n \in Nat
    PROVE  IsFiniteSet(0 .. n - 1) /\ Cardinality(0 .. n - 1) = n
<1>1. PICK b \in Int : b = n - 1
  OBVIOUS
<1>2. IsFiniteSet(0 .. b) /\ Cardinality(0 .. b) = IF 0 > b THEN 0 ELSE b - 0 + 1
  BY FS_Interval
<1> QED BY <1>1, <1>2

(* The team is finite, and has as many members as the graph has threads. *)
LEMMA TeamSize ==
    ASSUME Typed
    PROVE  IsFiniteSet(Team) /\ Cardinality(Team) = n_graph.threads
<1>1. n_graph.threads \in Nat
  BY TeamThreads
<1> QED BY <1>1, IntervalSize DEF Team

(* A thread that counts itself in finds the others held when it is the last. *)
LEMMA LastFindsHeld ==
    ASSUME IInv, NEW t \in Team, pc[t] = "arrive"
    PROVE  /\ \A u \in Thread : pc[u] \notin {"last", "pass"}
           /\ n_barrier = Cardinality(Arrived)
           /\ n_barrier = n_graph.threads - 1 => \A u \in Team \ {t} : Held(u)
<1>1. ASSUME NEW u \in Thread, pc[u] \in {"last", "pass"} PROVE FALSE
  <2>1. t # u
    BY <1>1
  <2>2. Held(t)
    BY <1>1, <2>1 DEF IInv, BarrierCounts
  <2> QED BY <2>2 DEF Held
<1>2. n_barrier = Cardinality(Arrived)
  BY <1>1 DEF IInv, BarrierCounts
<1>3. ASSUME n_barrier = n_graph.threads - 1 PROVE \A u \in Team \ {t} : Held(u)
  <2>1. Team \subseteq Thread /\ n_graph.threads \in Nat /\ IsFiniteSet(Team)
        /\ Cardinality(Team) = n_graph.threads
    BY TeamThreads, TeamSize DEF IInv
  <2>2. IsFiniteSet(Team \ {t}) /\ Cardinality(Team \ {t}) = n_graph.threads - 1
    BY <2>1, FS_RemoveElement
  <2>3. Arrived \subseteq Team \ {t}
    BY <1>1, <2>1 DEF Arrived, Held
  <2>4. Arrived = Team \ {t}
    <3>1. Cardinality(Arrived) = Cardinality(Team \ {t})
      BY <1>2, <1>3, <2>2
    <3> QED BY <2>2, <2>3, <3>1, FS_Subset
  <2>5. \A u \in Arrived : Held(u)
    BY <1>1, <2>1 DEF Arrived
  <2> QED BY <2>4, <2>5
<1> QED BY <1>1, <1>2, <1>3

(* A thread that arrives at the barrier, the last one included, keeps the   *)
(* count.                                                                   *)
LEMMA ArriveCounts ==
    ASSUME IInv, NEW t \in Team, Arrive(t)
    PROVE  BarrierCounts'
<1>1. /\ pc[t] = "arrive" /\ n_barrier' = n_barrier + 1
      /\ n_barrier_passed' = n_barrier_passed /\ n_passed' = n_passed /\ n_graph' = n_graph
  BY DEF Arrive, local
<1>2. /\ Typed /\ t \in Thread /\ Team' = Team /\ Team \subseteq Thread /\ n_graph.threads > 1
      /\ n_passed[t] = n_barrier_passed
  BY <1>1, TeamThreads DEF IInv, BarrierCounts, Team
<1>3. \A u \in Thread : pc'[u] = IF u = t THEN IF n_barrier = n_graph.threads - 1 THEN "last" ELSE "spin"
                                 ELSE pc[u]
  BY <1>2 DEF Arrive, Goto, Typed
<1>4. \A u \in Thread : pc[u] \notin {"last", "pass"}
  BY <1>1, LastFindsHeld
<1>5. \A u \in Thread \ {t} : Held(u)' <=> Held(u)
  BY <1>1, <1>3 DEF Held
<1>6. pc'[t] = "last" \/ Held(t)'
  BY <1>1, <1>2, <1>3 DEF Held
<1>7. Arrived' = Arrived \cup {t} /\ t \notin Arrived
  <2>1. t \notin Arrived
    BY <1>1 DEF Arrived, Held
  <2>2. \A u \in Team \ {t} : (Held(u)' \/ pc'[u] = "last") <=> (Held(u) \/ pc[u] = "last")
    BY <1>2, <1>3, <1>5
  <2> QED BY <1>2, <1>6, <2>1, <2>2 DEF Arrived
<1>8. n_barrier' = Cardinality(Arrived')
  <2>1. IsFiniteSet(Arrived)
    <3>1. Arrived \subseteq Team
      BY DEF Arrived
    <3> QED BY <1>2, <3>1, TeamSize, FS_Subset
  <2>2. Cardinality(Arrived \cup {t}) = Cardinality(Arrived) + 1
    BY <1>7, <2>1, FS_AddElement
  <2> QED BY <1>1, <1>7, <2>2, LastFindsHeld
<1>9. \A u \in Thread : pc'[u] \in {"arrive", "last", "pass"} \/ Held(u)' =>
          n_graph'.threads > 1 /\ u \in Team'
  BY <1>1, <1>2, <1>3, <1>5 DEF IInv, BarrierCounts
<1>10. \A u \in Thread : pc'[u] = "arrive" => n_passed'[u] = n_barrier_passed'
  BY <1>1, <1>3 DEF IInv, BarrierCounts
<1>11. \A u \in Thread : pc'[u] \in {"last", "pass"} => \A v \in Team' \ {u} : Held(v)'
  <2>1. SUFFICES ASSUME pc'[t] = "last" PROVE \A v \in Team \ {t} : Held(v)'
    BY <1>2, <1>3, <1>4
  <2>2. n_barrier = n_graph.threads - 1
    BY <1>2, <1>3, <2>1
  <2> QED BY <1>1, <1>2, <1>5, <2>2, LastFindsHeld
<1>12. \A u \in Thread : pc'[u] # "pass"
  BY <1>3, <1>4
<1> QED BY <1>8, <1>9, <1>10, <1>11, <1>12 DEF BarrierCounts

(* The last thread resets the counter. *)
LEMMA LastCounts ==
    ASSUME IInv, NEW t \in Team, Last(t)
    PROVE  BarrierCounts'
<1>1. /\ pc[t] = "last" /\ n_barrier' = 0
      /\ n_barrier_passed' = n_barrier_passed /\ n_passed' = n_passed /\ n_graph' = n_graph
  BY DEF Last, local
<1>2. Typed /\ t \in Thread /\ Team' = Team /\ Team \subseteq Thread /\ n_graph.threads > 1
  BY <1>1, TeamThreads DEF IInv, BarrierCounts, Team
<1>3. \A u \in Thread : pc'[u] = IF u = t THEN "pass" ELSE pc[u]
  BY <1>2 DEF Last, Goto, Typed
<1>4. \A u \in Thread : Held(u)' <=> Held(u)
  BY <1>1, <1>3 DEF Held
<1>5. \A u \in Team \ {t} : Held(u) /\ pc[u] = "spin"
  BY <1>1, <1>2 DEF IInv, BarrierCounts, Held
<1>6. \A u \in Thread : pc'[u] \in {"arrive", "last", "pass"} \/ Held(u)' =>
          n_graph'.threads > 1 /\ u \in Team'
  BY <1>1, <1>2, <1>3, <1>4 DEF IInv, BarrierCounts
<1>7. \A u \in Thread : pc'[u] = "arrive" => n_passed'[u] = n_barrier_passed'
  BY <1>1, <1>3 DEF IInv, BarrierCounts
<1>8. \A u \in Thread : pc'[u] \in {"last", "pass"} => \A v \in Team' \ {u} : Held(v)'
  <2>1. ASSUME NEW u \in Thread, pc'[u] \in {"last", "pass"} PROVE u = t
    <3>1. SUFFICES ASSUME u # t PROVE FALSE
      OBVIOUS
    <3>2. u \in Team
      BY <1>2, <1>6, <2>1
    <3> QED BY <1>3, <1>5, <2>1, <3>1, <3>2
  <2> QED BY <1>2, <1>4, <1>5, <2>1
<1>9. pc'[t] = "pass"
  BY <1>2, <1>3
<1> QED BY <1>1, <1>2, <1>6, <1>7, <1>8, <1>9 DEF BarrierCounts

(* When the barrier opens nobody is left in it. *)
LEMMA PassCounts ==
    ASSUME IInv, NEW t \in Team, Pass(t)
    PROVE  BarrierCounts'
<1>1. /\ pc[t] = "pass" /\ n_barrier' = n_barrier
      /\ n_barrier_passed' = n_barrier_passed + 1 /\ n_graph' = n_graph
      /\ Leave(t)
  BY DEF Pass
<1>2. Typed /\ t \in Thread /\ Team' = Team /\ Team \subseteq Thread
  BY <1>1, TeamThreads DEF IInv, Team
<1>3. /\ pc'[t] \in {"chunk", "node", "finish", "top"}
      /\ \A u \in Thread \ {t} : pc'[u] = pc[u] /\ n_passed'[u] = n_passed[u]
  <2>1. ret[t] \in {"chunk", "next", "end"}
    BY <1>1, <1>2 DEF Typed, Returns
  <2> QED BY <1>1, <1>2, <2>1, LeaveFacts
<1>4. \A u \in Team \ {t} : Held(u) /\ pc[u] = "spin"
  BY <1>1, <1>2 DEF IInv, BarrierCounts, Held
<1>5. \A u \in Thread : ~Held(u)'
  <2>1. ASSUME NEW u \in Thread, Held(u)' PROVE FALSE
    <3>1. u # t /\ pc[u] = "spin" /\ n_passed[u] = n_barrier_passed + 1
      BY <1>1, <1>3, <2>1 DEF Held
    <3>2. n_passed[u] \in Nat /\ n_barrier_passed \in Nat /\ n_passed[u] <= n_barrier_passed
      BY <1>2, <3>1 DEF Typed
    <3> QED BY <3>1, <3>2
  <2> QED BY <2>1
<1>6. \A u \in Thread : pc'[u] \notin {"arrive", "last", "pass"}
  <2>1. ASSUME NEW u \in Thread, u # t, pc[u] \in {"arrive", "last", "pass"} PROVE FALSE
    <3>1. u \in Team
      BY <2>1 DEF IInv, BarrierCounts
    <3> QED BY <1>4, <2>1, <3>1
  <2> QED BY <1>3, <2>1
<1>7. n_barrier' = Cardinality(Arrived')
  <2>1. Arrived' = {}
    BY <1>2, <1>5, <1>6 DEF Arrived
  <2>2. n_barrier = 0
    BY <1>1, <1>2 DEF IInv, BarrierCounts
  <2> QED BY <1>1, <2>1, <2>2, FS_EmptySet
<1> QED BY <1>5, <1>6, <1>7 DEF BarrierCounts

(* A step outside of the barrier, or into it, or out of it when it is open. *)
LEMMA OutsideShape ==
    ASSUME IInv, NEW t \in Thread, ComputeStep(t), ~Arrive(t), ~Last(t), ~Pass(t)
    PROVE  /\ n_barrier' = n_barrier /\ n_barrier_passed' = n_barrier_passed
           /\ pc[t] \notin {"last", "pass"} /\ pc'[t] \notin {"last", "pass", "spin"}
           /\ pc'[t] = "arrive" => n_passed'[t] = n_barrier_passed /\ n_graph.threads # 1
<1> USE DEF barrier, Goto
<1>0. Typed
  BY DEF IInv
<1>1. CASE ReadParams(t) \/ ComputeOp(t) \/ ComputeChunk(t)
  BY <1>0, <1>1 DEF ReadParams, ComputeOp, ComputeChunk, Typed
<1>2. CASE NextNode(t)
  BY <1>0, <1>2 DEF NextNode, Barrier, Typed
<1>3. CASE Convert(t) \/ AfterNode(t)
  BY <1>0, <1>3 DEF Convert, AfterNode, Barrier, Typed
<1>4. CASE Enter(t) /\ ~Leave(t)
  BY <1>0, <1>4 DEF Enter, Typed
<1>5. CASE (Enter(t) \/ Spin(t)) /\ Leave(t)
  <2>1. ret[t] \in {"chunk", "next", "end"}
    BY <1>0, <1>5 DEF Enter, Spin, Typed, Returns
  <2>2. pc'[t] \in {"chunk", "node", "finish", "top"}
    BY <1>0, <1>5, <2>1, LeaveFacts
  <2> QED BY <1>5, <2>2 DEF Enter, Spin
<1> QED BY <1>1, <1>2, <1>3, <1>4, <1>5 DEF ComputeStep, Spin

(* The steps within a graph keep the count of the barrier. *)
LEMMA BarrierCountsStep ==
    ASSUME IInv, NEW t \in Thread, ComputeStep(t)
    PROVE  BarrierCounts'
<1>0. Typed /\ BarrierCounts /\ n_graph' = n_graph
  BY GraphKept DEF IInv
<1>1. ~Released(t, "end") => Busy(t)
  BY Stepping DEF Busy
<1>2. CASE Arrive(t) \/ Last(t) \/ Pass(t)
  <2>1. t \in Team
    BY <1>1, <1>2, Working DEF Released, Arrive, Last, Pass
  <2> QED BY <1>2, <2>1, ArriveCounts, LastCounts, PassCounts
<1>3. CASE ~Arrive(t) /\ ~Last(t) /\ ~Pass(t)
  <2>1. \A u \in Thread : u # t => pc'[u] = pc[u] /\ n_passed'[u] = n_passed[u]
    BY <1>0, OnlyActor DEF Same
  <2>2. ASSUME pc'[t] = "arrive" PROVE t \in Team /\ n_graph.threads > 1
    <3>1. ~Released(t, "end")
      BY <1>0, <2>2, StaysBusy DEF Computing
    <3>2. t \in Team /\ n_graph.threads > 0 /\ n_graph.threads \in Nat
      BY <1>0, <1>1, <3>1, Working, TeamThreads
    <3>3. n_graph.threads # 1
      BY <1>3, <2>2, OutsideShape
    <3> QED BY <3>2, <3>3
  <2>3. ~Held(t)
    BY Stepping
  <2> QED BY <1>0, <1>3, <2>1, <2>2, <2>3, OutsideShape, BarrierOutside
<1> QED BY <1>2, <1>3

-----------------------------------------------------------------------------
(* Who takes part.                                                          *)

(* The barrier never closes behind a thread that was let go. *)
LEMMA PassedGrows ==
    ASSUME Typed, NEW t \in Thread, ComputeStep(t)
    PROVE  /\ n_barrier_passed' \in Nat /\ n_barrier_passed' >= n_barrier_passed
           /\ \A u \in Thread \ {t}, r \in Returns : Released(u, r) => Released(u, r)'
           /\ \A u \in Thread \ {t} : Away(u) => Away(u)'
<1>1. n_barrier_passed \in Nat
  BY DEF Typed
<1>2. n_barrier_passed' \in Nat /\ n_barrier_passed' >= n_barrier_passed
  BY <1>1 DEF ComputeStep, barrier, ReadParams, NextNode, ComputeOp, Convert, ComputeChunk,
              AfterNode, Enter, Arrive, Last, Pass, Spin
<1>3. ASSUME NEW u \in Thread \ {t}, NEW r \in Returns, Released(u, r) PROVE Released(u, r)'
  <2>1. Same(u) /\ n_passed[u] \in Nat
    BY OnlyActor DEF Typed
  <2> QED BY <1>1, <1>2, <1>3, <2>1 DEF Same, Released
<1>4. ASSUME NEW u \in Thread \ {t}, Away(u) PROVE Away(u)'
  <2>1. Same(u)
    BY OnlyActor
  <2>2. Released(u, "end") => Released(u, "end")'
    BY <1>3 DEF Returns
  <2> QED BY <1>4, <2>1, <2>2 DEF Same, Away
<1> QED BY <1>2, <1>3, <1>4

(* The steps within a graph leave every busy thread with the graph's number *)
(* of threads.                                                              *)
LEMMA EngagedCompute ==
    ASSUME IInv, NEW t \in Thread, ComputeStep(t)
    PROVE  Engaged'
<1>0. Typed /\ Engaged /\ n_graph' = n_graph /\ "end" \in Returns
  BY GraphKept DEF IInv, Returns
<1>1. SUFFICES ASSUME NEW u \in Thread, Busy(u)'
               PROVE  /\ u # 0 => last_graph'[u] = n_graph
                      /\ pc'[u] # "start" => nth'[u] = n_graph.threads
  BY <1>0 DEF Engaged
<1>2. CASE u # t
  <2>1. Same(u)
    BY <1>0, <1>2, OnlyActor
  <2>2. Busy(u)
    BY <1>0, <1>1, <1>2, <2>1, PassedGrows DEF Busy, Same
  <2> QED BY <1>0, <2>1, <2>2 DEF Engaged, Same
<1>3. CASE u = t
  <2>1. pc[t] \in Computing /\ pc'[t] \in Computing
    BY <1>1, <1>3, Stepping DEF Busy
  <2>2. Busy(t) /\ pc'[t] # "start" /\ nth'[t] = IF pc[t] = "start" THEN n_graph.threads ELSE nth[t]
    BY <1>0, <2>1, StaysBusy DEF Busy
  <2>3. last_graph' = last_graph
    BY DEF ComputeStep, ReadParams, NextNode, ComputeOp, Convert, ComputeChunk,
           AfterNode, Enter, Arrive, Last, Pass, Spin
  <2> QED BY <1>0, <1>3, <2>2, <2>3 DEF Engaged
<1> QED BY <1>2, <1>3

(* A thread that was let go from the last barrier leaves the graph. *)
LEMMA LetGo ==
    ASSUME Typed, NEW t \in Thread, ComputeStep(t), Released(t, "end")
    PROVE  /\ Spin(t) /\ pc'[t] = (IF t = 0 THEN "finish" ELSE "top") /\ node'[t] = node[t]
           /\ Away(t) => Away(t)'
<1>1. Spin(t)
  BY DEF Released, ComputeStep, ReadParams, NextNode, ComputeOp, Convert, ComputeChunk,
         AfterNode, Enter, Arrive, Last, Pass
<1>2. pc'[t] = (IF t = 0 THEN "finish" ELSE "top") /\ node'[t] = node[t]
  BY <1>1, LeaveFacts DEF Spin, Released
<1> QED BY <1>1, <1>2 DEF Away

(* The steps within a graph leave the workers alone that take no part in    *)
(* it.                                                                      *)
LEMMA OthersCompute ==
    ASSUME IInv, NEW t \in Thread, ComputeStep(t)
    PROVE  Others'
<1>0. Typed /\ Others /\ Team' = Team
  BY GraphKept DEF IInv, Team
<1>1. ASSUME NEW u \in Thread \ Team, u # 0 PROVE Away(u)'
  <2>1. Away(u)
    BY <1>0, <1>1 DEF Others
  <2>2. CASE u # t
    BY <1>0, <2>1, <2>2, PassedGrows
  <2>3. CASE u = t
    <3>1. Released(t, "end")
      BY <2>3, Stepping, Working DEF Busy
    <3> QED BY <1>0, <2>1, <2>3, <3>1, LetGo
  <2> QED BY <2>2, <2>3
<1> QED BY <1>0, <1>1 DEF Others

-----------------------------------------------------------------------------
(* The nodes of a stretch.                                                  *)

(* The first node for which there is something to do. *)
LEMMA FirstWork ==
    ASSUME Typed, NEW k \in Nat, NEW j, NEW K, "empty" \notin K, At(k, j, K)
    PROVE  /\ j \in k .. Len(Nodes) - 1
           /\ \A x : Skipped(k, x) => x <= j
           /\ \A i, L : "empty" \notin L /\ At(k, i, L) => i = j
           /\ ~Stops(k)
           /\ \A i \in k .. j - 1 : Kind(i) = "empty"
           /\ abort >= k => abort > j
<1>1. Len(Nodes) \in Nat /\ abort \in Int
  BY NodesType DEF Typed
<1>2. j \in k .. Len(Nodes) - 1 /\ Skipped(k, j) /\ j # abort /\ Kind(j) # "empty"
  BY <1>1 DEF At, Skipped
<1>3. ASSUME NEW x, Skipped(k, x) PROVE x <= j
  <2>1. x \in Int /\ \A i \in k .. x - 1 : Kind(i) = "empty"
    BY <1>1, <1>3 DEF Skipped
  <2>2. SUFFICES ASSUME x > j PROVE FALSE
    BY <1>2, <2>1
  <2>3. j \in k .. x - 1
    BY <1>2, <2>1, <2>2
  <2> QED BY <1>2, <2>1, <2>3
<1>4. ASSUME NEW i, NEW L, "empty" \notin L, At(k, i, L) PROVE i = j
  <2>1. i \in k .. Len(Nodes) - 1 /\ Skipped(k, i) /\ Kind(i) # "empty"
    BY <1>1, <1>4 DEF At, Skipped
  <2>2. i <= j
    BY <1>3, <2>1
  <2>3. SUFFICES ASSUME i < j PROVE FALSE
    BY <1>2, <2>1, <2>2
  <2>4. i \in k .. j - 1
    BY <1>2, <2>1, <2>3
  <2> QED BY <1>2, <2>1, <2>4 DEF Skipped
<1>5. ASSUME NEW x \in k .. Len(Nodes), Skipped(k, x), x = Len(Nodes) \/ x = abort PROVE FALSE
  <2>1. x <= j
    BY <1>3, <1>5
  <2>2. x = abort /\ x < j
    BY <1>1, <1>2, <1>5, <2>1
  <2>3. x \in k .. j - 1
    BY <1>1, <1>2, <2>2
  <2> QED BY <1>2, <2>2, <2>3 DEF Skipped
<1>6. ASSUME abort >= k PROVE abort > j
  <2>1. SUFFICES ASSUME abort < j PROVE FALSE
    BY <1>1, <1>2
  <2>2. abort \in k .. j - 1
    BY <1>1, <1>2, <1>6, <2>1
  <2> QED BY <1>2, <2>2 DEF Skipped
<1> QED BY <1>2, <1>3, <1>4, <1>5, <1>6 DEF Skipped, Stops

(* To abort behind the operation that the stretch ends with changes nothing *)
(* of what is to be done in it.                                             *)
LEMMA AbortBehind ==
    ASSUME Typed, NEW k \in Nat, cplan' = cplan,
           abort' = abort \/ \E j : At(k, j, {"op"}) /\ abort' = j + 1
    PROVE  /\ \A x : Skipped(k, x) => Skipped(k, x)'
           /\ \A x, K : "empty" \notin K /\ At(k, x, K) => At(k, x, K)'
           /\ Stops(k) => Stops(k)'
<1>1. Len(Nodes) \in Nat /\ Nodes' = Nodes
  BY NodesType DEF Nodes
<1>2. CASE abort' = abort
  <2>1. \A x : Skipped(k, x) => Skipped(k, x)'
    BY <1>1, <1>2 DEF Skipped, Kind
  <2> QED BY <1>1, <1>2, <2>1 DEF At, Stops, Kind
<1>3. CASE \E j : At(k, j, {"op"}) /\ abort' = j + 1
  <2>1. PICK j : At(k, j, {"op"}) /\ abort' = j + 1
    BY <1>3
  <2>2. j \in k .. Len(Nodes) - 1 /\ (\A x : Skipped(k, x) => x <= j) /\ ~Stops(k)
        /\ \A i, L : "empty" \notin L /\ At(k, i, L) => i = j
    BY <2>1, FirstWork
  <2>3. ASSUME NEW x, Skipped(k, x) PROVE Skipped(k, x)'
    <3>1. x \in k .. Len(Nodes) /\ x <= j /\ \A i \in k .. x - 1 : Kind(i) = "empty"
      BY <2>2, <2>3 DEF Skipped
    <3>2. \A i \in k .. x - 1 : i # abort'
      BY <2>1, <2>2, <3>1
    <3> QED BY <1>1, <3>1, <3>2 DEF Skipped, Kind
  <2>4. ASSUME NEW x, NEW K, "empty" \notin K, At(k, x, K) PROVE At(k, x, K)'
    <3>1. x = j /\ Skipped(k, x)'
      BY <2>2, <2>3, <2>4 DEF At
    <3>2. x # abort'
      BY <2>1, <2>2, <3>1
    <3> QED BY <1>1, <2>4, <3>1, <3>2 DEF At, Kind
  <2> QED BY <2>2, <2>3, <2>4
<1> QED BY <1>2, <1>3

(* What a thread of the team has done in a stretch stays done while others  *)
(* go on.                                                                   *)
LEMMA AheadFrame ==
    ASSUME Typed, NEW k \in 0 .. Len(Nodes), NEW u \in Thread, InAhead(u, k), Same(u),
           cplan' = cplan, n_graph' = n_graph,
           abort' = abort \/ \E j : At(k, j, {"op"}) /\ abort' = j + 1,
           n_barrier_passed' = n_barrier_passed,
           \A i \in 0 .. Len(Nodes) - 1 : out[i] \subseteq out'[i],
           u = 0 => current_chunk' = current_chunk
    PROVE  InAhead(u, k)'
<1>1. k \in Nat /\ Nodes' = Nodes /\ Len(Nodes) \in Nat
  BY NodesType DEF Nodes
<1>2. /\ \A x : Skipped(k, x) => Skipped(k, x)'
      /\ \A x, K : "empty" \notin K /\ At(k, x, K) => At(k, x, K)'
      /\ Stops(k) => Stops(k)'
  BY <1>1, AbortBehind
<1>3. \A x : DidOp(u, k, x) => DidOp(u, k, x)'
  <2>1. ASSUME NEW x, DidOp(u, k, x) PROVE DidOp(u, k, x)'
    <3>1. At(k, x, {"op"})' /\ x \in k .. Len(Nodes) - 1 /\ u \in out[x]
      BY <1>1, <1>2, <2>1, FirstWork DEF DidOp
    <3>2. x \in 0 .. Len(Nodes) - 1
      BY <1>1, <3>1
    <3> QED BY <3>1, <3>2 DEF DidOp
  <2> QED BY <2>1
<1>4. /\ Held(u)' <=> Held(u)
      /\ \A r : Released(u, r)' <=> Released(u, r)
      /\ \A r : AtBarrier(u, r)' <=> AtBarrier(u, r)
      /\ Away(u)' <=> Away(u)
  BY DEF Same, Held, Released, AtBarrier, Away
<1>5. pc'[u] = pc[u] /\ node'[u] = node[u] /\ wdata'[u] = wdata[u]
  BY DEF Same
<1>6. PICK j \in 0 .. Len(Nodes) : node[u] = j /\ Doing(u, k, j)
  BY DEF InAhead
<1>7. \A x : At(k, x, Products) => At(k, x, Products)'
  BY <1>2 DEF Products
<1>8. \A x : At(k, x, {"op"}) => At(k, x, {"op"})'
  BY <1>2
<1>9. Doing(u, k, j)'
  BY <1>1, <1>2, <1>3, <1>4, <1>5, <1>6, <1>7, <1>8 DEF Doing
<1> QED BY <1>1, <1>5, <1>6, <1>9 DEF InAhead

(* The stretch goes on when the thread that steps stays in it, and computes *)
(* nothing or its part of the operation.                                    *)
LEMMA AheadKept ==
    ASSUME Typed, NEW k \in 0 .. Len(Nodes), Ahead(k), NEW t \in Thread,
           t \in Team => InAhead(t, k)',
           \A u \in Thread \ {t} : Same(u),
           cplan' = cplan, n_graph' = n_graph, n_barrier_passed' = n_barrier_passed,
           abort' = abort \/ \E j : At(k, j, {"op"}) /\ abort' = j + 1,
           current_chunk' = current_chunk \/ t = 0,
           \A i \in 0 .. Len(Nodes) - 1 :
              out'[i] = out[i] \/ (At(k, i, {"op"}) /\ t \in Team /\ out'[i] = out[i] \cup {t})
    PROVE  Ahead(k)'
<1>0. abort \in Int
  BY DEF Typed
<1>1. k \in Nat /\ Len(Nodes) \in Nat /\ Nodes' = Nodes /\ Team' = Team /\ Team \subseteq Thread
  BY NodesType, TeamThreads DEF Nodes, Team
<1>2. /\ abort' = -1 \/ abort' >= k
      /\ \A x : At(k, x, {"op"}) => At(k, x, {"op"})'
  <2>1. abort = -1 \/ abort >= k
    BY DEF Ahead
  <2>2. \A j : At(k, j, {"op"}) => j \in k .. Len(Nodes) - 1
    BY <1>1, FirstWork
  <2>3. abort' = -1 \/ abort' >= k
    BY <1>0, <1>1, <2>1, <2>2
  <2> QED BY <1>1, <2>3, AbortBehind
<1>3. ASSUME NEW i \in 0 .. k - 1 PROVE Complete(i)'
  <2>1. Complete(i) /\ i \in 0 .. Len(Nodes) - 1 /\ ~At(k, i, {"op"})
    BY <1>1, FirstWork DEF Ahead
  <2>2. out'[i] = out[i]
    BY <2>1
  <2> QED BY <1>1, <2>1, <2>2 DEF Complete, Parts, Kind
<1>4. ASSUME NEW i \in k .. Len(Nodes) - 1, out'[i] # {}
      PROVE  At(k, i, {"op"})' /\ out'[i] \subseteq Team
  <2>1. i \in 0 .. Len(Nodes) - 1
    BY <1>1
  <2>2. At(k, i, {"op"})
    BY <1>4, <2>1 DEF Ahead
  <2>3. out[i] \subseteq Team
    BY DEF Ahead
  <2> QED BY <1>2, <2>1, <2>2, <2>3
<1>5. ASSUME NEW u \in Team PROVE InAhead(u, k)'
  <2>1. CASE u = t
    BY <2>1
  <2>2. CASE u # t
    <3>1. u \in Thread /\ InAhead(u, k) /\ Same(u)
      BY <1>1, <2>2 DEF Ahead
    <3>2. \A i \in 0 .. Len(Nodes) - 1 : out[i] \subseteq out'[i]
      OBVIOUS
    <3>3. u = 0 => current_chunk' = current_chunk
      BY <2>2
    <3> QED BY <3>1, <3>2, <3>3, AheadFrame
  <2> QED BY <2>1, <2>2
<1> QED BY <1>1, <1>2, <1>3, <1>4, <1>5 DEF Ahead

(* A stretch begins at its first node. *)
LEMMA StretchBegins ==
    ASSUME NEW k \in 0 .. Len(Nodes), Len(Nodes) \in Nat
    PROVE  Skipped(k, k)
BY DEF Skipped

(* What the thread does, by where it is. *)
LEMMA AheadAt ==
    ASSUME Typed, NEW k \in Nat, NEW t \in Thread, NEW j \in Nat, Doing(t, k, j), Busy(t)
    PROVE  /\ pc[t] = "start" => k = 0 /\ j = 0
           /\ pc[t] = "node" => Skipped(k, j) \/ (j = Len(Nodes) /\ DidOp(t, k, j - 1))
           /\ pc[t] = "op" => At(k, j, {"op"})
           /\ pc[t] = "after" => DidOp(t, k, j)
           /\ pc[t] = "convert" => At(k, j, Products)
           /\ pc[t] # "chunk"
           /\ Released(t, "next") => j + 1 = k
           /\ ~Released(t, "chunk")
           /\ AtBarrier(t, "next") => DidOp(t, k, j) /\ j + 1 < Len(Nodes)
           /\ AtBarrier(t, "end") => j = 0 /\ (Stops(k) \/ DidOp(t, k, Len(Nodes) - 1))
           /\ AtBarrier(t, "chunk") => At(k, j, Products) /\ wdata[t] = j
                                       /\ (t = 0 => current_chunk = n_graph.threads)
<1>1. ~Away(t)
  BY DEF Busy, Away, Computing
<1>2. \A r, q : /\ AtBarrier(t, r) => ~Released(t, q) /\ pc[t] \in {"enter", "arrive", "last", "pass", "spin"}
                /\ AtBarrier(t, r) /\ AtBarrier(t, q) => r = q
                /\ Released(t, r) => pc[t] = "spin"
                /\ Released(t, r) /\ Released(t, q) => r = q
  BY DEF AtBarrier, Released, Held, Typed
<1>3. CASE pc[t] \in {"start", "node", "op", "after", "convert", "chunk"}
  BY <1>1, <1>2, <1>3 DEF Doing
<1>4. CASE pc[t] \notin {"start", "node", "op", "after", "convert", "chunk"}
  BY <1>1, <1>2, <1>4 DEF Doing
<1> QED BY <1>3, <1>4

(* A thread that goes on to its next node or does its part of an operation  *)
(* stays within the stretch.                                                *)
LEMMA AheadMoves ==
    ASSUME IInv, NEW k \in 0 .. Len(Nodes), Ahead(k), NEW t \in Team, Busy(t),
           ReadParams(t) \/ NextNode(t) \/ ComputeOp(t) \/ Convert(t) \/ AfterNode(t)
    PROVE  Ahead(k)'
<1>1. Typed /\ Typed' /\ ComputeStep(t)
  <2>1. ComputeStep(t)
    BY DEF ComputeStep
  <2> QED BY <2>1, TeamThreads, TypedCompute DEF IInv
<1>2. /\ k \in Nat /\ Len(Nodes) \in Nat /\ Nodes' = Nodes /\ t \in Thread
      /\ cplan' = cplan /\ n_graph' = n_graph /\ \A u \in Thread \ {t} : Same(u)
  BY <1>1, NodesType, TeamThreads, GraphKept, OnlyActor DEF Nodes
<1>3. PICK j \in 0 .. Len(Nodes) : node[t] = j /\ Doing(t, k, j)
  BY DEF Ahead, InAhead
<1>4. j \in Nat
  BY <1>2
<1>5. n_barrier_passed' = n_barrier_passed
  BY DEF ReadParams, NextNode, ComputeOp, Convert, AfterNode, barrier
<1>6. /\ \A x : Skipped(k, x)' <=> x \in k .. Len(Nodes) /\ \A i \in k .. x - 1 : Kind(i) = "empty" /\ i # abort'
      /\ \A x, K : At(k, x, K)' <=> Skipped(k, x)' /\ x < Len(Nodes) /\ x # abort' /\ Kind(x) \in K
  BY <1>2 DEF Skipped, At, Kind
<1>7. CASE ReadParams(t)
  <2>1. k = 0 /\ j = 0 /\ pc'[t] = "node" /\ node'[t] = j
    <3>1. k = 0 /\ j = 0
      BY <1>1, <1>2, <1>3, <1>4, <1>7, AheadAt DEF ReadParams
    <3> QED BY <1>1, <1>2, <1>3, <1>7, <3>1 DEF ReadParams, Goto, Typed
  <2>2. Skipped(k, j)'
    BY <1>2, <1>6, <2>1
  <2>3. InAhead(t, k)'
    BY <1>2, <2>1, <2>2 DEF InAhead, Doing
  <2>4. abort' = abort /\ current_chunk' = current_chunk /\ out' = out
    BY <1>7 DEF ReadParams, shared
  <2> QED BY <1>1, <1>2, <1>5, <2>3, <2>4, AheadKept
<1>8. CASE NextNode(t)
  <2>1. abort' = abort /\ current_chunk' = current_chunk /\ out' = out
    BY <1>8 DEF NextNode, shared
  <2>2. Skipped(k, j) \/ (j = Len(Nodes) /\ DidOp(t, k, j - 1))
    BY <1>1, <1>2, <1>3, <1>4, <1>8, AheadAt DEF NextNode
  <2>3. CASE j >= Len(Nodes) \/ abort = j
    <3>1. /\ pc'[t] = "enter" /\ ret'[t] = "end" /\ node'[t] = 0
      BY <1>1, <1>2, <1>3, <1>8, <2>3 DEF NextNode, Barrier, Goto, Typed
    <3>2. Stops(k)' \/ DidOp(t, k, Len(Nodes) - 1)'
      <4>1. CASE Skipped(k, j)
        <5>1. j \in k .. Len(Nodes) /\ (j = Len(Nodes) \/ j = abort)
          BY <1>2, <1>4, <2>3, <4>1 DEF Skipped
        <5>2. Skipped(k, j)'
          BY <1>6, <2>1, <4>1 DEF Skipped
        <5> QED BY <1>2, <2>1, <5>1, <5>2 DEF Stops
      <4>2. CASE j = Len(Nodes) /\ DidOp(t, k, j - 1)
        <5>1. PICK x \in Int : x = j - 1
          BY <1>4
        <5>2. DidOp(t, k, x) /\ x = Len(Nodes') - 1
          BY <1>2, <4>2, <5>1
        <5>3. At(k, x, {"op"})'
          BY <1>1, <1>2, <2>1, <5>2, AbortBehind DEF DidOp
        <5>4. DidOp(t, k, x)'
          BY <2>1, <5>2, <5>3 DEF DidOp
        <5> QED BY <5>2, <5>4 DEF DidOp, At, Skipped, Kind
      <4> QED BY <2>2, <4>1, <4>2
    <3>3. AtBarrier(t, "end")'
      BY <3>1 DEF AtBarrier
    <3>4. InAhead(t, k)'
      BY <1>2, <3>1, <3>2, <3>3 DEF InAhead, Doing
    <3> QED BY <1>1, <1>2, <1>5, <2>1, <3>4, AheadKept
  <2>4. CASE ~(j >= Len(Nodes) \/ abort = j)
    <3>1. Skipped(k, j) /\ j < Len(Nodes)
      BY <1>2, <1>4, <2>2, <2>4
    <3>2. Kind(j) \in Kinds
      <4>1. j \in 0 .. Len(Nodes) - 1
        BY <1>2, <1>4, <3>1
      <4> QED BY <1>1, <4>1, NodesType
    <3>3. CASE Kind(j) = "empty"
      <4>1. pc'[t] = "node" /\ node'[t] = j + 1
        BY <1>1, <1>2, <1>3, <1>8, <2>4, <3>3 DEF NextNode, Typed
      <4>2. Skipped(k, j + 1)'
        <5>1. j + 1 \in k .. Len(Nodes)
          BY <1>2, <1>4, <3>1 DEF Skipped
        <5>2. \A i \in k .. j : Kind(i) = "empty" /\ i # abort'
          BY <1>2, <1>4, <2>1, <2>4, <3>1, <3>3 DEF Skipped
        <5> QED BY <1>4, <1>6, <5>1, <5>2
      <4>3. InAhead(t, k)'
        <5>1. j + 1 \in 0 .. Len(Nodes)
          BY <1>2, <1>4, <3>1
        <5> QED BY <1>2, <4>1, <4>2, <5>1 DEF InAhead, Doing
      <4> QED BY <1>1, <1>2, <1>5, <2>1, <4>3, AheadKept
    <3>4. CASE Kind(j) # "empty"
      <4>1. pc'[t] = (IF Kind(j) = "op" THEN "op" ELSE "convert") /\ node'[t] = j
        BY <1>1, <1>2, <1>3, <1>8, <2>4, <3>4 DEF NextNode, Goto, Typed
      <4>2. Skipped(k, j)' /\ Kind(j) \in {"op"} \cup Products
        BY <1>6, <2>1, <3>1, <3>2, <3>4 DEF Skipped, Kinds, Products
      <4>3. Kind(j) = "op" => At(k, j, {"op"})'
        BY <1>6, <2>1, <2>4, <3>1, <4>2
      <4>4. Kind(j) # "op" => At(k, j, Products)'
        BY <1>6, <2>1, <2>4, <3>1, <4>2 DEF Products
      <4>5. InAhead(t, k)'
        BY <1>2, <4>1, <4>3, <4>4 DEF InAhead, Doing
      <4> QED BY <1>1, <1>2, <1>5, <2>1, <4>5, AheadKept
    <3> QED BY <3>3, <3>4
  <2> QED BY <2>3, <2>4
<1>9. CASE ComputeOp(t)
  <2>1. /\ At(k, j, {"op"}) /\ pc'[t] = "after" /\ node'[t] = j
        /\ abort' = abort /\ current_chunk' = current_chunk
    BY <1>1, <1>2, <1>3, <1>4, <1>9, AheadAt DEF ComputeOp, Goto, Typed, local
  <2>2. j \in 0 .. Len(Nodes) - 1
    BY <1>2, <1>4, <2>1, FirstWork, <1>1
  <2>3. \A i \in 0 .. Len(Nodes) - 1 : out'[i] = IF i = j THEN out[i] \cup {t} ELSE out[i]
    <3>1. t \in Nat
      BY <1>2 DEF Thread
    <3> QED BY <1>1, <1>2, <1>3, <1>9, <3>1, ComputedTyped DEF ComputeOp
  <2>4. At(k, j, {"op"})'
    BY <1>6, <2>1 DEF At, Skipped
  <2>5. DidOp(t, k, j)'
    BY <2>2, <2>3, <2>4 DEF DidOp
  <2>6. InAhead(t, k)'
    BY <1>2, <2>1, <2>5 DEF InAhead, Doing
  <2> QED BY <1>1, <1>2, <1>5, <2>1, <2>3, <2>6, AheadKept
<1>10. CASE Convert(t)
  <2>1. /\ At(k, j, Products) /\ pc'[t] = "enter" /\ ret'[t] = "chunk" /\ node'[t] = j
        /\ abort' = abort /\ out' = out /\ wdata'[t] = j
        /\ current_chunk' = IF t = 0 THEN nth[t] ELSE current_chunk
    BY <1>1, <1>2, <1>3, <1>4, <1>10, AheadAt DEF Convert, Barrier, Goto, Typed, shared
  <2>2. nth[t] = n_graph.threads
    BY <1>2, <1>10 DEF IInv, Engaged, Convert
  <2>3. At(k, j, Products)'
    BY <1>6, <2>1 DEF At, Skipped
  <2>4. AtBarrier(t, "chunk")'
    BY <2>1 DEF AtBarrier
  <2>5. Doing(t, k, j)'
    BY <1>2, <2>1, <2>2, <2>3, <2>4 DEF Doing
  <2>6. InAhead(t, k)'
    BY <1>2, <2>1, <2>5 DEF InAhead
  <2> QED BY <1>1, <1>2, <1>5, <2>1, <2>6, AheadKept
<1>11. CASE AfterNode(t)
  <2>1. /\ DidOp(t, k, j) /\ current_chunk' = current_chunk /\ out' = out
        /\ abort' = abort \/ abort' = j + 1
    BY <1>1, <1>2, <1>3, <1>4, <1>11, AheadAt DEF AfterNode
  <2>2. abort' = abort \/ \E x : At(k, x, {"op"}) /\ abort' = x + 1
    BY <2>1 DEF DidOp
  <2>3. DidOp(t, k, j)'
    <3>1. At(k, j, {"op"})'
      BY <1>1, <1>2, <2>1, <2>2, AbortBehind DEF DidOp
    <3> QED BY <2>1, <3>1 DEF DidOp
  <2>4. j \in 0 .. Len(Nodes) - 1
    BY <1>1, <1>2, <1>4, <2>1, FirstWork DEF DidOp
  <2>5. CASE j + 1 < Len(Nodes)
    <3>1. pc'[t] = "enter" /\ ret'[t] = "next" /\ node'[t] = j
      BY <1>1, <1>2, <1>3, <1>11, <2>5 DEF AfterNode, Barrier, Goto, Typed
    <3>2. AtBarrier(t, "next")'
      BY <3>1 DEF AtBarrier
    <3>3. Doing(t, k, j)'
      BY <1>2, <2>3, <2>5, <3>2 DEF Doing
    <3>4. InAhead(t, k)'
      BY <1>2, <3>1, <3>3 DEF InAhead
    <3> QED BY <1>1, <1>2, <1>5, <2>1, <2>2, <3>4, AheadKept
  <2>6. CASE ~(j + 1 < Len(Nodes))
    <3>1. pc'[t] = "node" /\ node'[t] = j + 1
      BY <1>1, <1>2, <1>3, <1>11, <2>6 DEF AfterNode, Goto, Typed
    <3>2. j + 1 = Len(Nodes) /\ j + 1 - 1 = j
      BY <1>2, <2>4, <2>6
    <3>3. DidOp(t, k, j + 1 - 1)'
      BY <2>3, <3>2
    <3>4. Doing(t, k, j + 1)'
      BY <1>2, <3>1, <3>2, <3>3 DEF Doing
    <3>5. InAhead(t, k)'
      BY <1>2, <3>1, <3>2, <3>4 DEF InAhead
    <3> QED BY <1>1, <1>2, <1>5, <2>1, <2>2, <3>5, AheadKept
  <2> QED BY <2>5, <2>6
<1> QED BY <1>7, <1>8, <1>9, <1>10, <1>11

(* Within the barrier a thread keeps what it came with. *)
LEMMA BarrierStays ==
    ASSUME IInv, NEW t \in Team, (Enter(t) /\ n_graph.threads # 1) \/ Arrive(t) \/ Last(t)
    PROVE  /\ AtBarrier(t, ret[t]) /\ ret[t] \in {"chunk", "next", "end"}
           /\ \A r : AtBarrier(t, r) => AtBarrier(t, r)'
           /\ node'[t] = node[t] /\ wdata'[t] = wdata[t]
           /\ n_barrier_passed' = n_barrier_passed /\ current_chunk' = current_chunk
           /\ abort' = abort /\ out' = out /\ wdata' = wdata
           /\ ~Holding(t) /\ ~Holding(t)' /\ Busy(t)
           /\ pc[t] \in {"enter", "arrive", "last"}
<1>1. Typed /\ t \in Thread
  BY TeamThreads DEF IInv
<1>2. CASE Enter(t) /\ n_graph.threads # 1
  <2>1. pc[t] = "enter" /\ pc'[t] = "arrive" /\ node' = node /\ ret' = ret
    BY <1>1, <1>2 DEF Enter, Goto, Typed
  <2>2. /\ n_barrier_passed' = n_barrier_passed /\ current_chunk' = current_chunk
        /\ abort' = abort /\ out' = out /\ wdata' = wdata
    BY <1>2 DEF Enter, shared, barrier
  <2>3. ret[t] \in {"chunk", "next", "end"}
    BY <1>1, <2>1 DEF Typed, Returns
  <2> QED BY <2>1, <2>2, <2>3 DEF AtBarrier, Holding, Released, Busy, Computing
<1>3. CASE Arrive(t) \/ Last(t)
  <2>1. /\ pc[t] \in {"arrive", "last"} /\ node' = node /\ ret' = ret /\ n_passed' = n_passed
        /\ n_barrier_passed' = n_barrier_passed /\ current_chunk' = current_chunk
        /\ abort' = abort /\ out' = out /\ wdata' = wdata
    BY <1>3 DEF Arrive, Last, shared, local
  <2>2. pc'[t] \in {"last", "pass"} \/ (pc[t] = "arrive" /\ pc'[t] = "spin")
    BY <1>1, <1>3 DEF Arrive, Last, Goto, Typed
  <2>3. pc[t] = "arrive" => n_passed[t] = n_barrier_passed
    BY <1>1 DEF IInv, BarrierCounts
  <2>4. ret[t] \in {"chunk", "next", "end"} /\ n_barrier_passed \in Nat
    BY <1>1, <2>1 DEF Typed, Returns
  <2>5. \A r : ~Released(t, r) /\ ~Released(t, r)'
    BY <2>1, <2>2, <2>3, <2>4 DEF Released
  <2>6. Busy(t) /\ ~Holding(t) /\ ~Holding(t)'
    BY <2>1, <2>2, <2>5 DEF Busy, Computing, Holding
  <2>7. \A r : AtBarrier(t, r) => AtBarrier(t, r)'
    BY <2>1, <2>2, <2>3 DEF AtBarrier, Held
  <2> QED BY <2>1, <2>4, <2>6, <2>7 DEF AtBarrier
<1> QED BY <1>2, <1>3

(* A thread that enters a barrier, or arrives at it, stays within the       *)
(* stretch.                                                                 *)
LEMMA AheadBarrier ==
    ASSUME IInv, NEW k \in 0 .. Len(Nodes), Ahead(k), NEW t \in Team,
           (Enter(t) /\ n_graph.threads # 1) \/ Arrive(t) \/ Last(t)
    PROVE  Ahead(k)'
<1>1. Typed /\ ComputeStep(t) /\ Busy(t)
  BY BarrierStays DEF IInv, ComputeStep
<1>2. /\ k \in Nat /\ Len(Nodes) \in Nat /\ Nodes' = Nodes /\ t \in Thread
      /\ cplan' = cplan /\ n_graph' = n_graph /\ \A u \in Thread \ {t} : Same(u)
  BY <1>1, NodesType, TeamThreads, GraphKept, OnlyActor DEF Nodes
<1>3. PICK j \in 0 .. Len(Nodes) : node[t] = j /\ Doing(t, k, j)
  BY DEF Ahead, InAhead
<1>4. j \in Nat
  BY <1>2
<1>5. /\ node'[t] = j /\ n_barrier_passed' = n_barrier_passed /\ current_chunk' = current_chunk
      /\ abort' = abort /\ out' = out /\ wdata' = wdata
      /\ \A r : AtBarrier(t, r) => AtBarrier(t, r)'
  BY <1>3, BarrierStays
<1>6. /\ \A x, K : "empty" \notin K /\ At(k, x, K) => At(k, x, K)'
      /\ Stops(k) => Stops(k)'
  BY <1>1, <1>2, <1>5, AbortBehind
<1>7. /\ \A x : DidOp(t, k, x) => DidOp(t, k, x)'
      /\ \A x : At(k, x, Products) => At(k, x, Products)'
  BY <1>5, <1>6 DEF DidOp, Products
<1>8. CASE AtBarrier(t, "next")
  <2>1. DidOp(t, k, j) /\ j + 1 < Len(Nodes)
    BY <1>1, <1>2, <1>3, <1>4, <1>8, AheadAt
  <2>2. DidOp(t, k, j)' /\ AtBarrier(t, "next")'
    BY <1>5, <1>7, <1>8, <2>1
  <2>3. Doing(t, k, j)'
    BY <1>2, <2>1, <2>2 DEF Doing
  <2>4. InAhead(t, k)'
    BY <1>2, <1>5, <2>3 DEF InAhead
  <2> QED BY <1>1, <1>2, <1>5, <2>4, AheadKept
<1>9. CASE AtBarrier(t, "end")
  <2>1. j = 0 /\ (Stops(k) \/ DidOp(t, k, Len(Nodes) - 1))
    BY <1>1, <1>2, <1>3, <1>4, <1>9, AheadAt
  <2>2. AtBarrier(t, "end")'
    BY <1>5, <1>9
  <2>3. ASSUME Stops(k) PROVE Doing(t, k, j)'
    BY <1>6, <2>1, <2>2, <2>3 DEF Doing
  <2>4. ASSUME ~Stops(k) PROVE Doing(t, k, j)'
    <3>1. PICK x \in Int : x = Len(Nodes) - 1
      BY <1>2
    <3>2. DidOp(t, k, x)'
      BY <1>7, <2>1, <2>4, <3>1
    <3>3. DidOp(t, k, Len(Nodes) - 1)'
      BY <1>2, <3>1, <3>2 DEF DidOp, At, Skipped, Kind
    <3> QED BY <2>1, <2>2, <3>3 DEF Doing
  <2>5. InAhead(t, k)'
    BY <1>2, <1>5, <2>3, <2>4 DEF InAhead
  <2> QED BY <1>1, <1>2, <1>5, <2>5, AheadKept
<1>10. CASE AtBarrier(t, "chunk")
  <2>1. At(k, j, Products) /\ wdata[t] = j /\ (t = 0 => current_chunk = n_graph.threads)
    BY <1>1, <1>2, <1>3, <1>4, <1>10, AheadAt
  <2>2. At(k, j, Products)' /\ AtBarrier(t, "chunk")'
    BY <1>5, <1>7, <1>10, <2>1
  <2>3. Doing(t, k, j)'
    BY <1>2, <1>5, <2>1, <2>2 DEF Doing
  <2>4. InAhead(t, k)'
    BY <1>2, <1>5, <2>3 DEF InAhead
  <2> QED BY <1>1, <1>2, <1>5, <2>4, AheadKept
<1> QED BY <1>8, <1>9, <1>10, BarrierStays

(* A thread let go into the stretch begins it. *)
LEMMA AheadSpin ==
    ASSUME IInv, NEW k \in 0 .. Len(Nodes), Ahead(k), NEW t \in Team, Busy(t), Spin(t)
    PROVE  Ahead(k)'
<1>1. Typed /\ ComputeStep(t)
  BY DEF IInv, ComputeStep
<1>2. /\ k \in Nat /\ Len(Nodes) \in Nat /\ Nodes' = Nodes /\ t \in Thread
      /\ cplan' = cplan /\ n_graph' = n_graph /\ \A u \in Thread \ {t} : Same(u)
  BY <1>1, NodesType, TeamThreads, GraphKept, OnlyActor DEF Nodes
<1>3. PICK j \in 0 .. Len(Nodes) : node[t] = j /\ Doing(t, k, j)
  BY DEF Ahead, InAhead
<1>4. j \in Nat
  BY <1>2
<1>5. /\ n_barrier_passed' = n_barrier_passed /\ current_chunk' = current_chunk
      /\ abort' = abort /\ out' = out
  BY DEF Spin, shared, barrier
<1>6. ret[t] = "next" /\ j + 1 = k
  <2>1. ret[t] \in {"chunk", "next", "end"} /\ Released(t, ret[t])
    BY <1>1, <1>2, SpinReleased
  <2> QED BY <1>1, <1>2, <1>3, <1>4, <2>1, AheadAt DEF Busy
<1>7. pc'[t] = "node" /\ node'[t] = k
  BY <1>1, <1>2, <1>3, <1>6, LeaveFacts DEF Spin
<1>8. InAhead(t, k)'
  <2>1. Skipped(k, k)'
    BY <1>2 DEF Skipped
  <2>2. Doing(t, k, k)'
    BY <1>7, <2>1 DEF Doing
  <2> QED BY <1>2, <1>7, <2>2 DEF InAhead
<1> QED BY <1>1, <1>2, <1>5, <1>8, AheadKept

-----------------------------------------------------------------------------
(* The product.                                                             *)

(* The number of chunks of a product. *)
LEMMA PartsCounted ==
    ASSUME NEW k, NEW n \in Nat, Kind(k) \in Products
    PROVE  /\ Parts(k, n) = 0 .. (IF Kind(k) = "rows" THEN n - 1 ELSE 4 * n - 1)
           /\ Cardinality(Parts(k, n)) = IF Kind(k) = "rows" THEN n ELSE 4 * n
<1>1. Parts(k, n) = 0 .. (IF Kind(k) = "rows" THEN n - 1 ELSE 4 * n - 1)
  BY DEF Parts, Products
<1>2. 4 * n \in Nat /\ \A m \in Nat : Cardinality(0 .. m - 1) = m
  BY IntervalSize
<1> QED BY <1>1, <1>2

(* A thread that does not step keeps its place and its chunk. *)
LEMMA ProductFrame ==
    ASSUME NEW k \in Nat, NEW u \in Thread, Same(u), cplan' = cplan,
           n_barrier_passed' = n_barrier_passed
    PROVE  /\ InProduct(u, k) => InProduct(u, k)'
           /\ Holding(u)' <=> Holding(u)
           /\ Holds(u)' = Holds(u)
<1>1. /\ Held(u)' <=> Held(u)
      /\ \A r : Released(u, r)' <=> Released(u, r)
      /\ \A r : AtBarrier(u, r)' <=> AtBarrier(u, r)
  BY DEF Same, Held, Released, AtBarrier
<1>2. (Holding(u)' <=> Holding(u)) /\ Holds(u)' = Holds(u)
  BY <1>1 DEF Same, Holding, Holds
<1>3. Nodes' = Nodes
  BY DEF Nodes
<1>4. InProduct(u, k) => InProduct(u, k)'
  BY <1>1, <1>2, <1>3 DEF Same, InProduct
<1> QED BY <1>2, <1>4

(* A step that computes no chunk leaves the product as it is. *)
LEMMA ProductKept ==
    ASSUME Typed, NEW k \in 0 .. Len(Nodes), Product(k), NEW t \in Thread,
           t \in Team => /\ InProduct(t, k)' /\ (Holding(t)' <=> Holding(t))
                         /\ (Holding(t) => Holds(t)' = Holds(t)),
           \A u \in Thread \ {t} : Same(u),
           cplan' = cplan, n_graph' = n_graph, n_barrier_passed' = n_barrier_passed,
           abort' = abort \/ abort' = k + 1, current_chunk' = current_chunk,
           out' = out, wdata' = wdata
    PROVE  Product(k)'
<1>1. k \in Nat /\ Len(Nodes) \in Nat /\ Nodes' = Nodes /\ Team' = Team /\ Team \subseteq Thread
  BY NodesType, TeamThreads DEF Nodes, Team
<1>2. ASSUME NEW u \in Team
      PROVE  /\ InProduct(u, k)'
             /\ Holding(u)' <=> Holding(u)
             /\ Holding(u) => Holds(u)' = Holds(u)
  <2>1. CASE u = t
    BY <2>1
  <2>2. CASE u # t
    <3>1. u \in Thread /\ Same(u) /\ InProduct(u, k)
      BY <1>1, <2>2 DEF Product
    <3> QED BY <1>1, <3>1, ProductFrame
  <2> QED BY <2>1, <2>2
<1>3. RowsShared(k) => RowsShared(k)'
  BY <1>1, <1>2 DEF RowsShared
<1>4. Parts(k, n_graph.threads)' = Parts(k, n_graph.threads) /\ Kind(k)' = Kind(k)
  BY <1>1 DEF Parts, Kind
<1>5. ASSUME ChunksShared(k) PROVE ChunksShared(k)'
  <2>1. current_chunk' >= n_graph'.threads /\ \A c \in out'[k] : c < current_chunk'
    BY <1>5 DEF ChunksShared
  <2>2. \A u \in Team' : IF Holding(u)'
          THEN /\ Holds(u)' < current_chunk' /\ Holds(u)' \notin out'[k]
               /\ \A v \in Team' : Holding(v)' /\ Holds(v)' = Holds(u)' => v = u
          ELSE current_chunk' >= 4 * n_graph'.threads
    BY <1>1, <1>2, <1>5 DEF ChunksShared
  <2>3. \A c \in Parts(k, n_graph.threads)' : c < current_chunk' =>
          c \in out'[k] \/ \E u \in Team' : Holding(u)' /\ Holds(u)' = c
    BY <1>1, <1>2, <1>4, <1>5 DEF ChunksShared
  <2> QED BY <2>1, <2>2, <2>3 DEF ChunksShared
<1>6. \A i \in 0 .. k - 1 : Complete(i)'
  BY <1>1 DEF Product, Complete, Parts, Kind
<1>7. abort' = -1 \/ abort' > k
  BY <1>1 DEF Product
<1> QED BY <1>1, <1>2, <1>3, <1>4, <1>5, <1>6, <1>7 DEF Product

(* While a product is computed, a thread that is done with it goes on to    *)
(* the barrier behind it.                                                   *)
LEMMA ProductMoves ==
    ASSUME IInv, NEW k \in 0 .. Len(Nodes), Product(k), NEW t \in Team, Busy(t),
           \/ ReadParams(t) \/ NextNode(t) \/ ComputeOp(t) \/ Convert(t) \/ AfterNode(t)
           \/ (Enter(t) /\ n_graph.threads # 1) \/ Arrive(t) \/ Last(t) \/ Spin(t)
    PROVE  Product(k)'
<1>1. Typed /\ ComputeStep(t)
  BY DEF IInv, ComputeStep
<1>2. /\ k \in Nat /\ Len(Nodes) \in Nat /\ Nodes' = Nodes /\ t \in Thread
      /\ cplan' = cplan /\ n_graph' = n_graph /\ \A u \in Thread \ {t} : Same(u)
  BY <1>1, NodesType, TeamThreads, GraphKept, OnlyActor DEF Nodes
<1>3. InProduct(t, k)
  BY DEF Product
<1>4. CASE ReadParams(t) \/ ComputeOp(t) \/ Convert(t)
  BY <1>3, <1>4 DEF ReadParams, ComputeOp, Convert, InProduct, Holding, Released, AtBarrier, Held
<1>5. CASE NextNode(t)
  <2>1. pc[t] = "node" /\ node[t] = k + 1 /\ k + 1 = Len(Nodes)
    BY <1>3, <1>5 DEF NextNode, InProduct, Holding, Released, AtBarrier, Held
  <2>2. /\ pc'[t] = "enter" /\ ret'[t] = "end" /\ node'[t] = 0
        /\ abort' = abort /\ current_chunk' = current_chunk /\ out' = out /\ wdata' = wdata
        /\ n_barrier_passed' = n_barrier_passed
    BY <1>1, <1>2, <1>5, <2>1 DEF NextNode, Barrier, Goto, Typed, shared, barrier
  <2>3. InProduct(t, k)' /\ ~Holding(t) /\ ~Holding(t)'
    BY <1>2, <2>1, <2>2 DEF InProduct, AtBarrier, Holding, Released
  <2> QED BY <1>1, <1>2, <2>2, <2>3, ProductKept
<1>6. CASE AfterNode(t)
  <2>1. pc[t] = "after" /\ node[t] = k
    BY <1>3, <1>6 DEF AfterNode, InProduct, Holding, Released, AtBarrier, Held
  <2>2. /\ abort' = abort \/ abort' = k + 1
        /\ current_chunk' = current_chunk /\ out' = out /\ wdata' = wdata
        /\ n_barrier_passed' = n_barrier_passed
    BY <1>6, <2>1 DEF AfterNode, barrier
  <2>3. CASE k + 1 < Len(Nodes)
    <3>1. pc'[t] = "enter" /\ ret'[t] = "next" /\ node'[t] = k
      BY <1>1, <1>2, <1>6, <2>1, <2>3 DEF AfterNode, Barrier, Goto, Typed
    <3>2. InProduct(t, k)' /\ ~Holding(t) /\ ~Holding(t)'
      BY <1>2, <2>1, <2>3, <3>1 DEF InProduct, AtBarrier, Holding, Released
    <3> QED BY <1>1, <1>2, <2>2, <3>2, ProductKept
  <2>4. CASE ~(k + 1 < Len(Nodes))
    <3>1. pc'[t] = "node" /\ node'[t] = k + 1
      BY <1>1, <1>2, <1>6, <2>1, <2>4 DEF AfterNode, Goto, Typed
    <3>2. k + 1 = Len(Nodes)
      BY <1>2, <2>4 DEF Product
    <3>3. InProduct(t, k)' /\ ~Holding(t) /\ ~Holding(t)'
      BY <1>2, <2>1, <3>1, <3>2 DEF InProduct, Holding, Released
    <3> QED BY <1>1, <1>2, <2>2, <3>3, ProductKept
  <2> QED BY <2>3, <2>4
<1>7. CASE (Enter(t) /\ n_graph.threads # 1) \/ Arrive(t) \/ Last(t)
  <2>1. /\ AtBarrier(t, ret[t]) /\ ret[t] \in {"chunk", "next", "end"}
        /\ \A r : AtBarrier(t, r) => AtBarrier(t, r)'
        /\ node'[t] = node[t] /\ pc[t] \in {"enter", "arrive", "last"}
        /\ ~Holding(t) /\ ~Holding(t)'
    BY <1>7, BarrierStays
  <2>2. /\ n_barrier_passed' = n_barrier_passed /\ current_chunk' = current_chunk
        /\ abort' = abort /\ out' = out /\ wdata' = wdata
    BY <1>7, BarrierStays
  <2>3. \/ AtBarrier(t, "next") /\ node[t] = k /\ k + 1 < Len(Nodes)
        \/ AtBarrier(t, "end") /\ node[t] = 0 /\ k + 1 = Len(Nodes)
    BY <1>3, <2>1 DEF InProduct
  <2>4. InProduct(t, k)'
    BY <1>2, <2>1, <2>3 DEF InProduct
  <2> QED BY <1>1, <1>2, <2>1, <2>2, <2>4, ProductKept
<1>8. CASE Spin(t)
  <2>1. ~Held(t) /\ Released(t, ret[t]) /\ ret[t] \in {"chunk", "next", "end"}
    BY <1>1, <1>2, <1>8, SpinReleased
  <2>2. ret[t] = "chunk" /\ Holding(t) /\ node[t] = k
    BY <1>3, <1>8, <2>1 DEF Spin, InProduct, Holding, Released, AtBarrier
  <2>3. pc'[t] = "chunk" /\ node'[t] = k /\ chunk'[t] = t /\ ret'[t] = "none"
    BY <1>1, <1>2, <1>8, <2>2, LeaveFacts DEF Spin
  <2>4. InProduct(t, k)' /\ Holding(t)' /\ Holds(t)' = Holds(t)
    BY <2>2, <2>3 DEF InProduct, Holding, Holds
  <2>5. /\ n_barrier_passed' = n_barrier_passed /\ current_chunk' = current_chunk
        /\ abort' = abort /\ out' = out /\ wdata' = wdata
    BY <1>8 DEF Spin, shared, barrier
  <2> QED BY <1>1, <1>2, <2>2, <2>4, <2>5, ProductKept
<1> QED BY <1>4, <1>5, <1>6, <1>7, <1>8

(* A chunk is computed by the one thread that holds it; the thread takes    *)
(* the next from the counter, or stops when there are none left.            *)
LEMMA ProductChunk ==
    ASSUME IInv, NEW k \in 0 .. Len(Nodes), Product(k), NEW t \in Team, Busy(t), ComputeChunk(t)
    PROVE  Product(k)'
<1>1. Typed /\ ComputeStep(t)
  BY DEF IInv, ComputeStep
<1>2. /\ k \in Nat /\ Len(Nodes) \in Nat /\ Nodes' = Nodes /\ t \in Thread /\ Team' = Team
      /\ cplan' = cplan /\ n_graph' = n_graph /\ \A u \in Thread \ {t} : Same(u)
      /\ Team \subseteq Thread /\ n_graph.threads \in Nat /\ k \in 0 .. Len(Nodes) - 1
  BY <1>1, NodesType, TeamThreads, GraphKept, OnlyActor DEF Nodes, Team, Product
<1>3. pc[t] = "chunk" /\ node[t] = k /\ nth[t] = n_graph.threads /\ ret[t] = "none"
  <2>1. pc[t] = "chunk"
    BY DEF ComputeChunk
  <2>2. InProduct(t, k)
    BY DEF Product
  <2>3. node[t] = k
    BY <2>1, <2>2 DEF InProduct, Released, AtBarrier, Held
  <2>4. nth[t] = n_graph.threads
    BY <1>2, <2>1 DEF IInv, Engaged
  <2>5. ret[t] = "none"
    BY <1>1, <1>2, <2>1 DEF Typed
  <2> QED BY <2>1, <2>3, <2>4, <2>5
<1>4. Holding(t) /\ Holds(t) = chunk[t] /\ chunk[t] \in Nat /\ current_chunk \in Nat
  BY <1>1, <1>2, <1>3 DEF Holding, Holds, Typed
<1>5. /\ n_barrier_passed' = n_barrier_passed /\ abort' = abort /\ wdata' = wdata
      /\ node' = node /\ ret' = ret
  BY DEF ComputeChunk, barrier
<1>6. \A u \in Team \ {t} : /\ InProduct(u, k)' /\ (Holding(u)' <=> Holding(u))
                            /\ Holds(u)' = Holds(u)
  BY <1>2, <1>5, ProductFrame DEF Product
<1>7. n_graph.threads > 0
  BY <1>2 DEF Team
<1>8. Kind(k) \in Products
  BY DEF Product, Products
<1> DEFINE n == n_graph.threads
           nchunk == Cardinality(Parts(k, n))
<1>9. /\ Parts(k, n) = 0 .. nchunk - 1
      /\ nchunk = IF Kind(k) = "rows" THEN n ELSE 4 * n
  BY <1>2, <1>8, PartsCounted
<1>10. \/ /\ chunk[t] >= nchunk /\ pc' = [pc EXCEPT ![t] = "after"]
          /\ out' = out /\ chunk' = chunk /\ current_chunk' = current_chunk
       \/ /\ chunk[t] < nchunk /\ Computed(t, chunk[t]) /\ n >= nchunk
          /\ pc' = [pc EXCEPT ![t] = "after"] /\ chunk' = chunk /\ current_chunk' = current_chunk
       \/ /\ chunk[t] < nchunk /\ Computed(t, chunk[t]) /\ n < nchunk
          /\ pc' = pc /\ chunk' = [chunk EXCEPT ![t] = current_chunk]
          /\ current_chunk' = current_chunk + 1
  <2>1. nchunk \in Nat
    BY <1>2, <1>9
  <2>2. nchunk = Cardinality(Parts(node[t], nth[t])) /\ n = nth[t]
    BY <1>3
  <2> HIDE DEF nchunk, n
  <2>3. \/ chunk[t] >= nchunk /\ Goto(t, "after") /\ UNCHANGED <<out, chunk, current_chunk>>
        \/ /\ ~(chunk[t] >= nchunk) /\ Computed(t, chunk[t])
           /\ n >= nchunk /\ Goto(t, "after") /\ UNCHANGED <<chunk, current_chunk>>
        \/ /\ ~(chunk[t] >= nchunk) /\ Computed(t, chunk[t]) /\ ~(n >= nchunk)
           /\ chunk' = [chunk EXCEPT ![t] = current_chunk] /\ current_chunk' = current_chunk + 1
           /\ UNCHANGED pc
    BY <2>2 DEF ComputeChunk
  <2>4. n \in Nat
    BY <1>2 DEF n
  <2> QED BY <1>4, <2>1, <2>3, <2>4 DEF Goto
<1>11. Computed(t, chunk[t]) =>
          \A i \in 0 .. Len(Nodes) - 1 : out'[i] = IF i = k THEN out[i] \cup {chunk[t]} ELSE out[i]
  BY <1>1, <1>2, <1>3, <1>4, ComputedTyped
<1>12. /\ \A i \in 0 .. Len(Nodes) - 1 : i # k => out'[i] = out[i]
       /\ out'[k] = IF chunk[t] < nchunk THEN out[k] \cup {chunk[t]} ELSE out[k]
  <2>1. nchunk \in Nat
    BY <1>2, <1>9
  <2> HIDE DEF nchunk
  <2>2. CASE chunk[t] < nchunk
    <3>1. Computed(t, chunk[t])
      BY <1>4, <1>10, <2>1, <2>2
    <3> QED BY <1>2, <1>11, <2>2, <3>1
  <2>3. CASE ~(chunk[t] < nchunk)
    <3>1. out' = out
      BY <1>10, <2>3
    <3> QED BY <2>3, <3>1
  <2> QED BY <2>2, <2>3
<1>13. \A i \in 0 .. k - 1 : Complete(i)'
  <2>1. ASSUME NEW i \in 0 .. k - 1 PROVE Complete(i)'
    <3>1. Complete(i) /\ i \in 0 .. Len(Nodes) - 1 /\ i # k
      BY <1>2 DEF Product
    <3> QED BY <1>2, <1>12, <3>1 DEF Complete, Parts, Kind
  <2> QED BY <2>1
<1>14. \A i \in k + 1 .. Len(Nodes) - 1 : out'[i] = {}
  <2>1. ASSUME NEW i \in k + 1 .. Len(Nodes) - 1 PROVE out'[i] = {}
    <3>1. out[i] = {} /\ i \in 0 .. Len(Nodes) - 1 /\ i # k
      BY <1>2 DEF Product
    <3> QED BY <1>12, <3>1
  <2> QED BY <2>1
<1>15. Parts(k, n)' = Parts(k, n) /\ Kind(k)' = Kind(k)
  BY <1>2 DEF Parts, Kind
<1>16. out'[k] \subseteq Parts(k, n)'
  <2>1. nchunk \in Nat /\ out[k] \subseteq Parts(k, n)
    BY <1>2, <1>9 DEF Product
  <2> HIDE DEF nchunk
  <2> QED BY <1>4, <1>9, <1>12, <1>15, <2>1
<1>17. InProduct(t, k)'
  <2>1. pc'[t] \in {"after", "chunk"} /\ node'[t] = k
    BY <1>1, <1>2, <1>3, <1>5, <1>10 DEF Typed
  <2> QED BY <1>2, <2>1 DEF InProduct, Holding
<1>18. \A u \in Team' : InProduct(u, k)' /\ wdata'[u] = k
  BY <1>2, <1>5, <1>6, <1>17 DEF Product
<1>19. ASSUME Kind(k) = "rows", RowsShared(k) PROVE RowsShared(k)'
  <2>1. nchunk = n /\ chunk[t] = t /\ t \notin out[k] /\ t \in Nat /\ t < n
    BY <1>2, <1>4, <1>9, <1>19 DEF RowsShared, Team
  <2>2. pc'[t] = "after" /\ out'[k] = out[k] \cup {t}
    <3> HIDE DEF nchunk, n
    <3>1. pc' = [pc EXCEPT ![t] = "after"] /\ out'[k] = out[k] \cup {t}
      <4>1. n \in Nat
        BY <1>2 DEF n
      <4> QED BY <1>10, <1>12, <2>1, <4>1
    <3> QED BY <1>1, <1>2, <3>1 DEF Typed
  <2>3. ~Holding(t)'
    BY <2>2 DEF Holding, Released
  <2>4. ASSUME NEW u \in Team
        PROVE  IF Holding(u)' THEN Holds(u)' = u /\ u \notin out'[k] ELSE u \in out'[k]
    <3>1. CASE u = t
      BY <2>2, <2>3, <3>1
    <3>2. CASE u # t
      BY <1>6, <1>19, <2>2, <3>2 DEF RowsShared
    <3> QED BY <3>1, <3>2
  <2> QED BY <1>2, <2>4 DEF RowsShared
<1>20. ASSUME Kind(k) = "chunks", ChunksShared(k) PROVE ChunksShared(k)'
  <2>1. nchunk = 4 * n /\ n \in Nat /\ n < nchunk
    BY <1>2, <1>7, <1>9, <1>20
  <2>2. /\ current_chunk >= n
        /\ \A c \in out[k] : c < current_chunk
        /\ chunk[t] < current_chunk /\ chunk[t] \notin out[k]
        /\ \A u \in Team : Holding(u) /\ Holds(u) = chunk[t] => u = t
    BY <1>4, <1>20 DEF ChunksShared
  <2>3. out[k] \subseteq Nat
    BY <1>1, <1>2 DEF Typed
  <2>4. CASE chunk[t] >= nchunk
    <3>1. pc'[t] = "after" /\ out'[k] = out[k] /\ current_chunk' = current_chunk
      <4> HIDE DEF nchunk, n
      <4>1. pc' = [pc EXCEPT ![t] = "after"] /\ out' = out /\ current_chunk' = current_chunk
        BY <1>4, <1>10, <2>1, <2>4
      <4> QED BY <1>1, <1>2, <4>1 DEF Typed
    <3>2. ~Holding(t)'
      BY <3>1 DEF Holding, Released
    <3>3. current_chunk >= 4 * n
      BY <1>4, <2>1, <2>2, <2>4
    <3>4. ASSUME NEW u \in Team
          PROVE IF Holding(u)'
                THEN /\ Holds(u)' < current_chunk' /\ Holds(u)' \notin out'[k]
                     /\ \A v \in Team : Holding(v)' /\ Holds(v)' = Holds(u)' => v = u
                ELSE current_chunk' >= 4 * n
      <4>1. CASE u = t
        BY <3>1, <3>2, <3>3, <4>1
      <4>2. CASE u # t
        BY <1>6, <1>20, <3>1, <3>2, <4>2 DEF ChunksShared
      <4> QED BY <4>1, <4>2
    <3>5. ASSUME NEW c \in Parts(k, n), c < current_chunk'
          PROVE  c \in out'[k] \/ \E u \in Team : Holding(u)' /\ Holds(u)' = c
      <4>1. c \in out[k] \/ \E u \in Team : Holding(u) /\ Holds(u) = c
        BY <1>20, <3>1, <3>5 DEF ChunksShared
      <4>2. c # chunk[t]
        <5>1. c \in 0 .. nchunk - 1
          BY <1>9, <3>5
        <5> HIDE DEF nchunk, n
        <5> QED BY <1>4, <2>1, <2>4, <5>1
      <4> QED BY <1>4, <1>6, <3>1, <4>1, <4>2
    <3>6. current_chunk' >= n /\ \A c \in out'[k] : c < current_chunk'
      BY <2>2, <3>1
    <3> QED BY <1>2, <1>15, <3>4, <3>5, <3>6 DEF ChunksShared
  <2>5. CASE chunk[t] < nchunk
    <3>1. /\ pc'[t] = "chunk" /\ out'[k] = out[k] \cup {chunk[t]}
          /\ chunk'[t] = current_chunk /\ current_chunk' = current_chunk + 1
      <4> HIDE DEF nchunk, n
      <4>1. /\ pc' = pc /\ chunk' = [chunk EXCEPT ![t] = current_chunk]
            /\ current_chunk' = current_chunk + 1
        BY <1>4, <1>10, <2>1, <2>5
      <4>2. out'[k] = out[k] \cup {chunk[t]}
        BY <1>12, <2>5
      <4> QED BY <1>1, <1>2, <1>3, <4>1, <4>2 DEF Typed
    <3>2. Holding(t)' /\ Holds(t)' = current_chunk
      BY <1>3, <1>5, <3>1 DEF Holding, Holds
    <3>3. \A u \in Team \ {t} : Holding(u) =>
             /\ Holds(u) < current_chunk /\ Holds(u) \notin out[k] /\ Holds(u) # chunk[t]
             /\ Holds(u) \in Nat
      <4>1. ASSUME NEW u \in Team \ {t} PROVE Holds(u) \in Nat
        <5>1. u \in Thread /\ u \in Nat
          BY <1>2 DEF Thread
        <5> QED BY <1>1, <5>1 DEF Holds, Typed
      <4> QED BY <1>20, <2>2, <4>1 DEF ChunksShared
    <3>4. ASSUME NEW u \in Team
          PROVE IF Holding(u)'
                THEN /\ Holds(u)' < current_chunk' /\ Holds(u)' \notin out'[k]
                     /\ \A v \in Team : Holding(v)' /\ Holds(v)' = Holds(u)' => v = u
                ELSE current_chunk' >= 4 * n
      <4>1. CASE u = t
        <5>1. Holds(u)' < current_chunk' /\ Holds(u)' \notin out'[k]
          BY <1>4, <2>2, <2>3, <3>1, <3>2, <4>1
        <5>2. ASSUME NEW v \in Team, Holding(v)', Holds(v)' = current_chunk, v # t PROVE FALSE
          <6>1. Holding(v) /\ Holds(v) = current_chunk
            BY <1>6, <5>2
          <6>2. Holds(v) < current_chunk
            BY <3>3, <5>2, <6>1
          <6> QED BY <1>4, <6>1, <6>2
        <5> QED BY <3>2, <4>1, <5>1, <5>2
      <4>2. CASE u # t /\ Holding(u)
        <5>1. Holding(u)' /\ Holds(u)' = Holds(u)
          BY <1>6, <4>2
        <5>2. /\ Holds(u) < current_chunk /\ Holds(u) \notin out[k] /\ Holds(u) # chunk[t]
              /\ Holds(u) \in Nat
          BY <3>3, <4>2
        <5>3. Holds(u)' < current_chunk' /\ Holds(u)' \notin out'[k]
          BY <1>4, <3>1, <5>1, <5>2
        <5>4. ASSUME NEW v \in Team, Holding(v)', Holds(v)' = Holds(u) PROVE v = u
          <6>1. CASE v = t
            BY <1>4, <3>2, <5>2, <5>4, <6>1
          <6>2. CASE v # t
            BY <1>6, <1>20, <4>2, <5>4, <6>2 DEF ChunksShared
          <6> QED BY <6>1, <6>2
        <5> QED BY <5>1, <5>3, <5>4
      <4>3. CASE u # t /\ ~Holding(u)
        <5>1. ~Holding(u)' /\ current_chunk >= 4 * n
          BY <1>6, <1>20, <4>3 DEF ChunksShared
        <5> QED BY <1>4, <2>1, <3>1, <5>1
      <4> QED BY <4>1, <4>2, <4>3
    <3>5. ASSUME NEW c \in Parts(k, n), c < current_chunk'
          PROVE  c \in out'[k] \/ \E u \in Team : Holding(u)' /\ Holds(u)' = c
      <4>1. c \in Nat
        <5>1. c \in 0 .. nchunk - 1
          BY <1>9, <3>5
        <5> HIDE DEF nchunk
        <5> QED BY <5>1
      <4>2. CASE c = current_chunk
        BY <3>2, <4>2
      <4>3. CASE c < current_chunk
        <5>1. c \in out[k] \/ \E u \in Team : Holding(u) /\ Holds(u) = c
          BY <1>20, <3>5, <4>3 DEF ChunksShared
        <5> QED BY <1>4, <1>6, <3>1, <5>1
      <4> QED BY <1>4, <3>1, <3>5, <4>1, <4>2, <4>3
    <3>6. current_chunk' >= n /\ \A c \in out'[k] : c < current_chunk'
      BY <1>4, <2>1, <2>2, <2>3, <3>1
    <3> QED BY <1>2, <1>15, <3>4, <3>5, <3>6 DEF ChunksShared
  <2>6. chunk[t] >= nchunk \/ chunk[t] < nchunk
    BY <1>4, <2>1
  <2> QED BY <2>4, <2>5, <2>6
<1>21. abort' = -1 \/ abort' > k
  BY <1>5 DEF Product
<1>22. (Kind(k)' = "rows" /\ RowsShared(k)') \/ (Kind(k)' = "chunks" /\ ChunksShared(k)')
  BY <1>15, <1>19, <1>20 DEF Product
<1> QED BY <1>2, <1>13, <1>14, <1>16, <1>18, <1>21, <1>22 DEF Product

-----------------------------------------------------------------------------
(* The barrier opens.                                                       *)

Opens(t) == Pass(t) \/ (Enter(t) /\ n_graph.threads = 1)

(* All the team is at the barrier when it opens; the one that opens it goes *)
(* on, the others are let go.                                               *)
LEMMA OpensFacts ==
    ASSUME IInv, NEW t \in Team, Opens(t)
    PROVE  /\ Leave(t) /\ Busy(t) /\ ComputeStep(t)
           /\ \A u \in Team : /\ AtBarrier(u, ret[u]) /\ Busy(u) /\ ~Holding(u)
                              /\ ret[u] \in {"chunk", "next", "end"}
                              /\ pc[u] \notin {"node", "after"}
           /\ \A u \in Team \ {t} : Same(u) /\ \A r : r = ret[u] => Released(u, r)'
           /\ abort' = abort /\ out' = out /\ current_chunk' = current_chunk /\ wdata' = wdata
           /\ cplan' = cplan /\ n_graph' = n_graph /\ last_graph' = last_graph
<1>1. Typed /\ ComputeStep(t) /\ t \in Thread /\ Team \subseteq Thread
  BY TeamThreads DEF IInv, Opens, ComputeStep
<1>2. /\ Leave(t) /\ pc[t] \in {"enter", "pass"}
      /\ abort' = abort /\ out' = out /\ current_chunk' = current_chunk /\ wdata' = wdata
      /\ cplan' = cplan /\ n_graph' = n_graph /\ last_graph' = last_graph
  BY DEF Opens, Pass, Enter, shared
<1>3. \A u \in Team \ {t} : Held(u) /\ Pass(t)
  <2>1. CASE Pass(t)
    BY <1>1, <2>1 DEF IInv, BarrierCounts, Pass
  <2>2. CASE n_graph.threads = 1
    <3>1. Team = {0}
      BY <2>2 DEF Team
    <3> QED BY <3>1
  <2> QED BY <2>1, <2>2 DEF Opens
<1>4. ASSUME NEW u \in Team
      PROVE  /\ AtBarrier(u, ret[u]) /\ Busy(u) /\ ~Holding(u)
             /\ ret[u] \in {"chunk", "next", "end"}
             /\ pc[u] \notin {"node", "after"}
  <2>1. pc[u] \in {"enter", "pass"} \/ Held(u)
    BY <1>2, <1>3
  <2>2. ret[u] \in {"chunk", "next", "end"} /\ n_barrier_passed \in Nat
    BY <1>1, <2>1 DEF Held, Typed, Returns
  <2>3. \A r : ~Released(u, r)
    BY <2>1, <2>2 DEF Held, Released
  <2> QED BY <2>1, <2>2, <2>3 DEF AtBarrier, Busy, Computing, Held, Holding
<1>5. ASSUME NEW u \in Team \ {t} PROVE Same(u) /\ \A r : r = ret[u] => Released(u, r)'
  <2>1. Same(u) /\ Held(u) /\ n_barrier_passed' = n_barrier_passed + 1
    BY <1>1, <1>3, OnlyActor DEF Pass
  <2>2. n_barrier_passed \in Nat
    BY <1>1 DEF Typed
  <2> QED BY <2>1, <2>2 DEF Same, Held, Released
<1> QED BY <1>1, <1>2, <1>4, <1>5

(* It opens to the stretch that begins with the next node. *)
LEMMA OpensNext ==
    ASSUME IInv, NEW t \in Team, Opens(t), NEW k \in Nat, k + 1 \in 0 .. Len(Nodes),
           \A u \in Team : ret[u] = "next" /\ node[u] = k,
           abort = -1 \/ abort > k, \A i \in 0 .. k : Complete(i),
           \A i \in k + 1 .. Len(Nodes) - 1 : out[i] = {}
    PROVE  Ahead(k + 1)'
<1>0. abort \in Int
  BY DEF IInv, Typed
<1>1. Typed /\ Len(Nodes) \in Nat /\ Nodes' = Nodes /\ Team' = Team /\ t \in Thread
  BY OpensFacts, NodesType, TeamThreads DEF IInv, Nodes, Team
<1>2. abort' = abort /\ out' = out /\ cplan' = cplan /\ n_graph' = n_graph
  BY OpensFacts
<1>3. InAhead(t, k + 1)'
  <2>1. pc'[t] = "node" /\ node'[t] = k + 1
    BY <1>1, OpensFacts, LeaveFacts
  <2>2. Skipped(k + 1, k + 1)'
    BY <1>1 DEF Skipped
  <2>3. Doing(t, k + 1, k + 1)'
    BY <2>1, <2>2 DEF Doing
  <2> QED BY <1>1, <2>1, <2>3 DEF InAhead
<1>4. ASSUME NEW u \in Team \ {t} PROVE InAhead(u, k + 1)'
  <2>1. node'[u] = k /\ Released(u, "next")'
    BY OpensFacts DEF Same
  <2>2. k \in 0 .. Len(Nodes)
    BY <1>1
  <2>3. Doing(u, k + 1, k)'
    BY <2>1 DEF Doing
  <2> QED BY <1>1, <2>1, <2>2, <2>3 DEF InAhead
<1>5. \A i \in 0 .. k : Complete(i)'
  BY <1>1, <1>2 DEF Complete, Parts, Kind
<1>6. \A i \in 0 .. k + 1 - 1 : Complete(i)'
  BY <1>5
<1>7. abort' = -1 \/ abort' >= k + 1
  BY <1>0, <1>2
<1>8. \A u \in Team' : InAhead(u, k + 1)'
  BY <1>1, <1>3, <1>4
<1>9. \A i \in k + 1 .. Len(Nodes') - 1 : out'[i] # {} => At(k + 1, i, {"op"})' /\ out'[i] \subseteq Team'
  BY <1>1, <1>2
<1>10. k + 1 \in 0 .. Len(Nodes')
  BY <1>1
<1> QED BY <1>6, <1>7, <1>8, <1>9, <1>10 DEF Ahead

(* Or it is the last one. *)
LEMMA OpensOver ==
    ASSUME IInv, n_graph.threads > 0, NEW t \in Team, Opens(t),
           \A u \in Team : ret[u] = "end" /\ node[u] = 0,
           \A i \in 0 .. Len(Nodes) - 1 :
              IF abort = -1 \/ i < abort THEN Complete(i) ELSE out[i] = {}
    PROVE  Over'
<1>1. /\ Typed /\ Len(Nodes) \in Nat /\ Nodes' = Nodes /\ Team' = Team /\ t \in Thread
      /\ Team \subseteq Thread /\ 0 \in Team /\ n_graph.threads \in Nat
  BY OpensFacts, NodesType, TeamThreads DEF IInv, Nodes, Team
<1>2. abort' = abort /\ out' = out /\ cplan' = cplan /\ n_graph' = n_graph /\ last_graph' = last_graph
  BY OpensFacts
<1>3. pc'[t] = (IF t = 0 THEN "finish" ELSE "top") /\ node'[t] = 0
  BY <1>1, OpensFacts, LeaveFacts
<1>4. \A u \in Team \ {t} : Released(u, "end")' /\ node'[u] = 0
  BY OpensFacts DEF Same
<1>5. pc'[0] = "finish" \/ Released(0, "end")'
  BY <1>1, <1>3, <1>4
<1>6. ASSUME NEW u \in Team, u # 0 PROVE Away(u)' /\ last_graph'[u] = n_graph'
  <2>1. Away(u)'
    BY <1>3, <1>4, <1>6 DEF Away
  <2>2. last_graph[u] = n_graph
    BY <1>1, <1>6, OpensFacts DEF IInv, Engaged
  <2> QED BY <1>2, <2>1, <2>2
<1>7. DOMAIN out' = 0 .. Len(Nodes) - 1
  BY <1>1, <1>2 DEF Typed
<1>8. \A i \in DOMAIN out' : IF abort' = -1 \/ i < abort' THEN Complete(i)' ELSE out'[i] = {}
  BY <1>1, <1>2, <1>7 DEF Complete, Parts, Kind
<1>9. node'[0] = 0
  BY <1>1, <1>3, <1>4
<1> QED BY <1>1, <1>2, <1>5, <1>6, <1>8, <1>9 DEF Over, Rested

(* Or it opens to the product of the node. *)
LEMMA OpensProduct ==
    ASSUME IInv, NEW t \in Team, Opens(t), NEW k \in 0 .. Len(Nodes) - 1, Kind(k) \in Products,
           \A u \in Team : ret[u] = "chunk" /\ node[u] = k /\ wdata[u] = k,
           current_chunk = n_graph.threads,
           abort = -1 \/ abort > k, \A i \in 0 .. k - 1 : Complete(i),
           \A i \in k .. Len(Nodes) - 1 : out[i] = {}
    PROVE  Product(k)'
<1>1. /\ Typed /\ Len(Nodes) \in Nat /\ Nodes' = Nodes /\ Team' = Team /\ t \in Thread
      /\ Team \subseteq Thread /\ n_graph.threads \in Nat
  BY OpensFacts, NodesType, TeamThreads DEF IInv, Nodes, Team
<1>2. /\ abort' = abort /\ out' = out /\ cplan' = cplan /\ n_graph' = n_graph /\ wdata' = wdata
      /\ current_chunk' = current_chunk
  BY OpensFacts
<1>3. pc'[t] = "chunk" /\ node'[t] = k /\ chunk'[t] = t /\ ret'[t] = "none"
  BY <1>1, OpensFacts, LeaveFacts
<1>4. \A u \in Team \ {t} : Released(u, "chunk")' /\ node'[u] = k /\ ret'[u] = "chunk"
  BY OpensFacts DEF Same
<1>5. \A u \in Team : Holding(u)' /\ Holds(u)' = u /\ InProduct(u, k)' /\ wdata'[u] = k
  <2>1. \A u \in Team : Holding(u)' /\ Holds(u)' = u /\ node'[u] = k
    BY <1>3, <1>4 DEF Holding, Holds
  <2> QED BY <1>2, <2>1 DEF InProduct
<1>6. out'[k] = {} /\ \A i \in k + 1 .. Len(Nodes) - 1 : out'[i] = {}
  BY <1>1, <1>2
<1>7. \A i \in 0 .. k - 1 : Complete(i)'
  BY <1>1, <1>2 DEF Complete, Parts, Kind
<1>8. RowsShared(k)'
  BY <1>1, <1>5, <1>6 DEF RowsShared
<1>9. ChunksShared(k)'
  <2>1. \A u \in Team : u \in Int /\ u < n_graph.threads
    BY <1>1 DEF Team
  <2>2. ASSUME NEW c \in Parts(k, n_graph.threads)', c < current_chunk' PROVE c \in Team
    <3>1. Parts(k, n_graph.threads)' \subseteq Nat
      BY <1>1, <1>2 DEF Parts, Products, Kind
    <3> QED BY <1>1, <1>2, <2>2, <3>1 DEF Team
  <2>3. current_chunk' = n_graph.threads /\ n_graph.threads >= n_graph.threads
    BY <1>1, <1>2
  <2>4. \A u \in Team : /\ Holds(u)' < current_chunk' /\ Holds(u)' \notin out'[k]
                        /\ \A v \in Team : Holding(v)' /\ Holds(v)' = Holds(u)' => v = u
    BY <1>5, <1>6, <2>1, <2>3
  <2>5. \A c \in Parts(k, n_graph.threads)' : c < current_chunk' =>
            \E u \in Team : Holding(u)' /\ Holds(u)' = c
    BY <1>5, <2>2
  <2> QED BY <1>1, <1>2, <1>5, <1>6, <2>3, <2>4, <2>5 DEF ChunksShared
<1>10. Kind(k)' \in Products
  BY <1>1 DEF Kind
<1>11. k \in 0 .. Len(Nodes') - 1 /\ out'[k] \subseteq Parts(k, n_graph.threads)'
  BY <1>1, <1>6
<1> QED BY <1>1, <1>2, <1>5, <1>6, <1>7, <1>8, <1>9, <1>10, <1>11 DEF Product, Products

(* Before the first node for which there is something to do, nothing is     *)
(* missing.                                                                 *)
LEMMA SkippedComplete ==
    ASSUME Typed, NEW k \in 0 .. Len(Nodes), Ahead(k), NEW j, Skipped(k, j)
    PROVE  /\ \A i \in 0 .. j - 1 : Complete(i)
           /\ \A i \in k .. j - 1 : out[i] = {}
<1>1. Len(Nodes) \in Nat /\ k \in Nat /\ j \in k .. Len(Nodes)
  BY NodesType DEF Skipped
<1>2. ASSUME NEW i \in k .. j - 1 PROVE out[i] = {} /\ Complete(i)
  <2>1. Kind(i) = "empty" /\ i \in k .. Len(Nodes) - 1
    BY <1>1 DEF Skipped
  <2>2. ~At(k, i, {"op"})
    BY <2>1 DEF At
  <2>3. out[i] = {}
    BY <2>1, <2>2 DEF Ahead
  <2> QED BY <2>1, <2>3 DEF Complete, Parts
<1>3. \A i \in 0 .. j - 1 : i \in 0 .. k - 1 \/ i \in k .. j - 1
  BY <1>1
<1> QED BY <1>2, <1>3 DEF Ahead

(* The thread that opens the barrier ends the stretch: a product, the next  *)
(* stretch or the end begins.                                               *)
LEMMA AheadOpens ==
    ASSUME IInv, NEW k \in 0 .. Len(Nodes), Ahead(k), n_graph.threads > 0, NEW t \in Team, Opens(t)
    PROVE  Over' \/ \E q \in 0 .. Len(Nodes') : Ahead(q)' \/ Product(q)'
<1>0. abort \in Int
  BY DEF IInv, Typed
<1>1. /\ Typed /\ Len(Nodes) \in Nat /\ Nodes' = Nodes /\ Team \subseteq Thread /\ k \in Nat
      /\ 0 \in Team
  <2>1. Typed /\ n_graph.threads \in Nat
    BY TeamThreads DEF IInv
  <2> QED BY <2>1, OpensFacts, NodesType, TeamThreads DEF Nodes, Team
<1>2. \A u \in Team :
         /\ ret[u] \in {"chunk", "next", "end"}
         /\ ret[u] = "next" => DidOp(u, k, node[u]) /\ node[u] + 1 < Len(Nodes)
         /\ ret[u] = "end" => node[u] = 0 /\ (Stops(k) \/ DidOp(u, k, Len(Nodes) - 1))
         /\ ret[u] = "chunk" => At(k, node[u], Products) /\ wdata[u] = node[u]
                                /\ (u = 0 => current_chunk = n_graph.threads)
  <2>1. ASSUME NEW u \in Team
        PROVE  /\ ret[u] \in {"chunk", "next", "end"}
               /\ ret[u] = "next" => DidOp(u, k, node[u]) /\ node[u] + 1 < Len(Nodes)
               /\ ret[u] = "end" => node[u] = 0 /\ (Stops(k) \/ DidOp(u, k, Len(Nodes) - 1))
               /\ ret[u] = "chunk" => At(k, node[u], Products) /\ wdata[u] = node[u]
                                      /\ (u = 0 => current_chunk = n_graph.threads)
    <3>1. PICK j \in 0 .. Len(Nodes) : node[u] = j /\ Doing(u, k, j)
      BY DEF Ahead, InAhead
    <3>2. u \in Thread /\ j \in Nat /\ AtBarrier(u, ret[u]) /\ Busy(u)
          /\ ret[u] \in {"chunk", "next", "end"}
      BY <1>1, OpensFacts
    <3> QED BY <1>1, <3>1, <3>2, AheadAt
  <2> QED BY <2>1
<1>3. ASSUME NEW v \in Team, NEW j, DidOp(v, k, j)
      PROVE  Over' \/ \E q \in 0 .. Len(Nodes') : Ahead(q)'
  <2>1. /\ At(k, j, {"op"}) /\ j \in k .. Len(Nodes) - 1 /\ ~Stops(k)
        /\ \A i, L : "empty" \notin L /\ At(k, i, L) => i = j
        /\ abort >= k => abort > j
    BY <1>1, <1>3, FirstWork DEF DidOp
  <2>2. j \in 0 .. Len(Nodes) - 1 /\ j \in Nat /\ Kind(j) = "op" /\ Skipped(k, j)
    BY <1>1, <2>1 DEF At
  <2>3. \A u \in Team : /\ ret[u] \in {"next", "end"} /\ u \in out[j]
                        /\ ret[u] = "next" => node[u] = j /\ j + 1 < Len(Nodes)
                        /\ ret[u] = "end" => node[u] = 0 /\ j + 1 = Len(Nodes)
    <3>1. ASSUME NEW u \in Team, ret[u] = "chunk" PROVE FALSE
      <4>1. At(k, node[u], Products)
        BY <1>2, <3>1
      <4>2. node[u] = j
        BY <2>1, <4>1 DEF Products
      <4> QED BY <2>2, <4>1, <4>2 DEF At, Products
    <3>2. ASSUME NEW u \in Team, ret[u] = "next" PROVE u \in out[j] /\ node[u] = j /\ j + 1 < Len(Nodes)
      <4>1. DidOp(u, k, node[u]) /\ node[u] + 1 < Len(Nodes)
        BY <1>2, <3>2
      <4> QED BY <2>1, <4>1 DEF DidOp
    <3>3. ASSUME NEW u \in Team, ret[u] = "end" PROVE u \in out[j] /\ node[u] = 0 /\ j + 1 = Len(Nodes)
      <4>1. node[u] = 0 /\ DidOp(u, k, Len(Nodes) - 1)
        BY <1>2, <2>1, <3>3
      <4>2. Len(Nodes) - 1 = j
        BY <2>1, <4>1 DEF DidOp
      <4> QED BY <1>1, <2>2, <4>1, <4>2 DEF DidOp
    <3> QED BY <1>2, <3>1, <3>2, <3>3
  <2>4. Complete(j)
    <3>1. out[j] \subseteq Team
      BY <1>3, <2>1 DEF Ahead, DidOp
    <3> QED BY <2>2, <2>3, <3>1 DEF Complete, Parts, Team
  <2>5. \A i \in 0 .. j : Complete(i)
    <3>1. \A i \in 0 .. j : i \in 0 .. j - 1 \/ i = j
      BY <2>2
    <3> QED BY <1>1, <2>2, <2>4, <3>1, SkippedComplete
  <2>6. \A i \in j + 1 .. Len(Nodes) - 1 : out[i] = {}
    <3>1. ASSUME NEW i \in j + 1 .. Len(Nodes) - 1, out[i] # {} PROVE FALSE
      <4>1. i \in k .. Len(Nodes) - 1 /\ i # j
        BY <1>1, <2>1
      <4>2. At(k, i, {"op"})
        BY <3>1, <4>1 DEF Ahead
      <4> QED BY <2>1, <4>1, <4>2
    <3> QED BY <3>1
  <2>7. abort = -1 \/ abort > j
    BY <2>1 DEF Ahead
  <2>8. CASE j + 1 < Len(Nodes)
    <3>1. \A u \in Team : ret[u] = "next" /\ node[u] = j
      BY <1>1, <2>2, <2>3, <2>8
    <3>2. j + 1 \in 0 .. Len(Nodes)
      BY <1>1, <2>2
    <3>3. Ahead(j + 1)'
      BY <2>2, <2>5, <2>6, <2>7, <3>1, <3>2, OpensNext
    <3> QED BY <1>1, <3>2, <3>3
  <2>9. CASE ~(j + 1 < Len(Nodes))
    <3>1. \A u \in Team : ret[u] = "end" /\ node[u] = 0
      BY <2>3, <2>9
    <3>2. j + 1 = Len(Nodes)
      BY <1>1, <2>2, <2>9
    <3>3. \A i \in 0 .. Len(Nodes) - 1 : Complete(i) /\ (abort = -1 \/ i < abort)
      <4>1. \A i \in 0 .. Len(Nodes) - 1 : i \in 0 .. j
        BY <1>1, <2>2, <3>2
      <4> QED BY <1>0, <2>2, <2>5, <2>7, <4>1
    <3> QED BY <3>1, <3>3, OpensOver
  <2> QED BY <2>8, <2>9
<1>4. ASSUME NEW v \in Team, ret[v] = "chunk"
      PROVE  \E q \in 0 .. Len(Nodes') : Product(q)'
  <2>1. PICK j : j = node[v]
    OBVIOUS
  <2>2. At(k, j, Products)
    BY <1>2, <1>4, <2>1
  <2>3. /\ j \in k .. Len(Nodes) - 1 /\ ~Stops(k)
        /\ \A i, L : "empty" \notin L /\ At(k, i, L) => i = j
        /\ abort >= k => abort > j
    BY <1>1, <2>2, FirstWork DEF Products
  <2>4. j \in 0 .. Len(Nodes) - 1 /\ j \in Nat /\ Kind(j) \in Products /\ Skipped(k, j)
    BY <1>1, <2>2, <2>3 DEF At
  <2>5. ASSUME NEW i, At(k, i, {"op"}) PROVE FALSE
    <3>1. i = j
      BY <2>3, <2>5
    <3> QED BY <2>4, <2>5, <3>1 DEF At, Products
  <2>6. ASSUME NEW u \in Team PROVE ret[u] = "chunk" /\ node[u] = j /\ wdata[u] = j
    <3>1. ret[u] = "chunk"
      BY <1>2, <2>3, <2>5 DEF DidOp
    <3>2. At(k, node[u], Products) /\ wdata[u] = node[u]
      BY <1>2, <3>1
    <3> QED BY <2>3, <3>1, <3>2 DEF Products
  <2>7. \A i \in j .. Len(Nodes) - 1 : out[i] = {}
    <3>1. ASSUME NEW i \in j .. Len(Nodes) - 1, out[i] # {} PROVE FALSE
      <4>1. i \in k .. Len(Nodes) - 1
        BY <1>1, <2>3
      <4> QED BY <2>5, <3>1, <4>1 DEF Ahead
    <3> QED BY <3>1
  <2>8. \A i \in 0 .. j - 1 : Complete(i)
    BY <1>1, <2>4, SkippedComplete
  <2>9. abort = -1 \/ abort > j
    BY <2>3 DEF Ahead
  <2>10. current_chunk = n_graph.threads
    BY <1>1, <1>2, <2>6
  <2>11. Product(j)'
    BY <2>4, <2>6, <2>7, <2>8, <2>9, <2>10, OpensProduct
  <2> QED BY <1>1, <2>4, <2>11
<1>5. ASSUME \A v \in Team : ret[v] # "chunk" /\ \A j : ~DidOp(v, k, j)
      PROVE  Over'
  <2>1. \A u \in Team : ret[u] = "end" /\ node[u] = 0
    BY <1>2, <1>5
  <2>2. Stops(k)
    BY <1>1, <1>2, <1>5, <2>1
  <2>3. PICK j \in k .. Len(Nodes) : Skipped(k, j) /\ (j = Len(Nodes) \/ j = abort)
    BY <2>2 DEF Stops
  <2>4. \A i \in 0 .. j - 1 : Complete(i)
    BY <1>1, <2>3, SkippedComplete
  <2>5. ASSUME NEW i \in k .. Len(Nodes) - 1, i >= j PROVE out[i] = {}
    <3>1. SUFFICES ASSUME At(k, i, {"op"}) PROVE FALSE
      BY DEF Ahead
    <3> QED BY <1>1, <2>2, <3>1, FirstWork
  <2>6. ASSUME NEW i \in 0 .. Len(Nodes) - 1
        PROVE  IF abort = -1 \/ i < abort THEN Complete(i) ELSE out[i] = {}
    <3>1. CASE i < j
      <4>1. Complete(i)
        BY <1>1, <2>3, <2>4, <3>1
      <4>2. abort = -1 \/ abort >= j
        <5>1. SUFFICES ASSUME abort # -1, abort < j PROVE FALSE
          BY <1>0, <1>1, <2>3
        <5>2. abort \in k .. j - 1
          BY <1>0, <1>1, <2>3, <5>1 DEF Ahead
        <5> QED BY <2>3, <5>2 DEF Skipped
      <4> QED BY <1>0, <1>1, <2>3, <3>1, <4>1, <4>2
    <3>2. CASE i >= j
      <4>1. i \in k .. Len(Nodes) - 1
        BY <1>1, <2>3, <3>2
      <4>2. out[i] = {}
        BY <2>5, <3>2, <4>1
      <4>3. j = abort /\ abort # -1
        BY <1>1, <2>3, <3>2
      <4> QED BY <1>1, <2>3, <3>2, <4>2, <4>3
    <3> QED BY <1>1, <2>3, <3>1, <3>2
  <2> QED BY <2>1, <2>6, OpensOver
<1> QED BY <1>3, <1>4, <1>5

(* The thread that opens the barrier behind a product begins the next       *)
(* stretch, or the end.                                                     *)
LEMMA ProductOpens ==
    ASSUME IInv, NEW k \in 0 .. Len(Nodes), Product(k), n_graph.threads > 0, NEW t \in Team, Opens(t)
    PROVE  Over' \/ \E q \in 0 .. Len(Nodes') : Ahead(q)'
<1>0. abort \in Int
  BY DEF IInv, Typed
<1>1. /\ Typed /\ Len(Nodes) \in Nat /\ Nodes' = Nodes /\ Team \subseteq Thread /\ k \in Nat
      /\ 0 \in Team /\ n_graph.threads \in Nat /\ k \in 0 .. Len(Nodes) - 1
  <2>1. Typed /\ n_graph.threads \in Nat
    BY TeamThreads DEF IInv
  <2> QED BY <2>1, OpensFacts, NodesType, TeamThreads DEF Nodes, Team, Product
<1>2. \A u \in Team :
         /\ ~Holding(u)
         /\ \/ ret[u] = "next" /\ node[u] = k /\ k + 1 < Len(Nodes)
            \/ ret[u] = "end" /\ node[u] = 0 /\ k + 1 = Len(Nodes)
  <2>1. ASSUME NEW u \in Team
        PROVE  /\ ~Holding(u)
               /\ \/ ret[u] = "next" /\ node[u] = k /\ k + 1 < Len(Nodes)
                  \/ ret[u] = "end" /\ node[u] = 0 /\ k + 1 = Len(Nodes)
    <3>1. ~Holding(u) /\ pc[u] \notin {"node", "after"} /\ InProduct(u, k)
      BY OpensFacts DEF Product
    <3> QED BY <3>1 DEF InProduct, AtBarrier
  <2> QED BY <2>1
<1>3. Complete(k)
  <2>1. Kind(k) \in Products /\ out[k] \subseteq Parts(k, n_graph.threads)
    BY DEF Product, Products
  <2>2. CASE Kind(k) = "rows"
    <3>1. Parts(k, n_graph.threads) = Team
      BY <2>2 DEF Parts, Team
    <3>2. RowsShared(k)
      BY <2>2 DEF Product
    <3> QED BY <1>2, <2>1, <3>1, <3>2 DEF Complete, RowsShared
  <2>3. CASE Kind(k) = "chunks"
    <3>1. Parts(k, n_graph.threads) = 0 .. 4 * n_graph.threads - 1
      BY <2>3 DEF Parts
    <3>2. ChunksShared(k)
      BY <2>3 DEF Product
    <3>3. current_chunk >= 4 * n_graph.threads /\ current_chunk \in Nat
      <4>1. current_chunk \in Nat
        BY <1>1 DEF Typed
      <4> QED BY <1>1, <1>2, <3>2, <4>1 DEF ChunksShared
    <3>4. \A c \in Parts(k, n_graph.threads) : c \in out[k]
      <4>1. ASSUME NEW c \in Parts(k, n_graph.threads) PROVE c \in out[k]
        <5>1. c < current_chunk
          BY <1>1, <3>1, <3>3
        <5> QED BY <1>2, <3>2, <5>1 DEF ChunksShared
      <4> QED BY <4>1
    <3> QED BY <2>1, <3>4 DEF Complete
  <2> QED BY <2>1, <2>2, <2>3 DEF Products
<1>4. \A i \in 0 .. k : Complete(i)
  <2>1. \A i \in 0 .. k : i \in 0 .. k - 1 \/ i = k
    BY <1>1
  <2> QED BY <1>3, <2>1 DEF Product
<1>5. (abort = -1 \/ abort > k) /\ \A i \in k + 1 .. Len(Nodes) - 1 : out[i] = {}
  BY DEF Product
<1>6. CASE k + 1 < Len(Nodes)
  <2>1. \A u \in Team : ret[u] = "next" /\ node[u] = k
    BY <1>1, <1>2, <1>6
  <2>2. k + 1 \in 0 .. Len(Nodes)
    BY <1>1
  <2>3. Ahead(k + 1)'
    BY <1>1, <1>4, <1>5, <2>1, <2>2, OpensNext
  <2> QED BY <1>1, <2>2, <2>3
<1>7. CASE ~(k + 1 < Len(Nodes))
  <2>1. \A u \in Team : ret[u] = "end" /\ node[u] = 0 /\ k + 1 = Len(Nodes)
    BY <1>2, <1>7
  <2>2. \A i \in 0 .. Len(Nodes) - 1 : Complete(i) /\ (abort = -1 \/ i < abort)
    <3>1. \A i \in 0 .. Len(Nodes) - 1 : i \in 0 .. k
      BY <1>1, <2>1
    <3> QED BY <1>0, <1>1, <1>4, <1>5, <3>1
  <2> QED BY <2>1, <2>2, OpensOver
<1> QED BY <1>6, <1>7

-----------------------------------------------------------------------------
(* The steps.                                                               *)

(* A worker that polls, waits or leaves the graph has nothing of it left to *)
(* do.                                                                      *)
LEMMA WorkerAway ==
    ASSUME IInv, NEW t \in Thread \ {0},
           pc[t] \in {"top", "poll", "check", "exited"} \/ Released(t, "end")
    PROVE  /\ Away(t) /\ ~Held(t)
           /\ \A k : t \in Team /\ Ahead(k) => k = 0
           /\ \A k : t \in Team => ~Product(k)
<1>1. Typed
  BY DEF IInv
<1>2. ~Held(t) /\ (Released(t, "next") => FALSE) /\ (Released(t, "chunk") => FALSE)
      /\ \A r : ~AtBarrier(t, r)
  <2>1. n_passed[t] \in Nat /\ n_barrier_passed \in Nat
    BY <1>1 DEF Typed
  <2> QED BY <2>1 DEF Held, Released, AtBarrier
<1>3. pc[t] \notin {"start", "node", "op", "after", "convert", "chunk"}
  BY DEF Released
<1>4. ASSUME NEW k, t \in Team, Ahead(k) PROVE Away(t) /\ k = 0
  <2>1. PICK j \in 0 .. Len(Nodes) : node[t] = j /\ Doing(t, k, j)
    BY <1>4 DEF Ahead, InAhead
  <2> QED BY <1>2, <1>3, <2>1 DEF Doing
<1>5. ASSUME NEW k, t \in Team, Product(k) PROVE FALSE
  <2>1. InProduct(t, k)
    BY <1>5 DEF Product
  <2> QED BY <1>2, <1>3, <2>1 DEF InProduct, Holding
<1>6. Away(t)
  <2>1. CASE t \in Team
    BY <1>4, <1>5, <2>1 DEF IInv, Stretch, Idle, Over, Rested
  <2>2. CASE t \notin Team
    BY <2>2 DEF IInv, Others
  <2> QED BY <2>1, <2>2
<1> QED BY <1>2, <1>4, <1>5, <1>6

(* It begins the graph only when the graph is new to it. *)
LEMMA AwayStretch ==
    ASSUME IInv, NEW t \in Thread \ {0},
           pc[t] \in {"top", "poll", "check", "exited"} \/ Released(t, "end"),
           Away(t)' \/ (pc'[t] = "start" /\ last_graph[t] # n_graph),
           node'[t] = node[t], last_graph'[t] \in {last_graph[t], n_graph},
           \A u \in Thread \ {t} : Same(u),
           cplan' = cplan, n_graph' = n_graph, n_barrier_passed' = n_barrier_passed,
           abort' = abort, out' = out, current_chunk' = current_chunk, wdata' = wdata
    PROVE  Stretch'
<1>1. /\ Typed /\ Len(Nodes) \in Nat /\ Nodes' = Nodes /\ Team' = Team /\ Team \subseteq Thread
      /\ 0 \in Thread /\ Same(0)
  BY NodesType, TeamThreads, ZeroIsThread DEF IInv, Nodes, Team
<1>2. /\ Away(t) /\ ~Held(t) /\ \A k : t \in Team /\ Ahead(k) => k = 0
      /\ \A k : t \in Team => ~Product(k)
  BY WorkerAway
<1>3. \A u \in Thread \ {t} : Away(u) => Away(u)'
  BY DEF Same, Away, Released
<1>4. Rested => Rested'
  <2>1. ASSUME Rested, NEW u \in Team \ {0} PROVE Away(u)' /\ last_graph'[u] = n_graph
    <3>1. Away(u) /\ last_graph[u] = n_graph
      BY <2>1 DEF Rested
    <3>2. CASE u = t
      BY <3>1, <3>2
    <3>3. CASE u # t
      BY <1>1, <1>3, <3>1, <3>3 DEF Same
    <3> QED BY <3>2, <3>3
  <2> QED BY <1>1, <2>1 DEF Rested
<1>5. CASE Idle
  BY <1>1, <1>4, <1>5 DEF Idle, Same, Stretch
<1>6. CASE Over
  <2>1. Released(0, "end") => Released(0, "end")'
    BY <1>1 DEF Same, Released
  <2>2. \A k \in DOMAIN out : Complete(k)' <=> Complete(k)
    BY <1>1 DEF Complete, Parts, Kind
  <2> QED BY <1>1, <1>4, <1>6, <2>1, <2>2 DEF Over, Same, Stretch
<1>7. ASSUME n_graph.threads > 0, NEW k \in 0 .. Len(Nodes), Ahead(k) PROVE Stretch'
  <2>1. ASSUME t \in Team PROVE InAhead(t, k)'
    <3>1. k = 0 /\ node[t] = 0
      BY <1>2, <1>7, <2>1 DEF Away
    <3>2. Doing(t, k, 0)'
      BY <3>1 DEF Doing
    <3> QED BY <1>1, <3>1, <3>2 DEF InAhead
  <2>2. Ahead(k)'
    BY <1>1, <1>7, <2>1, AheadKept
  <2> QED BY <1>1, <1>7, <2>2 DEF Stretch
<1>8. ASSUME n_graph.threads > 0, NEW k \in 0 .. Len(Nodes), Product(k) PROVE Stretch'
  <2>1. t \notin Team
    BY <1>2, <1>8
  <2>2. Product(k)'
    BY <1>1, <1>8, <2>1, ProductKept
  <2> QED BY <1>1, <1>8, <2>2 DEF Stretch
<1> QED BY <1>5, <1>6, <1>7, <1>8 DEF IInv, Stretch

(* The steps within a graph lead from a stretch to itself, to the next or   *)
(* to the end.                                                              *)
LEMMA StretchCompute ==
    ASSUME IInv, NEW t \in Thread, ComputeStep(t)
    PROVE  Stretch'
<1>1. /\ Typed /\ Len(Nodes) \in Nat /\ Nodes' = Nodes /\ Team' = Team /\ Team \subseteq Thread
      /\ 0 \in Thread /\ cplan' = cplan /\ n_graph' = n_graph /\ \A u \in Thread \ {t} : Same(u)
  BY NodesType, TeamThreads, ZeroIsThread, GraphKept, OnlyActor DEF IInv, Nodes, Team
<1>2. CASE Busy(t)
  <2>1. t \in Team /\ n_graph.threads > 0
    BY <1>2, Working
  <2>2. PICK k \in 0 .. Len(Nodes) : Ahead(k) \/ Product(k)
    BY <1>2, Working
  <2>3. CASE Opens(t)
    <3>1. Over' \/ \E q \in 0 .. Len(Nodes') : Ahead(q)' \/ Product(q)'
      BY <2>1, <2>2, <2>3, AheadOpens, ProductOpens
    <3> QED BY <1>1, <2>1, <3>1 DEF Stretch
  <2>4. CASE ~Opens(t) /\ Ahead(k)
    <3>1. ~ComputeChunk(t)
      <4>1. PICK j \in 0 .. Len(Nodes) : node[t] = j /\ Doing(t, k, j)
        BY <2>1, <2>4 DEF Ahead, InAhead
      <4>2. j \in Nat /\ k \in Nat
        BY <1>1
      <4> QED BY <1>1, <1>2, <4>1, <4>2, AheadAt DEF ComputeChunk
    <3>2. Ahead(k)'
      BY <1>2, <2>1, <2>4, <3>1, AheadMoves, AheadBarrier, AheadSpin DEF ComputeStep, Opens
    <3> QED BY <1>1, <2>1, <3>2 DEF Stretch
  <2>5. CASE ~Opens(t) /\ Product(k)
    <3>1. Product(k)'
      BY <1>2, <2>1, <2>5, ProductMoves, ProductChunk DEF ComputeStep, Opens
    <3> QED BY <1>1, <2>1, <3>1 DEF Stretch
  <2> QED BY <2>2, <2>3, <2>4, <2>5
<1>3. CASE ~Busy(t)
  <2>1. Released(t, "end")
    BY <1>3, Stepping DEF Busy
  <2>2. /\ Spin(t) /\ pc'[t] = (IF t = 0 THEN "finish" ELSE "top") /\ node'[t] = node[t]
        /\ Away(t) => Away(t)'
    BY <1>1, <2>1, LetGo
  <2>3. /\ n_barrier_passed' = n_barrier_passed /\ abort' = abort /\ out' = out
        /\ current_chunk' = current_chunk /\ wdata' = wdata /\ last_graph' = last_graph
    BY <2>2 DEF Spin, shared, barrier
  <2>4. CASE t # 0
    <3>1. Away(t)'
      BY <2>1, <2>2, <2>4, WorkerAway
    <3> QED BY <1>1, <2>1, <2>2, <2>3, <2>4, <3>1, AwayStretch
  <2>5. CASE t = 0
    <3>1. pc[0] = "spin" /\ ~Held(0) /\ ~Released(0, "next") /\ ~Released(0, "chunk")
      <4>1. n_passed[0] \in Nat /\ n_barrier_passed \in Nat
        BY <1>1 DEF Typed
      <4> QED BY <2>1, <2>5, <4>1 DEF Released, Held
    <3>2. ASSUME n_graph.threads > 0, NEW k, Ahead(k) \/ Product(k) PROVE FALSE
      <4>1. 0 \in Team
        <5>1. n_graph.threads \in Nat
          BY <1>1, TeamThreads
        <5> QED BY <3>2, <5>1 DEF Team
      <4>2. CASE Ahead(k)
        BY <3>1, <4>1, <4>2 DEF Ahead, InAhead, Doing, Away, AtBarrier
      <4>3. CASE Product(k)
        BY <3>1, <4>1, <4>3 DEF Product, InProduct, Holding, AtBarrier
      <4> QED BY <3>2, <4>2, <4>3
    <3>3. Over
      BY <3>1, <3>2 DEF IInv, Stretch, Idle
    <3>4. \A k \in DOMAIN out : Complete(k)' <=> Complete(k)
      BY <1>1, <2>3 DEF Complete, Parts, Kind
    <3>5. Rested'
      <4>1. \A u \in Team \ {0} : Away(u)'
        BY <1>1, <2>5, <3>3, PassedGrows DEF Over, Rested
      <4> QED BY <1>1, <2>3, <3>3, <4>1 DEF Over, Rested
    <3> QED BY <1>1, <2>2, <2>3, <2>5, <3>3, <3>4, <3>5 DEF Over, Stretch
  <2> QED BY <2>4, <2>5
<1> QED BY <1>2, <1>3

(* The steps within a graph keep the invariant. *)
LEMMA ComputeInvariant ==
    ASSUME IInv, NEW t \in Thread, ComputeStep(t)
    PROVE  IInv'
<1>1. Typed
  BY DEF IInv
<1> QED
  BY <1>1, TypedCompute, EngagedCompute, BarrierCountsStep, OthersCompute, StretchCompute DEF IInv

(* What a step of a worker between graphs does. *)
LEMMA WorkerShape ==
    ASSUME Typed, NEW t \in Thread \ {0}, Top(t) \/ Poll(t) \/ Check(t)
    PROVE  /\ pc[t] \in {"top", "poll", "check"}
           /\ \/ /\ pc'[t] \in {"top", "poll", "check", "exited"}
                 /\ last_graph'[t] \in {last_graph[t], n_graph}
              \/ /\ pc'[t] = "start" /\ last_graph'[t] = n_graph
                 /\ last_graph[t] # n_graph /\ t \in Team
           /\ n_barrier' = n_barrier /\ n_barrier_passed' = n_barrier_passed /\ abort' = abort
           /\ out' = out /\ current_chunk' = current_chunk /\ wdata' = wdata /\ node' = node
<1>1. t \in Nat /\ n_graph.threads \in Nat /\ (t < n_graph.threads => t \in Team)
  <2>1. t \in Nat /\ n_graph.threads \in Nat
    BY TeamThreads DEF Thread
  <2> QED BY <2>1 DEF Team
<1>2. CASE Top(t)
  BY <1>2 DEF Top, Goto, Typed, shared, barrier, local
<1>3. ASSUME NEW other \in {"top", "check"}, See(t, other)
      PROVE  \/ /\ pc'[t] \in {"top", "poll", "check", "exited"}
                /\ last_graph'[t] \in {last_graph[t], n_graph}
             \/ /\ pc'[t] = "start" /\ last_graph'[t] = n_graph
                /\ last_graph[t] # n_graph /\ t \in Team
  <2>1. CASE ~stop /\ ~pause /\ NewGraph(t)
    <3>1. last_graph'[t] = n_graph /\ last_graph[t] # n_graph
      BY <1>3, <2>1 DEF See, NewGraph, Typed
    <3>2. pc'[t] = IF t < n_graph.threads THEN "start" ELSE other
      BY <1>3, <2>1 DEF See, Goto, Typed
    <3> QED BY <1>1, <3>1, <3>2
  <2>2. CASE ~(~stop /\ ~pause /\ NewGraph(t))
    BY <1>3, <2>2 DEF See, Goto, Typed
  <2> QED BY <2>1, <2>2
<1>4. CASE Poll(t)
  BY <1>3, <1>4 DEF Poll, shared, barrier, local
<1>5. CASE Check(t)
  <2>1. CASE Ready(t)
    BY <1>3, <1>5, <2>1 DEF Check, shared, barrier, local
  <2>2. CASE ~Ready(t)
    BY <1>5, <2>2 DEF Check, shared, barrier, local
  <2> QED BY <2>1, <2>2
<1> QED BY <1>2, <1>4, <1>5

(* A worker's steps between graphs keep the invariant. *)
LEMMA WorkerInvariant ==
    ASSUME IInv, NEW t \in Thread \ {0}, Top(t) \/ Poll(t) \/ Check(t)
    PROVE  IInv'
<1>1. /\ Typed /\ Typed' /\ Engaged /\ BarrierCounts /\ Others
      /\ cplan' = cplan /\ n_graph' = n_graph /\ \A u \in Thread \ {t} : Same(u)
      /\ Team' = Team
  <2>1. Typed
    BY DEF IInv
  <2> QED BY <2>1, TypedWorker, GraphKept, OnlyActor DEF IInv, Team
<1>2. /\ pc[t] \in {"top", "poll", "check"}
      /\ \/ /\ pc'[t] \in {"top", "poll", "check", "exited"}
            /\ last_graph'[t] \in {last_graph[t], n_graph}
         \/ /\ pc'[t] = "start" /\ last_graph'[t] = n_graph
            /\ last_graph[t] # n_graph /\ t \in Team
      /\ n_barrier' = n_barrier /\ n_barrier_passed' = n_barrier_passed /\ abort' = abort
      /\ out' = out /\ current_chunk' = current_chunk /\ wdata' = wdata /\ node' = node
  BY <1>1, WorkerShape
<1>3. Away(t) /\ ~Held(t)
  BY <1>2, WorkerAway
<1>4. Away(t)' \/ pc'[t] = "start"
  BY <1>2, <1>3 DEF Away
<1>5. Stretch'
  BY <1>1, <1>2, <1>4, AwayStretch
<1>6. BarrierCounts'
  BY <1>1, <1>2, <1>3, BarrierOutside DEF Same
<1>7. ASSUME NEW u \in Thread, Busy(u)'
      PROVE  /\ u # 0 => last_graph'[u] = n_graph'
             /\ pc'[u] # "start" => nth'[u] = n_graph'.threads
  <2>1. CASE u = t
    BY <1>1, <1>2, <1>7, <2>1 DEF Busy, Computing
  <2>2. CASE u # t
    <3>1. Same(u)
      BY <1>1, <2>2
    <3>2. Busy(u)
      BY <1>2, <1>7, <3>1 DEF Busy, Same, Released
    <3> QED BY <1>1, <3>1, <3>2 DEF Same, Engaged
  <2> QED BY <2>1, <2>2
<1>8. ASSUME NEW u \in Thread \ Team, u # 0 PROVE Away(u)'
  <2>1. CASE u = t
    BY <1>2, <1>4, <1>8, <2>1 DEF Away
  <2>2. CASE u # t
    BY <1>1, <1>2, <1>8, <2>2 DEF Others, Away, Same, Released
  <2> QED BY <2>1, <2>2
<1> QED BY <1>1, <1>5, <1>6, <1>7, <1>8 DEF IInv, Engaged, Others

(* Between two graphs the pool is idle: no worker takes part in anything.   *)
LEMMA ClientIdle ==
    ASSUME IInv, pc[0] \in {"idle", "kickoff", "join", "freed", "finish"}
    PROVE  /\ pc[0] = "finish" => Over
           /\ pc[0] # "finish" => Idle
           /\ \A t \in Thread \ {0} : Away(t)
           /\ \A t \in Thread : ~Held(t) /\ pc[t] \notin {"arrive", "last", "pass"} /\ ~Busy(t)
<1>1. Typed /\ Len(Nodes) \in Nat
  BY NodesType DEF IInv
<1>2. ASSUME n_graph.threads > 0, NEW k, Ahead(k) \/ Product(k) PROVE FALSE
  <2>1. 0 \in Team
    <3>1. n_graph.threads \in Nat
      BY <1>1, TeamThreads
    <3> QED BY <1>2, <3>1 DEF Team
  <2>2. CASE Ahead(k)
    BY <2>1, <2>2 DEF Ahead, InAhead, Doing, Away, AtBarrier, Released, Held
  <2>3. CASE Product(k)
    BY <2>1, <2>3 DEF Product, InProduct, Holding, AtBarrier, Released, Held
  <2> QED BY <1>2, <2>2, <2>3
<1>3. Idle \/ Over
  BY <1>2 DEF IInv, Stretch
<1>4. (pc[0] = "finish" => Over) /\ (pc[0] # "finish" => Idle)
  BY <1>3 DEF Idle, Over, Released
<1>5. \A t \in Thread \ {0} : Away(t)
  BY <1>3 DEF Idle, Over, Rested, IInv, Others
<1>6. ASSUME NEW t \in Thread
      PROVE  ~Held(t) /\ pc[t] \notin {"arrive", "last", "pass"} /\ ~Busy(t)
  <2>1. CASE t = 0
    BY <2>1 DEF Held, Busy, Computing
  <2>2. CASE t # 0
    <3>1. Away(t) /\ n_passed[t] \in Nat /\ n_barrier_passed \in Nat
      BY <1>1, <1>5, <2>2 DEF Typed
    <3> QED BY <3>1 DEF Away, Held, Released, Busy, Computing
  <2> QED BY <2>1, <2>2
<1> QED BY <1>4, <1>5, <1>6

(* The client's steps keep the invariant. *)
LEMMA ClientInvariant ==
    ASSUME IInv,
           (\E p \in Plans : Compute(p)) \/ Kickoff \/ Finish \/ Pause \/ Resume \/ Free \/ Join
           \/ UNCHANGED vars
    PROVE  IInv'
<1>1. Typed /\ Typed' /\ 0 \in Thread
  BY TypedClient, ZeroIsThread DEF IInv
<1>2. CASE Pause \/ Resume \/ UNCHANGED vars
  <2>1. UNCHANGED <<shared, barrier, local, n_graph, current_chunk, pc, last_graph, wdata>>
    BY <1>2 DEF Pause, Resume, vars
  <2>2. Team' = Team /\ Nodes' = Nodes
    BY <2>1 DEF Team, Nodes, shared
  <2>3. \A t : /\ Held(t)' <=> Held(t)
               /\ \A r : (Released(t, r)' <=> Released(t, r)) /\ (AtBarrier(t, r)' <=> AtBarrier(t, r))
               /\ Away(t)' <=> Away(t)
    BY <2>1 DEF Held, Released, AtBarrier, Away, barrier, local
  <2>4. Engaged' /\ Others'
    BY <2>1, <2>2, <2>3 DEF Engaged, Others, Busy, IInv, local
  <2>5. BarrierCounts'
    <3>1. Arrived' = Arrived
      BY <2>1, <2>2, <2>3 DEF Arrived
    <3> QED BY <2>1, <2>2, <2>3, <3>1 DEF BarrierCounts, IInv, barrier, local
  <2>6. Stretch'
    <3>1. Idle => Idle'
      BY <2>1, <2>2, <2>3 DEF Idle, Rested, shared, local
    <3>2. Over => Over'
      BY <2>1, <2>2, <2>3 DEF Over, Rested, Complete, Parts, Kind, shared, local
    <3>3. ASSUME NEW k \in 0 .. Len(Nodes), n_graph.threads > 0, Ahead(k) PROVE Ahead(k)'
      <4>1. /\ cplan' = cplan /\ n_graph' = n_graph /\ n_barrier_passed' = n_barrier_passed
            /\ abort' = abort /\ current_chunk' = current_chunk /\ out' = out
            /\ \A u \in Thread : Same(u)
        BY <2>1 DEF shared, barrier, local, Same
      <4>2. ASSUME NEW u \in Team PROVE InAhead(u, k)'
        BY <1>1, <3>3, <4>1, <4>2, AheadFrame, TeamThreads DEF Ahead
      <4>3. 0 \in Team
        <5>1. n_graph.threads \in Nat
          BY <1>1, TeamThreads
        <5> QED BY <3>3, <5>1 DEF Team
      <4> QED BY <1>1, <3>3, <4>1, <4>2, <4>3, AheadKept
    <3>4. ASSUME NEW k \in 0 .. Len(Nodes), Product(k) PROVE Product(k)'
      <4>1. /\ cplan' = cplan /\ n_graph' = n_graph /\ n_barrier_passed' = n_barrier_passed
            /\ abort' = abort /\ current_chunk' = current_chunk /\ out' = out /\ wdata' = wdata
            /\ \A u \in Thread : Same(u)
        BY <2>1 DEF shared, barrier, local, Same
      <4>2. k \in Nat
        BY <1>1, NodesType
      <4>3. 0 \in Team => /\ InProduct(0, k)' /\ (Holding(0)' <=> Holding(0))
                          /\ (Holding(0) => Holds(0)' = Holds(0))
        BY <1>1, <3>4, <4>1, <4>2, ProductFrame DEF Product
      <4> QED BY <1>1, <3>4, <4>1, <4>3, ProductKept
    <3>5. n_graph' = n_graph
      BY <2>1
    <3> QED BY <2>2, <3>1, <3>2, <3>3, <3>4, <3>5 DEF Stretch, IInv
  <2> QED BY <1>1, <2>4, <2>5, <2>6 DEF IInv
<1>3. CASE ~(Pause \/ Resume \/ UNCHANGED vars)
  <2>1. pc[0] \in {"idle", "kickoff", "join", "freed", "finish"}
    BY <1>3 DEF Compute, Kickoff, Finish, Free, Join
  <2>2. /\ pc[0] = "finish" => Over
        /\ pc[0] # "finish" => Idle
        /\ \A t \in Thread \ {0} : Away(t)
        /\ \A t \in Thread : ~Held(t) /\ pc[t] \notin {"arrive", "last", "pass"} /\ ~Busy(t)
    BY <2>1, ClientIdle
  <2>3. /\ UNCHANGED <<barrier, local, last_graph>>
        /\ \E x \in {"kickoff", "start", "idle", "join", "freed"} : pc' = [pc EXCEPT ![0] = x]
    BY <1>3 DEF Compute, Kickoff, Finish, Free, Join, Goto
  <2>4. \A t \in Thread \ {0} : pc'[t] = pc[t]
    BY <1>1, <2>3 DEF Typed
  <2>5. pc'[0] \in {"kickoff", "start", "idle", "join", "freed"}
    BY <1>1, <2>3 DEF Typed
  <2>6. \A t \in Thread \ {0} : Away(t)' /\ ~Busy(t)'
    <3>1. ASSUME NEW t \in Thread \ {0} PROVE Away(t)' /\ ~Busy(t)'
      <4>1. Away(t) /\ ~Busy(t)
        BY <2>2
      <4> QED BY <2>3, <2>4, <4>1 DEF Away, Busy, Released, barrier, local
    <3> QED BY <3>1
  <2>7. Others'
    BY <2>6 DEF Others
  <2>8. Engaged'
    BY <2>5, <2>6 DEF Engaged, Busy, Computing
  <2>9. BarrierCounts'
    <3>1. \A t \in Thread : ~Held(t)' /\ pc'[t] \notin {"arrive", "last", "pass"}
      BY <2>2, <2>3, <2>4, <2>5 DEF Held, barrier, local
    <3>2. Arrived = {} /\ Arrived' = {}
      <4>1. Team \subseteq Thread
        BY <1>1, TeamThreads
      <4>2. Team' \subseteq Thread
        <5>1. n_graph'.threads \in 0 .. NThreads /\ NThreads \in Nat
          BY <1>1, PoolAssumption DEF Typed
        <5> QED BY <5>1 DEF Team, Thread
      <4> QED BY <2>2, <3>1, <4>1, <4>2 DEF Arrived
    <3>3. n_barrier = Cardinality(Arrived)
      BY <2>2 DEF IInv, BarrierCounts
    <3> QED BY <2>3, <3>1, <3>2, <3>3 DEF BarrierCounts, barrier
  <2>10. Stretch'
    <3>1. node'[0] = node[0]
      BY <2>3 DEF local
    <3>2. CASE \E p \in Plans : Compute(p)
      <4>1. PICK p \in Plans : Compute(p)
        BY <3>2
      <4>2. /\ pc'[0] = "kickoff" /\ abort' = -1 /\ n_graph' = n_graph
            /\ \A k \in DOMAIN out' : out'[k] = {}
        BY <1>1, <4>1 DEF Compute, Goto, Typed
      <4>3. Idle
        BY <2>2, <4>1 DEF Compute
      <4>4. Rested'
        <5>1. Team' = Team /\ \A t \in Team \ {0} : last_graph[t] = n_graph /\ t \in Thread
          BY <1>1, <4>2, <4>3, TeamThreads DEF Team, Idle, Rested
        <5> QED BY <2>3, <2>6, <4>2, <5>1 DEF Rested
      <4> QED BY <3>1, <4>2, <4>3, <4>4 DEF Idle, Stretch
    <3>3. CASE Finish \/ Free \/ Join
      <4>1. Idle \/ Over
        BY <2>1, <2>2
      <4>2. Team' = Team /\ n_graph' = n_graph /\ pc'[0] \in {"idle", "join", "freed"}
        BY <1>1, <3>3 DEF Finish, Free, Join, Goto, Typed, Team
      <4>3. Rested'
        <5>1. \A t \in Team \ {0} : last_graph[t] = n_graph /\ t \in Thread
          BY <1>1, <4>1, TeamThreads DEF Idle, Over, Rested
        <5> QED BY <2>3, <2>6, <4>2, <5>1 DEF Rested
      <4>4. node[0] = 0
        BY <4>1 DEF Idle, Over
      <4> QED BY <3>1, <4>2, <4>3, <4>4 DEF Idle, Stretch
    <3>4. CASE Kickoff
      <4>1. /\ pc[0] = "kickoff" /\ pc'[0] = "start" /\ cplan' = cplan /\ abort' = abort
            /\ out' = out /\ Nodes' = Nodes
        BY <1>1, <3>4 DEF Kickoff, Goto, Typed, shared, Nodes
      <4>2. Idle
        BY <2>2, <4>1
      <4>3. node'[0] = 0 /\ abort' = -1 /\ \A k \in DOMAIN out' : out'[k] = {}
        BY <3>1, <4>1, <4>2 DEF Idle
      <4>4. n_graph'.threads > 0 /\ n_graph'.threads \in Nat
        <5>1. cplan.threads \in Nat \ {0} /\ NThreads \in Nat \ {0}
          BY <1>1, PoolAssumption DEF Typed
        <5>2. n_graph'.threads = IF cplan.threads < NThreads THEN cplan.threads ELSE NThreads
          BY <3>4 DEF Kickoff
        <5> QED BY <5>1, <5>2
      <4>5. Len(Nodes) \in Nat /\ DOMAIN out' = 0 .. Len(Nodes) - 1
        BY <1>1, <4>1, NodesType DEF Typed
      <4>6. InAhead(0, 0)'
        <5>1. Doing(0, 0, 0)'
          BY <4>1 DEF Doing
        <5> QED BY <4>1, <4>3, <4>5, <5>1 DEF InAhead
      <4>7. ASSUME NEW t \in Thread \ {0} PROVE InAhead(t, 0)'
        <5>1. Away(t)' /\ node'[t] = 0
          BY <2>6 DEF Away
        <5>2. Doing(t, 0, 0)'
          BY <5>1 DEF Doing
        <5> QED BY <4>1, <4>5, <5>1, <5>2 DEF InAhead
      <4>8. Team' \subseteq Thread
        <5>1. n_graph'.threads \in 0 .. NThreads /\ NThreads \in Nat
          BY <1>1, PoolAssumption DEF Typed
        <5> QED BY <5>1 DEF Team, Thread
      <4>9. Ahead(0)'
        BY <4>1, <4>3, <4>5, <4>6, <4>7, <4>8 DEF Ahead
      <4> QED BY <4>1, <4>4, <4>5, <4>9 DEF Stretch
    <3> QED BY <1>3, <3>2, <3>3, <3>4
  <2> QED BY <1>1, <2>7, <2>8, <2>9, <2>10 DEF IInv
<1> QED BY <1>2, <1>3

(* The invariant holds of a new pool. *)
LEMMA InvariantInit == Init => IInv
<1> SUFFICES ASSUME Init PROVE IInv
  OBVIOUS
<1>1. Typed /\ 0 \in Thread
  BY TypedInit, ZeroIsThread
<1>2. \A t \in Thread : /\ pc[t] = (IF t = 0 THEN "idle" ELSE "top") /\ node[t] = 0
                        /\ last_graph[t] = NoGraph
  BY DEF Init
<1>3. n_graph = NoGraph /\ n_barrier = 0 /\ n_graph.threads = 0
  BY DEF Init, NoGraph
<1>4. \A t \in Thread : /\ ~Busy(t) /\ ~Held(t) /\ pc[t] \notin {"arrive", "last", "pass"}
                        /\ t # 0 => Away(t)
  BY <1>2 DEF Busy, Computing, Held, Away
<1>5. Team = {}
  BY <1>3 DEF Team
<1>6. BarrierCounts
  <2>1. Arrived = {}
    BY <1>5 DEF Arrived
  <2> QED BY <1>3, <1>4, <2>1, FS_EmptySet DEF BarrierCounts
<1>7. Stretch
  BY <1>1, <1>2, <1>5 DEF Stretch, Idle, Rested
<1> QED BY <1>1, <1>4, <1>6, <1>7 DEF IInv, Engaged, Others

(* Every step keeps the invariant. *)
LEMMA InvariantStep == IInv /\ [Next]_vars => IInv'
<1> SUFFICES ASSUME IInv, [Next]_vars PROVE IInv'
  OBVIOUS
<1>1. CASE (\E p \in Plans : Compute(p)) \/ Kickoff \/ Finish \/ Pause \/ Resume \/ Free \/ Join
           \/ UNCHANGED vars
  BY <1>1, ClientInvariant
<1>2. CASE ComputeStep(0)
  BY <1>2, ZeroIsThread, ComputeInvariant
<1>3. ASSUME NEW t \in Thread \ {0}, WorkerStep(t) PROVE IInv'
  BY <1>3, ComputeInvariant, WorkerInvariant DEF WorkerStep
<1> QED BY <1>1, <1>2, <1>3 DEF Next, MainStep, Freed

-----------------------------------------------------------------------------
(* The theorems.                                                            *)

(* Between two barriers the threads of a graph work on one stretch of it:   *)
(* an operation, or the conversions for a product, or the product itself;   *)
(* behind the stretch all is complete and before it nothing is begun.       *)
THEOREM PoolInvariance == Spec => []IInv
BY InvariantInit, InvariantStep, PTL DEF Spec

(* What the invariant says of a thread that computes a node. *)
LEMMA InvariantInputs == IInv => InputsReady
<1> SUFFICES ASSUME IInv, NEW t \in Thread, pc[t] \in {"op", "convert", "chunk"}
             PROVE  /\ \A k \in 0 .. node[t] - 1 : Complete(k)
                    /\ pc[t] = "chunk" =>
                          \A u \in 0 .. n_graph.threads - 1 : wdata[u] = node[t]
                    /\ pc[t] = "chunk" /\ chunk[t] \in Parts(node[t], nth[t]) =>
                          /\ chunk[t] \notin out[node[t]]
                          /\ \A u \in Thread \ {t} : pc[u] = "chunk" => chunk[u] # chunk[t]
  BY DEF InputsReady
<1>1. Typed /\ \A u \in Thread : pc[u] \in {"op", "convert", "chunk"} => Busy(u)
  BY DEF IInv, Busy, Computing, Released
<1>2. t \in Team /\ \A u \in Thread : pc[u] = "chunk" => u \in Team
  BY <1>1, Working
<1>3. PICK k \in 0 .. Len(Nodes) : Ahead(k) \/ Product(k)
  BY <1>1, Working
<1>4. k \in Nat /\ Len(Nodes) \in Nat
  BY <1>1, NodesType
<1>5. CASE Ahead(k)
  <2>1. PICK j \in 0 .. Len(Nodes) : node[t] = j /\ Doing(t, k, j)
    BY <1>2, <1>5 DEF Ahead, InAhead
  <2>2. pc[t] # "chunk" /\ Skipped(k, j)
    <3>1. j \in Nat
      BY <1>4
    <3> QED BY <1>1, <1>4, <2>1, <3>1, AheadAt DEF At
  <2> QED BY <1>1, <1>5, <2>1, <2>2, SkippedComplete
<1>6. CASE Product(k)
  <2>1. pc[t] = "chunk" /\ node[t] = k
    BY <1>2, <1>6 DEF Product, InProduct, Holding, Released, AtBarrier, Held
  <2>2. \A u \in Team : pc[u] = "chunk" => Holding(u) /\ Holds(u) = chunk[u]
    BY <1>1, TeamThreads DEF Holding, Holds, Typed
  <2>3. chunk[t] \notin out[k] /\ \A u \in Team \ {t} : pc[u] = "chunk" => chunk[u] # chunk[t]
    <3>1. CASE RowsShared(k)
      BY <1>2, <2>1, <2>2, <3>1 DEF RowsShared
    <3>2. CASE ChunksShared(k)
      BY <1>2, <2>1, <2>2, <3>2 DEF ChunksShared
    <3> QED BY <1>6, <3>1, <3>2 DEF Product
  <2> QED BY <1>2, <1>6, <2>1, <2>3 DEF Product, Team
<1> QED BY <1>3, <1>5, <1>6

(* No thread begins a node before the nodes in front of it are complete,    *)
(* nor a product before all of src1 is converted for it, and no chunk is    *)
(* computed twice, for every number of threads and every graph.             *)
THEOREM Inputs == Spec => []InputsReady
BY PoolInvariance, InvariantInputs, PTL

(* What the invariant says when ggml_graph_compute returns. *)
LEMMA InvariantResult == IInv => ResultComplete
<1> SUFFICES ASSUME IInv, pc[0] = "finish"
             PROVE  \A k \in DOMAIN out :
                       IF ec = "SUCCESS" \/ k < abort THEN Complete(k) ELSE out[k] = {}
  BY DEF ResultComplete
<1>1. Over
  BY ClientIdle
<1>2. ec = "SUCCESS" <=> abort = -1
  BY DEF IInv, Typed
<1> QED BY <1>1, <1>2 DEF Over

(* When ggml_graph_compute returns, every node is complete; after an abort  *)
(* those before it are, and nothing of the others is begun.                 *)
THEOREM Results == Spec => []ResultComplete
BY PoolInvariance, InvariantResult, PTL

(* What the invariant says while the client may set the pool's parameters. *)
LEMMA InvariantParams == IInv => ParamsUntouched
<1> SUFFICES ASSUME IInv, pc[0] \in {"idle", "kickoff", "join", "freed"},
                    NEW t \in Thread \ {0}, pc[t] \in Computing
             PROVE  pc[t] = "spin" /\ ret[t] = "end"
  BY DEF ParamsUntouched
<1>1. Away(t)
  BY ClientIdle
<1> QED BY <1>1 DEF Away, Computing, Released

(* Between two graphs no worker touches what ggml_graph_compute sets        *)
(* without synchronisation.                                                 *)
THEOREM Params == Spec => []ParamsUntouched
BY PoolInvariance, InvariantParams, PTL
=============================================================================
