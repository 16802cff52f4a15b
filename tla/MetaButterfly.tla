---------------------------- MODULE MetaButterfly ----------------------------
(***************************************************************************)
(* The generic all-reduce of the meta backend (ggml-backend-meta.cpp),     *)
(* used when no backend-specific one is available: the excess backends are *)
(* folded in, a butterfly of pairwise exchanges sums, and the result is    *)
(* copied back to the excess.  The host walks through the steps; each      *)
(* backend is a stream that runs what was queued on it in order.           *)
(*                                                                         *)
(* An exchange is ggml_backend_tensor_copy_async.  Where the backends copy *)
(* asynchronously (CUDA) the copy is queued on the source's stream and the *)
(* destination's stream is made to wait for it; else the host waits until  *)
(* both are idle and copies itself.                                        *)
(*                                                                         *)
(* Data.  A sum is represented by the set of the partial sums it is made   *)
(* of, each the set of its contributions <<backend, call>>: addition       *)
(* commutes but does not associate, so two sums have the same bits when    *)
(* these sets are equal.  {} stands for a meaningless value.               *)
(***************************************************************************)
EXTENDS Integers, Sequences, FiniteSets, SequencesExt

CONSTANTS
    Sizes,      \* numbers of backends
    Inactive,   \* how many backends may lack the COMPUTE flag in a subgraph
    Settings    \* the kinds of systems: records with the fields
                \*   sizes   numbers of backends, of Sizes
                \*   async   whether cpy_tensor_async of the backend takes the copy
                \*   fail    whether graph_compute_async may return an error
                \*   calls   bound of the model: subgraphs that end in an all-reduce

ASSUME MetaAssumption ==
    /\ Sizes \subseteq Nat \ {0, 1} /\ Inactive \subseteq Nat
    /\ Settings \subseteq [sizes : SUBSET Sizes, async : BOOLEAN, fail : BOOLEAN, calls : Nat]

VARIABLES
    setting,
    n_backends,
    call,      \* the subgraph being computed, numbered over all evaluations
    first,     \* the first subgraph of this evaluation
    idle,      \* backends whose node lacks the COMPUTE flag in this subgraph
    pc,        \* next step of the host within the subgraph
    ina,       \* auxiliary tensors taken in this evaluation
    queue,     \* queue[j]: operations enqueued on backend j
    ran,       \* ran[j]: how many of them have completed
    waits,     \* waits[j]: events the next operation of j waits for
    node,      \* node[j]: the last node of j's subgraph
    bufs,      \* bufs[j][i_buf]: the receive buffers of j
    recv,      \* history, recv[j][c]: what the next subgraph reads after call c
    failed     \* history: calls whose evaluation was given up

host   == <<call, first, idle, pc, ina>>
memory == <<node, bufs, recv>>
system == <<setting, n_backends>>
vars   == <<system, host, queue, ran, waits, memory, failed>>

AsyncCopy == setting.async
MayFail   == setting.fail
MaxCall   == setting.calls

Backend == 0 .. n_backends - 1
Pow2    == [e \in 0 .. 8 |-> 2^e]

(* ceil(log2(n)) *)
NReduceSteps(n) == CHOOSE s \in DOMAIN Pow2 : Pow2[s] >= n /\ \A t \in 0 .. s - 1 : Pow2[t] < n

(* The first offset is 2^K(n), the largest power of 2 up to n / 2. *)
K(n) == CHOOSE e \in DOMAIN Pow2 : Pow2[e] <= n \div 2 /\ n \div 2 < 2 * Pow2[e]
Paired(n) == 2 * Pow2[K(n)]

-----------------------------------------------------------------------------
(* The steps of the host for one subgraph of n backends. *)
Step(what, src, dst, buf) == [what |-> what, src |-> src, dst |-> dst, buf |-> buf]

(* j ^ 2^e *)
Other(j, e) == IF (j \div Pow2[e]) % 2 = 0 THEN j + Pow2[e] ELSE j - Pow2[e]

Each(n, Op(_)) == [x \in 1 .. n |-> Op(x - 1)]

Computes(n) == Each(n, LAMBDA j : Step("compute", j, j, 0))
Zeroes(n)   == Each(n, LAMBDA j : Step("zero", j, j, 0))

(* A bug: the fold's sum is not started. *)
FoldNoAdd(n) ==
    Each(n - Paired(n), LAMBDA x : Step("push", Paired(n) + x, x, IF x = 0 THEN 0 ELSE 1))

(* Backends past the last power of 2 send to their counterparts.  The first *)
(* uses buffer 0; i_buf is 1 from then on, for the second excess backend    *)
(* already.                                                                 *)
Fold(n) ==
    FlattenSeq(Each(n - Paired(n), LAMBDA x :
        << Step("push", Paired(n) + x, x, IF x = 0 THEN 0 ELSE 1),
           Step("add", x, x, IF x = 0 THEN 0 ELSE 1) >>))

(* The buffer of butterfly step t. *)
BufOf(n, t) == IF n = Paired(n) THEN t ELSE 1 + t

(* A bug: a backend starts its sum as soon as it has sent. *)
ButterflyEager(n) ==
    FlattenSeq(Each(K(n) + 1, LAMBDA t :
        FlattenSeq(Each(Paired(n), LAMBDA j :
            << Step("push", j, Other(j, K(n) - t), BufOf(n, t)),
               Step("add", j, j, BufOf(n, t)) >>))))

(* At every distance first all exchanges, then all sums. *)
Butterfly(n) ==
    FlattenSeq(Each(K(n) + 1, LAMBDA t :
        Each(Paired(n), LAMBDA j : Step("push", j, Other(j, K(n) - t), BufOf(n, t))) \o
        Each(Paired(n), LAMBDA j : Step("add", j, j, BufOf(n, t)))))

(* A bug: the excess backends keep what they had. *)
CopyBackNone(n) == <<>>

CopyBack(n) ==
    Each(n - Paired(n), LAMBDA x : Step("copy_back", x, Paired(n) + x, 0))

AllReduceSteps == [n \in Sizes |-> Computes(n) \o Zeroes(n) \o Fold(n) \o Butterfly(n) \o CopyBack(n)]

(* No all-reduce follows the last subgraph. *)
Steps == IF call <= MaxCall THEN AllReduceSteps[n_backends] ELSE Computes(n_backends)

-----------------------------------------------------------------------------
Init ==
    /\ setting \in Settings
    /\ n_backends \in setting.sizes
    /\ call = 1 /\ first = 1 /\ pc = 1 /\ ina = 0
    /\ idle = {}
    /\ queue = [j \in Backend |-> <<>>]
    /\ ran   = [j \in Backend |-> 0]
    /\ waits = [j \in Backend |-> {}]
    /\ node  = [j \in Backend |-> {}]
    /\ bufs  = [j \in Backend |-> [b \in 0 .. NReduceSteps(n_backends) - 1 |-> {}]]
    /\ recv  = [j \in Backend |-> [c \in 1 .. MaxCall |-> {}]]
    /\ failed = {}

(* An operation of a stream; peer is the destination of a copy, after what  *)
(* it waits for.                                                            *)
Op(kind, c, peer, buf, after) ==
    [kind |-> kind, call |-> c, peer |-> peer, buf |-> buf, after |-> after]

Enqueue(j, kind, peer, buf) ==
    /\ queue' = [queue EXCEPT ![j] = Append(@, Op(kind, call, peer, buf, waits[j]))]

(* The host moves on to the next step, or the next subgraph. *)
Advance(aux) ==
    /\ ina' = ina + aux
    /\ IF pc < Len(Steps) THEN pc' = pc + 1 /\ UNCHANGED call
                          ELSE pc' = 1 /\ call' = call + 1
    /\ UNCHANGED first

HostAt(what) == call <= MaxCall + 1 /\ Steps[pc].what = what

(* ggml_backend_graph_compute_async of one backend. *)
GraphCompute(j, kind, buf, aux) ==
    /\ Enqueue(j, kind, j, buf)
    /\ waits' = [waits EXCEPT ![j] = {}]
    /\ Advance(aux)
    /\ UNCHANGED <<system, ran, memory, failed>>

(* The subgraph itself.  The flags of the nodes come with the graph. *)
Compute ==
    /\ HostAt("compute")
    /\ IF pc = 1 THEN \E q \in SUBSET Backend : Cardinality(q) \in Inactive /\ idle' = q
                 ELSE UNCHANGED idle
    /\ LET j == Steps[pc].src IN GraphCompute(j, IF j \in idle' THEN "scratch" ELSE "compute", 0, 0)

(* A backend without the flag is made to contribute zeros. *)
ZeroOut ==
    /\ HostAt("zero")
    /\ UNCHANGED idle
    /\ IF Steps[pc].src \in idle THEN GraphCompute(Steps[pc].src, "zero", 0, 1)
       ELSE Advance(0) /\ UNCHANGED <<system, queue, ran, waits, memory, failed>>

StartAdd ==
    /\ HostAt("add")
    /\ UNCHANGED idle
    /\ GraphCompute(Steps[pc].src, "add", Steps[pc].buf, 0)

(* An error of graph_compute_async ends the evaluation; the caller may      *)
(* evaluate the graph again.                                                *)
ComputeFails ==
    /\ MayFail
    /\ HostAt("compute") \/ HostAt("add") \/ (HostAt("zero") /\ Steps[pc].src \in idle)
    /\ call <= MaxCall
    /\ failed' = failed \cup {call}
    /\ call' = call + 1 /\ first' = call + 1 /\ pc' = 1 /\ ina' = 0
    /\ UNCHANGED <<system, idle, queue, ran, waits, memory>>

(* ggml_backend_synchronize has returned for j. *)
Drained(j) == ran[j] = Len(queue[j]) /\ \A w \in waits[j] : ran[w[1]] >= w[2]

Store(src, dst, kind, buf) ==
    IF kind = "push" THEN bufs' = [bufs EXCEPT ![dst][buf] = node[src]] /\ UNCHANGED <<node, recv>>
                     ELSE node' = [node EXCEPT ![dst] = node[src]] /\ UNCHANGED <<bufs, recv>>

(* ggml_backend_tensor_copy_async *)
TensorCopyAsync(src, dst, kind, buf) ==
    IF AsyncCopy
    THEN /\ Enqueue(src, kind, dst, buf)
         /\ waits' = [waits EXCEPT ![src] = {}, ![dst] = @ \cup {<<src, Len(queue[src]) + 1>>}]
         /\ UNCHANGED <<ran, memory>>
    ELSE /\ Drained(src)
         /\ Drained(dst)
         /\ Store(src, dst, kind, buf)
         /\ UNCHANGED <<queue, ran, waits>>

(* A bug: a push takes two nodes and one more for its view. *)
PushThreeAux ==
    /\ HostAt("push")
    /\ TensorCopyAsync(Steps[pc].src, Steps[pc].dst, "push", Steps[pc].buf)
    /\ Advance(3)
    /\ UNCHANGED <<system, idle, failed>>

(* push_data takes a node for the copy and one for the sum. *)
Push ==
    /\ HostAt("push")
    /\ TensorCopyAsync(Steps[pc].src, Steps[pc].dst, "push", Steps[pc].buf)
    /\ Advance(2)
    /\ UNCHANGED <<system, idle, failed>>

SendBack ==
    /\ HostAt("copy_back")
    /\ TensorCopyAsync(Steps[pc].src, Steps[pc].dst, "copy_back", 0)
    /\ Advance(0)
    /\ UNCHANGED <<system, idle, failed>>

-----------------------------------------------------------------------------
(* The streams. *)
Pending(j) == ran[j] < Len(queue[j])
Head_(j)   == queue[j][ran[j] + 1]
Ready(j)   == Pending(j) /\ \A w \in Head_(j).after : ran[w[1]] >= w[2]

Retire(j, kinds) ==
    /\ Ready(j)
    /\ Head_(j).kind \in kinds
    /\ ran' = [ran EXCEPT ![j] = @ + 1]
    /\ UNCHANGED <<system, host, queue, waits, failed>>

(* A subgraph reads the result of the call before, if its evaluation went   *)
(* on, and produces the backend's own part; without the flag nothing is     *)
(* computed and the memory holds anything.                                  *)
RunCompute(j) ==
    LET c == Head_(j).call IN
    /\ Retire(j, {"compute", "scratch"})
    /\ recv' = IF c > 1 THEN [recv EXCEPT ![j][c - 1] = node[j]] ELSE recv
    /\ node' = [node EXCEPT ![j] = IF Head_(j).kind = "compute" THEN {{<<j, c>>}} ELSE {}]
    /\ UNCHANGED bufs

RunZero(j) ==
    /\ Retire(j, {"zero"})
    /\ node' = [node EXCEPT ![j] = {{<<j, Head_(j).call>>}}]
    /\ UNCHANGED <<bufs, recv>>

Plus(a, b) ==
    IF a = {} \/ b = {} \/ (UNION a) \cap (UNION b) # {} THEN {}
    ELSE a \cup b \cup {(UNION a) \cup (UNION b)}

RunAdd(j) ==
    /\ Retire(j, {"add"})
    /\ node' = [node EXCEPT ![j] = Plus(@, bufs[j][Head_(j).buf])]
    /\ UNCHANGED <<bufs, recv>>

RunCopy(j) ==
    /\ Retire(j, {"push", "copy_back"})
    /\ Store(j, Head_(j).peer, Head_(j).kind, Head_(j).buf)

Terminated ==
    /\ call = MaxCall + 2
    /\ \A j \in Backend : Drained(j)
    /\ UNCHANGED vars

HostStep == Compute \/ ZeroOut \/ StartAdd \/ Push \/ SendBack
Run(j)   == RunCompute(j) \/ RunZero(j) \/ RunAdd(j) \/ RunCopy(j)

Next == HostStep \/ ComputeFails \/ (\E j \in Backend : Run(j)) \/ Terminated

Spec == Init /\ [][Next]_vars

-----------------------------------------------------------------------------
(* "tmp + ADD (+zeroing) graph per step and device": an evaluation takes no *)
(* more auxiliary tensors than were allocated for its subgraphs so far.     *)
AuxFits ==
    ina <= 3 * NReduceSteps(n_backends) * n_backends * (call - first + 1)

(* What an operation of stream j reads and writes. *)
Reads(j, o) ==
    {<<"node", j>>} \cup (IF o.kind = "add" THEN {<<"bufs", j, o.buf>>} ELSE {})

Writes(j, o) ==
    CASE o.kind = "push"      -> {<<"bufs", o.peer, o.buf>>}
      [] o.kind = "copy_back" -> {<<"node", o.peer>>}
      [] OTHER                -> {<<"node", j>>}

(* Operations that may run at the same time on two backends never touch the *)
(* same memory, one of them writing.                                        *)
NoDataRace ==
    \A j, p \in Backend :
        j # p /\ Ready(j) /\ Ready(p) =>
            Writes(j, Head_(j)) \cap (Writes(p, Head_(p)) \cup Reads(p, Head_(p))) = {}

(* The subgraph after call c has run on j. *)
Received(j, c) ==
    \E x \in 1 .. ran[j] :
        queue[j][x].kind \in {"compute", "scratch"} /\ queue[j][x].call = c + 1

(* What a subgraph reads of a call whose evaluation went on is the sum of   *)
(* every backend's contribution to that call, each added once, even if an   *)
(* earlier evaluation was given up halfway.                                 *)
SumExact ==
    \A j \in Backend, c \in 1 .. MaxCall :
        c \notin failed /\ Received(j, c) => UNION recv[j][c] = Backend \X {c}

(* Every backend continues with the same bits: the butterfly associates the *)
(* sum in the same way everywhere, the excess backends included.            *)
BitIdentical ==
    \A j, p \in Backend, c \in 1 .. MaxCall :
        c \notin failed /\ Received(j, c) /\ Received(p, c) =>
            recv[j][c] = recv[p][c]
=============================================================================
