---------------------------- MODULE AllReduceCopy ----------------------------
(***************************************************************************)
(* The copy-engine path of ggml-cuda/allreduce.cu (copy_impl).             *)
(*                                                                         *)
(* The host only enqueues.  Every GPU has three streams: the caller's      *)
(* compute stream, one for device-to-host copies and one for host-to-      *)
(* device copies.  A stream runs its operations in order; across streams   *)
(* the order is what events impose.  A wait on an event refers to the      *)
(* event's last record at the time the wait is enqueued, so it stands for  *)
(* a number of operations that the recording stream must have completed:   *)
(* an operation carries those numbers in its field "after", and a record   *)
(* that a later call waits on is remembered as such a number.              *)
(*                                                                         *)
(* Data.  The contribution of rank r to call c is <<r, c>>; a cell of a    *)
(* buffer holds the sequence of the contributions summed into it, <<>>     *)
(* when its content means nothing.  The elements of a chunk share a cell.  *)
(***************************************************************************)
EXTENDS Integers, Sequences, FiniteSets, SequencesExt

CONSTANTS
    NRanks,     \* number of GPUs
    MaxChunks,  \* chunks of the largest tensor, GGML_CUDA_AR_COPY_MAX_CHUNKS
    Bf16,       \* for which wire types calls are made: a subset of BOOLEAN
    Inactive,   \* sets of ranks whose tensor may lack the COMPUTE flag
    MaxCall     \* bound of the model: calls of copy_impl

Rank   == 0 .. NRanks - 1
Chunk  == 0 .. MaxChunks - 1
Engine == {"comp", "d2h", "h2d"}

ASSUME CopyAssumption ==
    /\ NRanks \in Nat \ {0, 1}
    /\ MaxChunks \in Nat \ {0}
    /\ Bf16 \subseteq BOOLEAN
    /\ Inactive \subseteq SUBSET Rank
    /\ MaxCall \in Nat

GGML_CUDA_AR_POOL_SIZE == 2
Slot == 0 .. GGML_CUDA_AR_POOL_SIZE - 1

VARIABLES
    call_count,           \* calls of acquire_slot
    queue,                \* queue[g][r]: what the host enqueued on stream g of r
    ran,                  \* ran[g][r]: how many of those have completed
    ker,                  \* ker[s][r]: last record of event ker, on comp
    host_large_read_done, \* [r]: last record, on h2d
    dev_tmp_kernel_done,  \* [r]: last record, on comp
    data,                 \* data[r][k]: the tensor of rank r
    bf16_tmp,             \* [r][k]: the pool buffer for the converted tensor
    host_large,           \* [r][k]: pinned staging memory
    dev_tmp,              \* [r][p][k]: what r pulled of the contribution of p
    recv                  \* recv[r][k]: history, the last sum r stored

events == <<call_count, ker, host_large_read_done, dev_tmp_kernel_done>>
memory == <<data, bf16_tmp, host_large, dev_tmp, recv>>
vars == <<events, queue, ran, memory>>

-----------------------------------------------------------------------------
(* Enqueued operations.  "after" is the set of <<stream, rank, n>> waited   *)
(* for; peer and chunk matter to copies only.                               *)
Op(kind, c, n, bf16, peer, chunk, after) ==
    [kind |-> kind, call |-> c, chunks |-> n, bf16 |-> bf16,
     peer |-> peer, chunk |-> chunk, after |-> after]

(* What the D2H of a call must wait for: the compute stream up to the call, *)
(* and the peers' reads of the staging memory for the previous call.        *)
D2HAfter(r, app) ==
    {<<"comp", r, app>>} \cup
    {<<"h2d", p, host_large_read_done[p]>> : p \in Rank \ {r}}

(* What the first H2D waits for: the add that last read dev_tmp. *)
H2DAfter(r) == {<<"comp", r, dev_tmp_kernel_done[r]>>}

(* A bug: the add forgets its own D2H. *)
AddAfterH2D(r, h2d, cpy) == {<<"h2d", r, h2d>>}

(* What the add waits for: all its H2Ds, and its own last D2H. *)
AddAfter(r, h2d, cpy) == {<<"h2d", r, h2d>>, <<"d2h", r, cpy>>}

(* The peers of r, in rank order. *)
Peers(r) == [i \in 1 .. NRanks - 1 |-> IF i - 1 < r THEN i - 1 ELSE i]

(* On the compute stream before the handover: the caller's kernels, which   *)
(* reuse pool memory, and on the BF16 path the conversion or the zeroing of *)
(* both buffers.                                                            *)
Upstream(c, n, bf16, idle) ==
    <<Op(IF idle THEN "scratch" ELSE "produce", c, n, bf16, 0, 0, {})>> \o
    (IF bf16 THEN <<Op(IF idle THEN "zero" ELSE "convert", c, n, bf16, 0, 0, {})>>
             ELSE <<>>)

(* Stage 1 on the D2H stream of r. *)
Stage1(r, c, n, bf16, idle, app) ==
    LET first == D2HAfter(r, app)
        zero  == IF idle /\ ~bf16 THEN <<Op("zero", c, n, bf16, 0, 0, first)>> ELSE <<>>
    IN  zero \o [k \in 1 .. n |-> Op("d2h", c, n, bf16, r, k - 1, first)]

(* A bug: one event for all the chunks, recorded after the first. *)
Stage2OneEvent(r, c, n, bf16, cpy) ==
    LET m == NRanks - 1
        Pull(k, p) == Op("h2d", c, n, bf16, p, k,
                         H2DAfter(r) \cup {<<"d2h", p, cpy[p][0]>>})
    IN  [x \in 1 .. n * m |-> Pull((x - 1) \div m, Peers(r)[((x - 1) % m) + 1])]

(* Stage 2 on the H2D stream of r: chunk by chunk, peer by peer. *)
Stage2(r, c, n, bf16, cpy) ==
    LET m == NRanks - 1
        Pull(k, p) == Op("h2d", c, n, bf16, p, k,
                         H2DAfter(r) \cup {<<"d2h", p, cpy[p][k]>>})
    IN  [x \in 1 .. n * m |-> Pull((x - 1) \div m, Peers(r)[((x - 1) % m) + 1])]

(* A bug: a rank without the COMPUTE flag is not given the sum. *)
HandOffActive(r, c, n, bf16, idle, h2d, cpy) ==
    IF idle THEN <<>> ELSE <<Op("add", c, n, bf16, 0, 0, AddAfter(r, h2d, cpy))>>

(* The hand-off to the compute stream, where the add kernel runs. *)
HandOff(r, c, n, bf16, idle, h2d, cpy) ==
    <<Op("add", c, n, bf16, 0, 0, AddAfter(r, h2d, cpy))>>

-----------------------------------------------------------------------------
Init ==
    /\ call_count = 0
    /\ queue = [g \in Engine |-> [r \in Rank |-> <<>>]]
    /\ ran   = [g \in Engine |-> [r \in Rank |-> 0]]
    /\ ker   = [s \in Slot |-> [r \in Rank |-> 0]]
    /\ host_large_read_done = [r \in Rank |-> 0]
    /\ dev_tmp_kernel_done  = [r \in Rank |-> 0]
    /\ data       = [r \in Rank |-> [k \in Chunk |-> <<>>]]
    /\ bf16_tmp   = [r \in Rank |-> [k \in Chunk |-> <<>>]]
    /\ host_large = [r \in Rank |-> [k \in Chunk |-> <<>>]]
    /\ dev_tmp    = [r \in Rank |-> [p \in Rank |-> [k \in Chunk |-> <<>>]]]
    /\ recv       = [r \in Rank |-> [k \in Chunk |-> <<>>]]

(* ggml_cuda_ar_acquire_slot: blocks until event ker of the slot has        *)
(* completed on every device.                                               *)
AcquireSlot(slot) ==
    /\ slot = call_count % GGML_CUDA_AR_POOL_SIZE
    /\ call_count >= GGML_CUDA_AR_POOL_SIZE =>
           \A r \in Rank : ran["comp"][r] >= ker[slot][r]
    /\ call_count' = call_count + 1

(* One call of copy_impl on a tensor of n chunks, with what its caller      *)
(* enqueued before: only enqueuing, so the operations of the call appear in *)
(* the streams together, each held back by what it waits for.               *)
CopyImpl(n, bf16, idle) ==
    \E slot \in Slot :
    LET c      == call_count + 1
        up     == [r \in Rank |-> queue["comp"][r] \o Upstream(c, n, bf16, r \in idle)]
        d2h    == [r \in Rank |-> queue["d2h"][r] \o
                        Stage1(r, c, n, bf16, r \in idle, Len(up[r]))]
        cpy    == [r \in Rank |-> [k \in 0 .. n - 1 |-> Len(d2h[r]) - (n - 1) + k]]
        h2d    == [r \in Rank |-> queue["h2d"][r] \o Stage2(r, c, n, bf16, cpy)]
        comp   == [r \in Rank |-> up[r] \o
                        HandOff(r, c, n, bf16, r \in idle, Len(h2d[r]), cpy[r][n - 1])]
    IN
    /\ call_count < MaxCall
    /\ AcquireSlot(slot)
    /\ queue' = [g \in Engine |-> CASE g = "comp" -> comp
                                    [] g = "d2h"  -> d2h
                                    [] g = "h2d"  -> h2d]
    /\ host_large_read_done' = [r \in Rank |-> Len(h2d[r])]
    /\ dev_tmp_kernel_done'  = [r \in Rank |-> Len(comp[r])]
    /\ ker' = [ker EXCEPT ![slot] = [r \in Rank |-> Len(comp[r])]]
    /\ UNCHANGED <<ran, memory>>

-----------------------------------------------------------------------------
(* The operation at the head of a stream may run: what it waits for is done. *)
Pending(g, r) == ran[g][r] < Len(queue[g][r])
Head_(g, r)   == queue[g][r][ran[g][r] + 1]
Ready(g, r)   == /\ Pending(g, r)
                 /\ \A w \in Head_(g, r).after : ran[w[1]][w[2]] >= w[3]

Retire(g, r, kind) ==
    /\ Ready(g, r)
    /\ Head_(g, r).kind = kind
    /\ ran' = [ran EXCEPT ![g][r] = @ + 1]
    /\ UNCHANGED <<events, queue>>

(* The buffer f of one rank with the cells of the operation o set to Val.   *)
Fill(f, o, Val(_)) == [k \in Chunk |-> IF k < o.chunks THEN Val(k) ELSE f[k]]

(* The caller's kernels write the tensor, unless r is inactive for it, and  *)
(* whatever memory the allocator and the pool hand them.                    *)
Produce(r) ==
    LET o == Head_("comp", r) IN
    /\ Retire("comp", r, "produce")
    /\ data' = [data EXCEPT ![r] = Fill(@, o, LAMBDA k : <<<<r, o.call>>>>)]
    /\ bf16_tmp' = [bf16_tmp EXCEPT ![r] = [k \in Chunk |-> <<>>]]
    /\ UNCHANGED <<host_large, dev_tmp, recv>>

Scratch(r) ==
    LET o == Head_("comp", r) IN
    /\ Retire("comp", r, "scratch")
    /\ data' = [data EXCEPT ![r] = Fill(@, o, LAMBDA k : <<>>)]
    /\ bf16_tmp' = [bf16_tmp EXCEPT ![r] = [k \in Chunk |-> <<>>]]
    /\ UNCHANGED <<host_large, dev_tmp, recv>>

(* F32 -> BF16 into the pool buffer. *)
Convert(r) ==
    LET o == Head_("comp", r) IN
    /\ Retire("comp", r, "convert")
    /\ bf16_tmp' = [bf16_tmp EXCEPT ![r] = Fill(@, o, LAMBDA k : data[r][k])]
    /\ UNCHANGED <<data, host_large, dev_tmp, recv>>

(* A bug: on the BF16 path only the converted copy is zeroed. *)
ZeroCopyOnly(g, r) ==
    LET o == Head_(g, r) IN
    /\ Retire(g, r, "zero")
    /\ data' = IF o.bf16 THEN data
               ELSE [data EXCEPT ![r] = Fill(@, o, LAMBDA k : <<<<r, o.call>>>>)]
    /\ bf16_tmp' = IF o.bf16
                   THEN [bf16_tmp EXCEPT ![r] = Fill(@, o, LAMBDA k : <<<<r, o.call>>>>)]
                   ELSE bf16_tmp
    /\ UNCHANGED <<host_large, dev_tmp, recv>>

(* A rank without the COMPUTE flag contributes zeros: memset of the tensor  *)
(* on the D2H stream, or on the BF16 path of both buffers on comp.          *)
Zero(g, r) ==
    LET o == Head_(g, r) IN
    /\ Retire(g, r, "zero")
    /\ data' = [data EXCEPT ![r] = Fill(@, o, LAMBDA k : <<<<r, o.call>>>>)]
    /\ bf16_tmp' = IF o.bf16
                   THEN [bf16_tmp EXCEPT ![r] = Fill(@, o, LAMBDA k : <<<<r, o.call>>>>)]
                   ELSE bf16_tmp
    /\ UNCHANGED <<host_large, dev_tmp, recv>>

CopyD2H(r) ==
    LET o == Head_("d2h", r)
        src == IF o.bf16 THEN bf16_tmp ELSE data
    IN
    /\ Retire("d2h", r, "d2h")
    /\ host_large' = [host_large EXCEPT ![r][o.chunk] = src[r][o.chunk]]
    /\ UNCHANGED <<data, bf16_tmp, dev_tmp, recv>>

CopyH2D(r) ==
    LET o == Head_("h2d", r) IN
    /\ Retire("h2d", r, "h2d")
    /\ dev_tmp' = [dev_tmp EXCEPT ![r][o.peer][o.chunk] = host_large[o.peer][o.chunk]]
    /\ UNCHANGED <<data, bf16_tmp, host_large, recv>>

(* ggml_cuda_ar_add_kernel: sums in rank order, in place. *)
Contributions(r, k) ==
    FlattenSeq([p \in 1 .. NRanks |->
                   IF p - 1 = r THEN data[r][k] ELSE dev_tmp[r][p - 1][k]])

Add(r) ==
    LET o == Head_("comp", r) IN
    /\ Retire("comp", r, "add")
    /\ data' = [data EXCEPT ![r] = Fill(@, o, LAMBDA k : Contributions(r, k))]
    /\ recv' = [recv EXCEPT ![r] = Fill(@, o, LAMBDA k : Contributions(r, k))]
    /\ UNCHANGED <<bf16_tmp, host_large, dev_tmp>>

Terminated ==
    /\ call_count = MaxCall
    /\ \A g \in Engine, r \in Rank : ~Pending(g, r)
    /\ UNCHANGED vars

CompStep(r) == Produce(r) \/ Scratch(r) \/ Convert(r) \/ Zero("comp", r) \/ Add(r)
D2HStep(r)  == Zero("d2h", r) \/ CopyD2H(r)

Next ==
    \/ \E n \in 1 .. MaxChunks, bf16 \in Bf16, idle \in Inactive : CopyImpl(n, bf16, idle)
    \/ \E r \in Rank : CompStep(r) \/ D2HStep(r) \/ CopyH2D(r)
    \/ Terminated

Spec == Init /\ [][Next]_vars

(* A GPU runs every operation that is ready on each of its streams. *)
FairSpec ==
    /\ Spec
    /\ \A r \in Rank : /\ WF_vars(CompStep(r))
                       /\ WF_vars(D2HStep(r))
                       /\ WF_vars(CopyH2D(r))

-----------------------------------------------------------------------------
(* The memory an operation on a stream of r writes and reads. *)
Cells(f, r, p, n) == {<<f, r, p, k>> : k \in 0 .. n - 1}

Source(o) == IF o.bf16 THEN "bf16_tmp" ELSE "data"

Writes(o, r) ==
    CASE o.kind \in {"produce", "scratch"} ->
            Cells("data", r, r, o.chunks) \cup Cells("bf16_tmp", r, r, MaxChunks)
      [] o.kind = "convert" -> Cells("bf16_tmp", r, r, o.chunks)
      [] o.kind = "zero" -> Cells("data", r, r, o.chunks) \cup Cells(Source(o), r, r, o.chunks)
      [] o.kind = "d2h"  -> {<<"host_large", r, r, o.chunk>>}
      [] o.kind = "h2d"  -> {<<"dev_tmp", r, o.peer, o.chunk>>}
      [] o.kind = "add"  -> Cells("data", r, r, o.chunks)

Reads(o, r) ==
    CASE o.kind = "convert" -> Cells("data", r, r, o.chunks)
      [] o.kind = "d2h" -> {<<Source(o), r, r, o.chunk>>}
      [] o.kind = "h2d" -> {<<"host_large", o.peer, o.peer, o.chunk>>}
      [] o.kind = "add" -> Cells("data", r, r, o.chunks) \cup
                           UNION {Cells("dev_tmp", r, p, o.chunks) : p \in Rank \ {r}}
      [] OTHER -> {}

(* "Every ordering the old single stream gave implicitly is either          *)
(* unnecessary or kept by an explicit event": two operations that can run   *)
(* at the same time never touch the same memory, one of them writing.       *)
NoDataRace ==
    \A g, h \in Engine, r, p \in Rank :
        <<g, r>> # <<h, p>> /\ Ready(g, r) /\ Ready(h, p) =>
            LET o == Head_(g, r)
                q == Head_(h, p)
            IN  Writes(o, r) \cap (Writes(q, p) \cup Reads(q, p)) = {}

(* The add of call c has run on r. *)
Added(r, c) ==
    \E x \in 1 .. ran["comp"][r] :
        queue["comp"][r][x].kind = "add" /\ queue["comp"][r][x].call = c

(* After the add, and until the caller overwrites it, the tensor holds the  *)
(* sum, in rank order, of the contributions of all ranks to its own call:   *)
(* none is missing, stale or summed already.                                *)
SumStays ==
    \A r \in Rank, k \in Chunk :
        LET n == ran["comp"][r] IN
        n > 0 /\ queue["comp"][r][n].kind = "add" /\ k < queue["comp"][r][n].chunks =>
            /\ data[r][k] = recv[r][k]
            /\ data[r][k] = [p \in 1 .. NRanks |-> <<p - 1, queue["comp"][r][n].call>>]

(* Whatever the host enqueued completes: the waits across streams and GPUs  *)
(* never form a cycle.                                                      *)
Completes ==
    \A c \in 1 .. MaxCall : call_count >= c ~> \A r \in Rank : Added(r, c)

-----------------------------------------------------------------------------
(* The abstract all-reduce: a chunk is contributed when it reaches pinned   *)
(* host memory, delivered when the add stores it.                           *)
givenBar ==
    [r \in Rank |-> [k \in Chunk |->
        IF host_large[r][k] = <<>> THEN 0 ELSE host_large[r][k][1][2]]]

AllReduce == INSTANCE AllReduceSpec WITH MaxCount <- MaxChunks, given <- givenBar, out <- recv

(* The copy engines implement the abstract all-reduce. *)
Implements == AllReduce!SpecSpec
=============================================================================
