---------------------------- MODULE Gp100Fusion ----------------------------
(***************************************************************************)
(* A graph of a delta-net model (qwen35) on a GP100: ggml-alloc places its *)
(* tensors, then the CUDA backend evaluates it, node by node or with the   *)
(* kernels of this fork that stand for several nodes.  A fused kernel      *)
(* reads its inputs at another place of the graph than the nodes it        *)
(* replaces, where ggml-alloc may have given their memory away; the        *)
(* recurrent states are read in place from the rows the kernel writes; and *)
(* the matmuls share activations converted by an earlier kernel.           *)
(*                                                                         *)
(* The pool of ggml-alloc is a row of cells, one for each part of a        *)
(* tensor.  A cell holds <<tensor, part, epoch>>: whose value it is.  The  *)
(* windows of 64 to 256 nodes within which the matches search are left     *)
(* out: the graphs are shorter.                                            *)
(*                                                                         *)
(* The host prepares a launch only when the stream is empty: what it       *)
(* decides does not depend on the memory of the device.                    *)
(***************************************************************************)
EXTENDS Gp100Graphs, FiniteSets, FiniteSetsExt, Functions

CONSTANTS
    Settings,       \* a set of records with the fields
                    \*   graph   one of Gp100Graphs
                    \*   n_seqs  the sequences it decodes a token of
                    \*   off     what the environment switches off, see Switch
                    \*   evals   bound of the model: how often the graph is computed
    PoolCells       \* cells of the pool, enough for every graph

Switch == {"fusion", "state", "norm", "cache"}
    \* GGML_CUDA_DISABLE_FUSION, GP100_STATE_DISABLE, GP100_NO_NORM_FUSION, GP100_NO_ACT_CACHE

ASSUME FusionAssumption ==
    /\ PoolCells \in Nat
    /\ \A s \in Settings : s.off \subseteq Switch /\ {s.n_seqs, s.evals} \subseteq Nat \ {0}

VARIABLES
    setting,  \* a graph and its switches
    pos,      \* the node the allocator or the evaluation has come to
    at,       \* at[t]: first cell of tensor t; 0 before its allocation
    own,      \* tensors that hold memory of the pool (hash_node.allocated)
    phase,    \* "alloc", "run"
    fused,    \* the nodes at which a match succeeds, by match
    mem,      \* mem[l]: what location l of the device holds
    before,   \* history: the cache rows when this evaluation began
    act,      \* key of gp100_act_cache
    epoch,    \* graph_epoch
    stream,   \* kernels launched and not complete; the first one runs
    block     \* block[b]: "ready", "read", "done", of the running kernel

placement == <<at, own>>
device    == <<mem, stream, block>>
vars      == <<setting, pos, placement, phase, fused, device, before, act, epoch>>

Graph   == setting.graph.nodes
n_seqs  == setting.n_seqs
Off(w)  == w \in setting.off
Idx(t)  == setting.graph.index[t]
Src(i, k) == Graph[i].src[k]
Op(i)   == Graph[i].op
From(i, k) == Idx(Src(i, k).t)
Refs(t, i) == {u \in setting.graph.uses[t] : u[1] >= i}
Uses(i) == Cardinality(Refs(Graph[i].t, 1))

Rows == UNION {Range(Graph[i].rows) : i \in DOMAIN Graph}
Cell(i)      == <<"pool", i, 0>>
Row(c, r, b) == <<c, r, b>>
CacheOf(c)   == {Row(c, r, b) : r \in Rows, b \in {1, 2}}
ActBuf(p)    == <<IF Off("cache") THEN "tmp" ELSE "act", p, 0>>
Location == {Cell(i) : i \in 1 .. PoolCells} \cup CacheOf("conv") \cup CacheOf("ssm")
              \cup {<<buf, p, 0>> : buf \in {"act", "tmp"}, p \in {1, 2}}

(***************************************************************************)
(* ggml-alloc.                                                             *)
(***************************************************************************)
Size(t)   == Graph[Idx(t)].n
Extent(t) == at[t] .. at[t] + Size(t) - 1
Taken     == UNION {Extent(t) : t \in own}

(* ggml_gallocr_free_node's callers: tensors whose last consumer is node i. *)
Released(i) == {t \in own : Refs(t, i) # {} /\ Refs(t, i + 1) = {}}

(* The sources of node i whose memory it may take: owned, used by nobody else *)
(* from here on, of the same layout, and no view (a view is never owned).     *)
CanInplace == {"ADD", "MUL", "RMS_NORM", "SILU", "SIGMOID", "SOFTPLUS"}
Reusable(i) ==
    {k \in DOMAIN Graph[i].src :
        LET r == Src(i, k) IN
        /\ Op(i) \in CanInplace /\ ~r.view /\ r.t \in own
        /\ Cardinality(Refs(r.t, i)) = 1 /\ Size(r.t) = Graph[i].n}

(* ggml_dyn_tallocr_alloc takes the front of a free block.  Which of those  *)
(* that are large enough depends on the sizes of all tensors.               *)
FreeBlocks(n) ==
    {c \in 1 .. PoolCells + 1 - n :
        /\ (c .. c + n - 1) \cap Taken = {}
        /\ c = 1 \/ c - 1 \in Taken}

AllocateNode ==
    /\ phase = "alloc" /\ pos <= Len(Graph)
    /\ LET t == Graph[pos].t IN
       IF Op(pos) = "CPY" THEN /\ own' = own \ Released(pos) /\ UNCHANGED at
       ELSE IF Reusable(pos) # {}
       THEN LET parent == Src(pos, Min(Reusable(pos))).t IN
            /\ at' = [at EXCEPT ![t] = at[parent]]
            /\ own' = (own \ (Released(pos) \cup {parent})) \cup {t}
       ELSE \E c \in FreeBlocks(Graph[pos].n) :
            /\ at' = [at EXCEPT ![t] = c]
            /\ own' = (own \ Released(pos)) \cup {t}
    /\ pos' = pos + 1
    /\ UNCHANGED <<setting, phase, fused, device, before, act, epoch>>

(***************************************************************************)
(* What the matches test.                                                  *)
(***************************************************************************)
Cells(r)   == {Cell(at[r.t] + p - 1) : p \in r.parts}
Written(i) == IF Op(i) = "CPY" THEN CacheOf(Graph[i].cache) ELSE {Cell(c) : c \in Extent(Graph[i].t)}
Output(i)  == Ref(Graph[i].t, 1 .. Graph[i].n)
Overlap(r, q) == Cells(r) \cap Cells(q) # {}

(* Two operands that are either disjoint or exactly the same memory. *)
ApartOrSame(r, q) == Overlap(r, q) => at[r.t] + Min(r.parts) = at[q.t] + Min(q.parts)

(* ggml_cuda_gp100_not_clobbered of a cache: only copies write cache rows. *)
NoCopyInto(c, lo, hi) == \A j \in lo + 1 .. hi - 1 : ~(Op(j) = "CPY" /\ Graph[j].cache = c)

GdnGather(d) ==
    LET g == From(d, 6) IN
    /\ ~Off("state") /\ Op(g) = "GET_ROWS"
    /\ NoCopyInto("ssm", g, d)

SkipStateGather(i) ==
    /\ Op(i) = "GET_ROWS" /\ Uses(i) = 1
    /\ \E d \in i + 1 .. Len(Graph) : Op(d) = "GATED_DELTA_NET" /\ From(d, 6) = i /\ GdnGather(d)

(* A bug: only the nodes that write the tensor itself are looked for. *)
NotRewritten(r, lo, hi) == \A j \in lo + 1 .. hi - 1 : Graph[j].t # r.t

NotClobbered(r, lo, hi) ==
    \A j \in lo + 1 .. hi - 1 : SkipStateGather(j) \/ Written(j) \cap Cells(r) = {}

(* The node after the delta net copies the tail of its output into the cache. *)
GdnCacheFusion(d) == ~Off("fusion") /\ Op(d + 1) = "CPY" /\ From(d + 1, 1) = d

L2Match(d) ==
    /\ GdnGather(d) /\ GdnCacheFusion(d)
    /\ \A k \in {1, 2} :
        LET l == From(d, k) IN
        Op(l) = "L2_NORM" /\ Uses(l) = 1 /\ NotClobbered(Src(l, 1), l, d)

BetaMatch(d) ==
    LET g == From(d, 5) IN
    /\ Op(g) = "SIGMOID" /\ Uses(g) = 1
    /\ NotClobbered(Src(g, 1), g, d) /\ ~Overlap(Output(d), Src(g, 1))

SoftplusBiasMatch(s) ==
    /\ ~Off("fusion") /\ ~Off("state") /\ s \in 2 .. Len(Graph) - 1
    /\ Op(s) = "SOFTPLUS" /\ Op(s - 1) = "ADD" /\ Op(s + 1) = "MUL"
    /\ From(s, 1) = s - 1 /\ From(s + 1, 1) = s /\ Uses(s - 1) = 1 /\ Uses(s) = 1
    /\ ApartOrSame(Output(s + 1), Src(s - 1, 1))

(* M2 = MUL(M1 = MUL(R = RMS_NORM(x), w), SILU(z)), at the SILU. *)
GnormNorm(s) == From(From(s + 1, 1), 1)
GnormMatch(s) ==
    /\ ~Off("fusion") /\ ~Off("state") /\ ~Off("cache") /\ s < Len(Graph)
    /\ Op(s) = "SILU" /\ Op(s + 1) = "MUL" /\ Len(Graph[s + 1].src) = 2 /\ From(s + 1, 2) = s
    /\ LET m1 == From(s + 1, 1)
           r  == GnormNorm(s) IN
       /\ Op(m1) = "MUL" /\ Op(r) = "RMS_NORM" /\ r = m1 - 1
       /\ Uses(r) = 1 /\ Uses(m1) = 1 /\ Uses(s) = 1
       /\ NotClobbered(Src(r, 1), r, s)
       /\ ApartOrSame(Output(s + 1), Src(r, 1)) /\ ApartOrSame(Output(s + 1), Src(s, 1))

(* CONCAT of a gathered window and the new column, convolved at c and copied *)
(* back into the cache at ConvCpy(c).                                        *)
ConvCpy(c) == CHOOSE j \in DOMAIN Graph : Op(j) = "CPY" /\ From(j, 1) = From(c, 1)
ConvOut(c) == IF c < Len(Graph) /\ Op(c + 1) = "SILU" THEN c + 1 ELSE c
ConvMatch(c) ==
    /\ ~Off("state") /\ Op(c) = "SSM_CONV" /\ Op(From(c, 1)) = "CONCAT"
    /\ LET cc == From(c, 1)
           g  == From(cc, 1)
           x  == Src(cc, 2)
           p  == ConvCpy(c) IN
       /\ Op(g) = "GET_ROWS" /\ Uses(g) = 1 /\ Uses(cc) = 2
       /\ NotClobbered(x, cc, c)
       /\ NoCopyInto("conv", g, Min({p, c})) /\ (p < c => NoCopyInto("conv", p, c))
       /\ ApartOrSame(Output(ConvOut(c)), x)

(* The matches read nothing but the graph and the addresses: they are made *)
(* here once for an evaluation, and by the code whenever they are asked.   *)
Matches ==
    LET gdn == {d \in DOMAIN Graph : Op(d) = "GATED_DELTA_NET"} IN
    [gather   |-> {d \in gdn : GdnGather(d)},
     l2       |-> {d \in gdn : L2Match(d)},
     beta     |-> {d \in gdn : L2Match(d) /\ BetaMatch(d)},
     softplus |-> {s \in DOMAIN Graph : SoftplusBiasMatch(s)},
     gnorm    |-> {s \in DOMAIN Graph : GnormMatch(s)},
     conv     |-> {c \in DOMAIN Graph : ConvMatch(c)}]

SkipGdnL2(i) == \E d \in fused.l2 : i \in {From(d, 1), From(d, 2)}
SkipGdnBeta(i) == \E d \in fused.beta : i = From(d, 5)
SkipSoftplusBias(i) == i + 1 \in fused.softplus
SkipGnorm(i) == \E s \in fused.gnorm : i \in {GnormNorm(s), From(s + 1, 1)}
SkipConvPlumbing(i) == \E c \in fused.conv : i \in {From(From(c, 1), 1), From(c, 1), ConvCpy(c)}

Skipped(i) ==
    SkipStateGather(i) \/ SkipConvPlumbing(i) \/ SkipGdnL2(i) \/ SkipGdnBeta(i)
        \/ SkipSoftplusBias(i) \/ SkipGnorm(i)

(* ggml_can_fuse of a node and the next one. *)
CanFuse(i, first, second) ==
    /\ ~Off("fusion") /\ i < Len(Graph) /\ Op(i) \in first /\ Op(i + 1) \in second
    /\ Uses(i) = 1 /\ \E k \in DOMAIN Graph[i + 1].src : Src(i + 1, k) = Output(i)

(***************************************************************************)
(* Kernels: what each block reads, with the value the graph prescribes,    *)
(* and what it writes.  A block reads everything before it writes.         *)
(***************************************************************************)
Val(t, p) == <<t, p, epoch>>
Load(r)   == {<<Cell(at[r.t] + p - 1), Val(r.t, p)>> : p \in r.parts}
LoadAll(i)  == UNION {Load(Src(i, k)) : k \in DOMAIN Graph[i].src}
Store(r)  == Load(r)
Of(r, P)  == [r EXCEPT !.parts = @ \cap P]

Kernel(B, R(_), W(_)) == [reads |-> [b \in B |-> R(b)], writes |-> [b \in B |-> W(b)]]
OneBlock(R, W) == [reads |-> [b \in {1} |-> R], writes |-> [b \in {1} |-> W]]

(* Column b of the rows a gather reads and a copy writes. *)
LoadRows(g, b) ==
    {<<Row(Graph[g].cache, Graph[g].rows[k], b), before[Row(Graph[g].cache, Graph[g].rows[k], b)]>>
        : k \in DOMAIN Graph[g].rows}
Copied(p, k, b) ==
    LET f == From(p, 1) IN
    IF Op(f) = "GET_ROWS" THEN before[Row(Graph[f].cache, Graph[f].rows[k], b)]
    ELSE Val(Graph[p].t, Part(k, b))
StoreRows(p, b) ==
    {<<Row(Graph[p].cache, Graph[p].rows[k], b), Copied(p, k, b)>> : k \in DOMAIN Graph[p].rows}

StockKernel(i) ==
    OneBlock(LoadAll(i) \cup (IF Op(i) = "GET_ROWS" THEN LoadRows(i, 1) \cup LoadRows(i, 2) ELSE {}),
             IF Op(i) = "CPY" THEN StoreRows(i, 1) \cup StoreRows(i, 2) ELSE Store(Output(i)))

(* Two nodes as one element-wise or row-wise kernel at the first. *)
PairKernel(i) ==
    OneBlock((LoadAll(i) \cup LoadAll(i + 1)) \ Load(Output(i)), Store(Output(i + 1)))

(* ADD, softplus and MUL at the softplus s. *)
SoftplusBiasKernel(s) == OneBlock(LoadAll(s - 1), Store(Output(s + 1)))

(* A block sums the squares of the whole row and writes its own chunk. *)
ActStore(r, P) == {<<ActBuf(p), Val(r.t, p)>> : p \in r.parts \cap P}
RmsNormMulKernel(i) ==
    LET R(b) == LoadAll(i)
        W(b) == Store(Of(Output(i + 1), {b})) \cup ActStore(Output(i + 1), {b})
    IN  Kernel({1, 2}, R, W)

(* A matmul: its input converted, then multiplied. *)
PrepKernel(i) == OneBlock(Load(Src(i, 1)), ActStore(Src(i, 1), Src(i, 1).parts))
MmvqKernel(i) == OneBlock(ActStore(Src(i, 1), Src(i, 1).parts), Store(Output(i)))

(* A block owns a row: of x, of z and of the result. *)
GatedNormKernel(s) ==
    LET R(b) == Load(Of(Src(GnormNorm(s), 1), {b})) \cup Load(Of(Src(s, 1), {b}))
        W(b) == Store(Of(Output(s + 1), {b})) \cup ActStore(Output(s + 1), {b})
    IN  Kernel({1, 2}, R, W)

(* A bug: the new window goes back to the row it was gathered from. *)
ConvStateInPlace(c) ==
    LET cc   == From(c, 1)
        g    == From(cc, 1)
        R(b) == Load(Of(Src(cc, 2), Parts(n_seqs, b))) \cup LoadAll(g) \cup LoadRows(g, b)
        W(b) == Store(Of(Output(ConvOut(c)), Parts(n_seqs, b))) \cup
                {<<Row("conv", Graph[g].rows[k], b), Copied(ConvCpy(c), k, b)>> : k \in 1 .. n_seqs}
    IN  Kernel({1, 2}, R, W)

(* A block owns a channel in every sequence. *)
ConvStateKernel(c) ==
    LET cc   == From(c, 1)
        g    == From(cc, 1)
        R(b) == Load(Of(Src(cc, 2), Parts(n_seqs, b))) \cup LoadAll(g) \cup LoadRows(g, b)
        W(b) == Store(Of(Output(ConvOut(c)), Parts(n_seqs, b))) \cup StoreRows(ConvCpy(c), b)
    IN  Kernel({1, 2}, R, W)

(* A block owns columns of the state in every sequence.  With the state gathered *)
(* in place it may also normalise q and k and apply the sigmoid itself; with the *)
(* cache fused it writes the new state to the rows and not behind the scores.    *)
GatedDeltaNetKernel(d) ==
    LET g    == From(d, 6)
        raw(k) == Src(From(d, k), 1)
        qk   == UNION {Load(IF d \in fused.l2 THEN raw(k) ELSE Src(d, k)) : k \in {1, 2}}
        beta == Load(IF d \in fused.beta THEN raw(5) ELSE Src(d, 5))
        state(b) == IF d \in fused.gather THEN LoadAll(g) \cup LoadRows(g, b)
                    ELSE Load(Of(Src(d, 6), Parts(n_seqs, b)))
        tail(b)  == Store(Of(Output(d), {2 * n_seqs + p : p \in Parts(n_seqs, b)}))
        R(b) == qk \cup beta \cup Load(Src(d, 3)) \cup Load(Src(d, 4)) \cup state(b)
        W(b) == Store(Of(Output(d), Parts(n_seqs, b)))
                  \cup IF GdnCacheFusion(d) THEN StoreRows(d + 1, b) ELSE tail(b)
    IN  Kernel({1, 2}, R, W)

(***************************************************************************)
(* The evaluation, ggml_cuda_graph_evaluate_and_capture.                   *)
(***************************************************************************)
Run(kernel, i) == [kernel |-> kernel, node |-> i]
Launched(k) ==
    CASE k.kernel = "gated_norm" -> GatedNormKernel(k.node)
      [] k.kernel = "softplus_bias" -> SoftplusBiasKernel(k.node)
      [] k.kernel = "conv_state" -> ConvStateKernel(k.node)
      [] k.kernel = "gated_delta_net" -> GatedDeltaNetKernel(k.node)
      [] k.kernel = "rms_norm_mul" -> RmsNormMulKernel(k.node)
      [] k.kernel = "pair" -> PairKernel(k.node)
      [] k.kernel = "prep_act" -> PrepKernel(k.node)
      [] k.kernel = "mmvq" -> MmvqKernel(k.node)
      [] k.kernel = "stock" -> StockKernel(k.node)

Running == Launched(Head(stream))
Blocks  == DOMAIN block
Ready(kernels) == IF kernels = <<>> THEN <<>> ELSE [b \in DOMAIN Launched(Head(kernels)).reads |-> "ready"]
Launch(kernels, n) ==
    /\ stream' = kernels /\ block' = Ready(kernels)
    /\ pos' = pos + n
    /\ UNCHANGED <<setting, placement, phase, fused, mem, before, epoch>>

AtNode(ops) == phase = "run" /\ stream = <<>> /\ pos <= Len(Graph) /\ Op(pos) \in ops /\ ~Skipped(pos)

Skip ==
    /\ phase = "run" /\ stream = <<>> /\ pos <= Len(Graph) /\ Skipped(pos)
    /\ pos' = pos + 1
    /\ UNCHANGED <<setting, placement, phase, fused, device, before, act, epoch>>

Key(r) == [src1 |-> r, data |-> at[r.t], epoch |-> epoch]

(* The reshape a matmul takes, else the tensor itself. *)
GnormKey(m) ==
    LET later == {<<j, k>> \in Refs(Graph[m].t, m) : Src(j, k).view}
    IN  IF later = {} THEN Output(m) ELSE LET u == CHOOSE u \in later : TRUE IN Src(u[1], u[2])

GatedNorm ==
    /\ AtNode({"SILU"}) /\ pos \in fused.gnorm
    /\ Launch(<<Run("gated_norm", pos)>>, 2)
    /\ act' = Key(GnormKey(pos + 1))

SoftplusBias ==
    /\ AtNode({"SOFTPLUS"}) /\ pos \in fused.softplus
    /\ Launch(<<Run("softplus_bias", pos)>>, 2)
    /\ UNCHANGED act

ConvState ==
    /\ AtNode({"SSM_CONV"}) /\ pos \in fused.conv
    /\ Launch(<<Run("conv_state", pos)>>, ConvOut(pos) + 1 - pos)
    /\ UNCHANGED act

GatedDeltaNet ==
    /\ AtNode({"GATED_DELTA_NET"})
    /\ Launch(<<Run("gated_delta_net", pos)>>, IF GdnCacheFusion(pos) THEN 2 ELSE 1)
    /\ UNCHANGED act

(* ggml_cuda_gp100_rms_norm_mul where it accepts, else the stock fused norm. *)
(* It refuses the head rows of the gated norm, too short and too many, which *)
(* here are the ones that feed no matmul.                                    *)
FeedsMatmul(m) == \E j \in m + 1 .. Len(Graph) : Op(j) = "MUL_MAT" /\ Src(j, 1) = Output(m)
RmsNormMul ==
    /\ AtNode({"RMS_NORM"}) /\ CanFuse(pos, {"RMS_NORM"}, {"MUL"})
    /\ IF FeedsMatmul(pos + 1) /\ ~Off("norm") /\ ~Off("cache")
       THEN Launch(<<Run("rms_norm_mul", pos)>>, 2) /\ act' = Key(Output(pos + 1))
       ELSE Launch(<<Run("pair", pos)>>, 2) /\ UNCHANGED act

Matched(i) == i \in fused.gnorm \cup fused.softplus \cup fused.conv

(* ssm_conv with its silu; silu, sigmoid or softplus with the product. *)
FusedPair(i) ==
    CanFuse(i, {"SSM_CONV"}, {"SILU"}) \/ CanFuse(i, {"SILU", "SIGMOID", "SOFTPLUS"}, {"MUL"})
Pair ==
    /\ AtNode({"SSM_CONV", "SILU", "SIGMOID", "SOFTPLUS"}) /\ FusedPair(pos) /\ ~Matched(pos)
    /\ Launch(<<Run("pair", pos)>>, 2)
    /\ UNCHANGED act

(* ggml_cuda_gp100_mmvq: the activations are converted unless the cache holds them. *)
Hit(r) == ~Off("cache") /\ act = Key(r)
MatMul ==
    /\ AtNode({"MUL_MAT"})
    /\ LET r == Src(pos, 1)
           mmvq == <<Run("mmvq", pos)>>
       IN  /\ Launch(IF Hit(r) THEN mmvq ELSE <<Run("prep_act", pos)>> \o mmvq, 1)
           /\ act' = IF Off("cache") THEN act ELSE Key(r)

StockOps == {"INPUT", "OTHER", "GET_ROWS", "CPY", "CONCAT", "SSM_CONV", "L2_NORM", "ADD", "MUL", "RMS_NORM"} \cup
            {"SILU", "SIGMOID", "SOFTPLUS"}
Stock ==
    /\ AtNode(StockOps)
    /\ ~Matched(pos)
    /\ ~CanFuse(pos, {"RMS_NORM"}, {"MUL"}) /\ ~FusedPair(pos)
    /\ Launch(<<Run("stock", pos)>>, 1)
    /\ UNCHANGED act

BlockReads(b) ==
    /\ Cardinality(Blocks) > 1 /\ b \in Blocks /\ block[b] = "ready"
    /\ block' = [block EXCEPT ![b] = "read"]
    /\ UNCHANGED <<setting, pos, placement, phase, fused, mem, stream, before, act, epoch>>

BlockWrites(b) ==
    /\ b \in Blocks /\ (block[b] = "read" \/ Cardinality(Blocks) = 1)
    /\ LET w == Running.writes[b] IN
       mem' = [l \in DOMAIN mem |-> IF \E x \in w : x[1] = l THEN (CHOOSE x \in w : x[1] = l)[2] ELSE mem[l]]
    /\ IF \E c \in Blocks \ {b} : block[c] # "done"
       THEN block' = [block EXCEPT ![b] = "done"] /\ UNCHANGED stream
       ELSE stream' = Tail(stream) /\ block' = Ready(Tail(stream))
    /\ UNCHANGED <<setting, pos, placement, phase, fused, before, act, epoch>>

(* ggml_backend_cuda_graph_compute: the first evaluation, and the next one of *)
(* the same graph once the results have been read.                           *)
GraphCompute ==
    /\ pos > Len(Graph) /\ stream = <<>> /\ epoch < setting.evals
    /\ phase' = "run" /\ pos' = 1 /\ epoch' = epoch + 1 /\ fused' = Matches
    /\ before' = [l \in DOMAIN before |-> mem[l]]
    /\ UNCHANGED <<setting, placement, device, act>>

Terminated == pos > Len(Graph) /\ stream = <<>> /\ epoch = setting.evals /\ UNCHANGED vars

Init ==
    /\ setting \in Settings
    /\ pos = 1 /\ phase = "alloc" /\ own = {} /\ stream = <<>> /\ block = <<>>
    /\ at = [t \in {Graph[i].t : i \in DOMAIN Graph} |-> 0]
    /\ mem = [l \in Location |-> l]
    /\ before = [l \in CacheOf("conv") \cup CacheOf("ssm") |-> l]
    /\ act = <<>> /\ epoch = 0
    /\ fused = [m \in {"gather", "l2", "beta", "softplus", "gnorm", "conv"} |-> {}]

Next ==
    \/ AllocateNode \/ Skip \/ GatedNorm \/ SoftplusBias \/ ConvState \/ GatedDeltaNet
    \/ RmsNormMul \/ Pair \/ MatMul \/ Stock \/ GraphCompute \/ Terminated
    \/ \E b \in 1 .. 2 : BlockReads(b) \/ BlockWrites(b)

Spec == Init /\ [][Next]_vars

(***************************************************************************)
(* Properties.                                                             *)
(***************************************************************************)
(* Whatever a block of a running kernel has yet to read holds the value the  *)
(* graph prescribes: ggml-alloc has placed nothing on an input that a fused  *)
(* kernel reads after its last consumer, no other block has written a row or *)
(* a chunk this one still reads, the result of a skipped node is not read,   *)
(* and the cached activations are those of this matmul's input in this       *)
(* evaluation.                                                               *)
ReadsIntended ==
    \A b \in Blocks : block[b] = "ready" => \A x \in Running.reads[b] : mem[x[1]] = x[2]

(* What the nodes of the graph leave in column b of row r of cache c. *)
Prescribed(c, r, b) ==
    LET copies == {<<p, k>> \in (DOMAIN Graph) \X (1 .. 2) :
                      Op(p) = "CPY" /\ Graph[p].cache = c /\ k \in DOMAIN Graph[p].rows /\ Graph[p].rows[k] = r}
    IN  IF copies = {} THEN {before[Row(c, r, b)]} ELSE {Copied(d[1], d[2], b) : d \in copies}

(* When an evaluation is over every row of the recurrent states holds what  *)
(* the nodes of the graph, run one after another, would have left there: no *)
(* copy that a fused kernel took over is missing, none goes to another      *)
(* sequence's row, and no other row has changed.                            *)
StateWritten ==
    phase = "run" /\ pos > Len(Graph) /\ stream = <<>> =>
        \A c \in {"conv", "ssm"}, r \in Rows, b \in {1, 2} :
            (\E i \in DOMAIN Graph : Graph[i].cache = c) => mem[Row(c, r, b)] \in Prescribed(c, r, b)
=============================================================================
