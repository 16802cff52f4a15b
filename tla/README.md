# TLA+ models of p100-llama-cpp

Models of the concurrent core of this repository, a llama.cpp tree tuned for
Pascal GPUs, checked with TLC, and proofs about them checked with TLAPS. All
source paths below are relative to `src/llama.cpp/`.

```
tlc -workers 2 -config AllReduceKernel.cfg MCAllReduceKernel   # one run
tlapm AllReduceKernelProofs.tla                                # its proofs
```

The modules with theorems are the `*Proofs`; the longest takes some minutes.

```
for m in *Proofs.tla; do tlapm $m; done
```

`PROJECT.json` lists the components, the runs, which definition models which
lines of the source (`map`), the hazards, and for every checked property a
plausible bug (`mutants`) that makes it fail. Operators whose comment starts
with "A bug:" are these; no specification uses them.

## 1. Inventory

| Component | State | Operations | What is hard, what makes it correct |
|---|---|---|---|
| **AllReduce, chunked kernel** `ggml/src/ggml-cuda/allreduce.cu` | two-slot ring (`call_count`, events `app`, `ker`), staging buffers `host_buf` and `arrival` words in mapped host memory | `acquire_slot`, `ggml_cuda_ar_allreduce`, `ggml_cuda_ar_kernel` | GPUs synchronise by polling words, per block, no barrier between blocks. Nobody may read what is not yet staged or overwrite what is still read; all GPUs end with the same bits |
| **AllReduce, copy engines** same file, `copy_impl`, `copy_outer` | three streams per GPU, events, `host_large`, `dev_tmp`, a pool buffer for BF16 | enqueue D2H, H2D, add; wait and record events | conflicting operations on different streams ordered only by events; no cycle of waits |
| **Meta backend** `ggml/src/ggml-backend-meta.cpp` | receive buffers and auxiliary nodes per backend | evaluation by subgraphs, `allreduce_fallback` | order of asynchronous copies, reuse of buffers, errors halfway, same association of sums everywhere |
| **Server requests and slots** `tools/server/server-queue.*`, `server-context.cpp` | task queues (pending, deferred, unhandled), waiting ids, results, slots, batch, prompts in slots and in the prompt cache | post, take, defer, launch, cancel, `update_slots`, `yield_to_queue`, send, receive, timeout | many HTTP threads, a main thread and a worker; every request answered exactly once or ended by an error, no slot or task left behind |
| **Server task queue and its threads** `tools/server/server-queue.cpp` | `running`, `sleeping`, the queues, the worker's `busy`, `yielding`, `stop`, who waits on which condition | `post`, `start_loop`, `worker_loop`, `yield_to_queue`, `wait_until_no_sleep`, `terminate` | one condition variable for everybody, a hand-over in both directions, sleep and termination at any time; no lost wake-up, never two threads at the slots, tasks in order |
| AllReduce dispatch `ggml/src/ggml-cuda/ggml-cuda.cu` | which transport was initialised | choose NCCL, internal or fallback | configuration only |
| **GP100 fusions and activation cache** `ggml/src/ggml-cuda/ggml-cuda.cu`, `mmvq-gp100.cu`, `gated_delta_net.cu`, `ssm-conv.cu` | the recurrent states, one cached set of converted activations and its key, the memory of the pool | match, skip, launch a kernel that stands for several nodes; look up, fill | a fused kernel reads at another place of the graph than its nodes did, where the memory may have been given away; blocks that read what others write; a stale cache entry |
| Backend scheduler, allocator `ggml/src/ggml-backend.cpp`, **`ggml-alloc.c`** | splits, input copies, events, free blocks | split, allocate, compute with pipeline copies | a copy overwritten while an earlier evaluation reads it; who may take whose memory |
| **CPU thread pool** `ggml/src/ggml-cpu/ggml-cpu.c` | barrier counters, graph counter, chunk counter, pause, stop, abort | kick-off, barrier, chunk stealing, abort, pause, free | hand-made barrier and wake-ups; nodes in order and complete, every call returns, parameters written when nobody reads them |
| KV cache `src/llama-kv-cache.cpp`, `llama-kv-cells.h` | cells with positions, shifts, sequence sets, indices | `seq_rm`, `seq_cp`, `find_slot`, ... | redundant indices after long sequences of calls |
| **Recurrent memory** `src/llama-memory-recurrent.cpp` | cells, tails, shared states, pending rollbacks; the state tensors | `seq_rm`, `seq_cp`, `seq_keep`, `seq_add`, `seq_div`, `find_slot`, decode, save and restore | metadata moves at once, states when the graph runs: a sequence must continue from the state of exactly its own tokens |
| Batch splitting `src/llama-batch.cpp` | used tokens, sequence sets | `split_simple`, `split_equal`, `split_seq` | every token once, in order per sequence |
| **Logger** `common/log.cpp` | ring of 512 entries, `head`, `tail`, `running`, the worker thread | `add`, the worker's flush, `pause`, `resume` | entries are printed without the mutex while others are added; adders block on a full ring; every message printed once and in order, `pause` returns |
| Routing among models `tools/server/server-models.cpp` | instances, child processes | load, evict, stop | eviction while loading |
| Speculative decoding, HTTP, RPC, kernels, quantisation, model graphs, grammars, templates, sampling, conversion, UI | | | numeric, pure I/O, parsing, or outside the program: not modelled |

How they interact. The server's main thread decodes a batch through `libllama`,
which evaluates a graph through the backend scheduler or the meta backend. The
meta backend gives every GPU its part of the graph and, after each subgraph
that ends in a partial sum, asks the CUDA backend for an all-reduce
(`ggml_backend_cuda_comm_allreduce_tensor`); the all-reduce takes the chunked
kernel for small and the copy engines for large tensors; when it declines, the
meta backend's own butterfly runs. All of these only enqueue on GPU streams. The
server's readers, main thread and yield worker share the task queue and the
result queue under two mutexes; slots belong to the main thread. A decode splits
its batch into micro batches; the memory finds a place for each and the graph
reads and writes the states there. Nodes on the CPU are computed by the thread
pool; on a GP100 the CUDA backend replaces groups of nodes by kernels of its own,
after `ggml-alloc` has placed the tensors without knowing which.

## 2. Modules

| Module | Models |
|---|---|
| `AllReduceSpec` | what any all-reduce promises: `Contribute`, `Deliver` |
| `AllReduceKernel` | the chunked-kernel path; implements `AllReduceSpec` |
| `MCAllReduceKernel` | its instances for TLC |
| `AllReduceKernelProofs` | its theorems; at its end the refinement mapping to `AllReduceSpec`, which the run checks too |
| `AllReduceCopy` | the copy-engine path; implements `AllReduceSpec` |
| `AllReduceCopyProofs` | its theorems |
| `MetaButterfly` | evaluation by the meta backend with the generic all-reduce |
| `MCMetaButterfly` | its instances for TLC |
| `QueueOps` | `remove_if` and the like on the server's queues |
| `QueueOpsProofs` | lemmas about them, by induction on numbers |
| `ServerSlots` | requests from reader to slot and back |
| `MCServerSlots` | its instances for TLC |
| `ServerSlotsProofs` | its theorems |
| `ServerQueue` | the threads of the server at the task queue |
| `ServerQueueProofs` | its theorems |
| `RecurrentMemory` | the memory of recurrent models, its client and its graph |
| `MCRecurrentMemory` | its instances for TLC |
| `RecurrentMemoryProofs` | its theorems |
| `Threadpool` | the thread pool of the CPU backend |
| `MCThreadpool` | its instances for TLC |
| `ThreadpoolProofs` | its theorems |
| `CommonLog` | the logger's ring, its worker, pausing and restarting it |
| `CommonLogProofs` | its theorems |
| `Gp100Graphs` | the graphs of a decode step that the fused kernels are for |
| `Gp100Fusion` | placing a graph's tensors and evaluating it on a GP100 |
| `MCGp100Fusion` | its instances for TLC |

Four modules take a set of settings instead of single constants (`Settings`:
what is asked for, what may fail, what the client does, which graph); the initial
state picks one of them and no step changes it. One run so covers several instances.

### AllReduceKernel

`AcquireSlot` is `ggml_cuda_ar_acquire_slot` for one chunk, `Launch(r)` the launch
on one device with the record of `ev.ker` after the tensor's last chunk. `Stage`,
`Signal`, `Spin` and `Reduce` are the phases of `ggml_cuda_ar_kernel` for one
block; a block polls one arrival word per step. `Finish` retires the kernel.
`Stripe` computes which elements a block handles from the vector width, the
number of threads, and the tail. Host memory keeps, per element, the call whose
value was stored last; a sum is the sequence of contributions in the order of
addition, so that "same bits" is "same sequence". A store and its signal are
separate, as are the signal and each poll, so that any interleaving of blocks
across GPUs is explored; within a block the `__syncthreads` and system fences
give exactly this order. All blocks of a kernel are resident together, as the
code needs. A rank without the COMPUTE flag is memset to zero before its kernel
on the same stream: its contribution is the zero, named like any other.

### AllReduceCopy

The host only enqueues, so `CopyImpl` puts all operations of a call on the three
streams of every GPU at once; each operation carries what it waits for
(`after`: how far another stream must have come). `D2HAfter`, `H2DAfter`,
`AddAfter` and the event of each chunk in `Stage2` are the code's events. The
caller's own work on the compute stream, which may reuse the pool buffer of the
BF16 conversion as soon as the call has returned, is `Produce` or `Scratch`;
otherwise the run would never show a buffer reused too early. A slice of
`copy_outer` is a call of its own.

### MetaButterfly

`AllReduceSteps` is the list of what the host does for a subgraph: compute on
every backend, zero the parts of those without the flag, fold the excess
backends into the first ones, exchange and add at every power-of-two distance,
copy back. `TensorCopyAsync` is `ggml_backend_tensor_copy_async` with both of its
outcomes: CUDA's `cpy_tensor_async` queues on the source's stream and makes the
destination wait; any other backend synchronises both and copies on the host.
`ComputeFails` is an error of `graph_compute_async`; the caller may evaluate
again. A sum is the set of all its partial sums, so that equality means the
same association.

### ServerSlots

Tasks are numbers; `Kind`, `Pin` (id_slot) and `Parent` of the setting say what was
asked for.

- Readers: `PostTasks`, `Receive`, `Leave` (should_stop after a timeout), `Stop`,
  `Cleanup`, `Cancel`. Removing the waiting ids, removing the results and posting
  CANCEL take locks separately and are separate steps.
- Main thread: `TakeTask` and, as a step of its own, its handling
  (`HandleLaunch`, `HandleDefer`, `HandleLaunchFails`, `HandleSlotAction`,
  `HandleMetrics`, `HandleCancel`, `HandleNextResponse`); in between the task is in
  no queue. `UpdateSlots`, `PreDecode`, `Decode` or `DecodeFails`, `PostDecode`,
  `AbortAll` and `Wake` are one round of `start_loop`.
- Worker: `YieldTake`, `YieldHandle`, only while the main thread decodes;
  `YieldEnd` puts the declined tasks back in front.
- Every release moves one deferred task to the front of the queue
  (`PopDeferred`), also when several slots are released by one step.
- `prompt` is whose tokens a slot holds, `states` whose prompts the prompt cache
  holds. Whether the cache saves, evicts, loads or fails to load is open
  (`CacheUpdates`): similarity of prompts is not modelled.

Batches are abstracted to which slots are in them, and a prompt to "all in this
batch", "a part", or "none". That keeps every order in which slots become
`DONE_PROMPT`. When there is no room the batch is halved and decoded in several views:
`Decode` takes a view, `PostDecode` samples the slots whose last token is in it, and
the rest is decoded next, with a yield of its own. `batch` is what remains, and a
slot is `whole` when its sequence has all tokens of its prompt. Prompts of different
tasks share no prefix in the model.

### ServerQueue

The same queue seen from its threads. A step is one critical section of
`mutex_tasks` or what a thread does between two; `waiters` is who waits on
`condition_tasks`, which the main thread, the worker and HTTP threads share, and
`cv_waiters` who waits on `worker.cv`. A notification only takes a thread out of
the set; its next step evaluates its predicate again, as `wait` does, and
`notify_one` picks any of them.

- HTTP threads: `WaitUntilNoSleep`, `NoSleepWoken`, `PostTask` for inference, a step
  each; `CheckSleep`, `PostMetrics`, `GiveUp` for `GET /metrics`.
- Main thread (`main` is where it is): `ProcessNewTasks`, `Handle`, `UpdateSlots`,
  `YieldBegin`, `YieldOver`, `YieldWoken`, `Yielded`, then `Idle`, `WaitWoken`,
  `WaitTimeout`, `SleepWoken`; `WorkerStop` and `Join` at the end.
- Worker (`work`): `WorkerLoop`, `WorkerTake`, `WorkerHandle` or `WorkerThrows`,
  `WorkerCheck`, `WorkerWoken`, `WorkerDone`, `WorkerSignal`. The last two are separate:
  the code clears `busy` under the lock and notifies after it.
- `Terminate` comes from a signal, at any time.

What a callback does with a task is abstracted: an inference task occupies a slot
until some update finishes it, metrics are answered at once by either thread.
Deferred tasks are in `ServerSlots`. The timer of the sleep is not counted: the
server may have been idle for long enough whenever it looks.

### RecurrentMemory

`mem` is the metadata (`cells`, each sequence's `tail`, `head`, `used`, `n`, `rs_z`,
`rs_idx`), `rows` the tensors: `rows[d][i]` is row d of cell i, and what it holds is
the sequence of tokens it has consumed. The two are changed at different times, as
in the code: `FindSlot` places, gathers and re-labels cells (`Place`, `Gather`, `Seat`,
`Source` are its loops; a loop whose steps depend on each other is a recursive function
over the number of its step: `Placed`, `Gather`, `Tried`, `TokensIn`, `Removed`), and only `Graph` moves states: it clears the zero row,
reads what `s_copy` says, writes the micro batch's states and snapshots and copies
row 0 of the other cells in the range. `Decode` is `init_batch` with `prepare`, which
tries `find_slot` on all micro batches and puts the metadata back; `ProcessUbatch` is
one micro batch from `apply` to the computed graph.

`told` is the client's side: what it has put into each sequence. `Batches` are the
micro batches the splits of `llama-batch.cpp` may produce; the client is one that
keeps to the interface (consecutive positions; rollback of a draft it has just
decoded, but never of the token at position 0; no copy of a sequence whose rollback is
pending; positions edited and drafts taken back only where no cell is shared; coupled
sequences have the same content, and join no set within a batch).

A row that nothing refers to any more is forgotten (`Kept`), so that a state read
from it by mistake can never look right.

### Threadpool

Thread 0 is the caller of `ggml_graph_compute`; `pc` is where each thread is. A step
is one atomic operation or one section under the mutex: the barrier is `Enter`,
`Arrive`, `Last`, `Pass` and `Spin`, a node `NextNode`, `ComputeOp` or `Convert` and
`ComputeChunk`, then `AfterNode`. `Poll` may give up after any number of rounds. `out`
is which parts of which node were computed, `wdata` for which product each
thread's part of the work buffer was last converted. `Compute` forgets both: a new
graph, new tensors.

A node is a kind only: skipped, an operation split by thread, a product with
a chunk per thread, and one with many. The build is the one without OpenMP; with it
the runtime's barrier and team replace half of this module. Memory is sequentially
consistent: the relaxed operations are ordered by the seq_cst read-modify-writes of
the barrier and by the mutex.

### CommonLog

A step is one critical section of `mtx`, or the printing of one entry, which the
worker does while the mutex is free: `Add`, `AddWaits`, `AddDiscards`; `WorkerTakes`,
`PrintEntry`, `FlushEnds`; `Pause`, `Join`, `Resume`. `accepted` and `printed` are the
messages in the order in which they went into the ring and came out.
`common_log_flush`, `set_file`, `set_colors` and the other setters are a `Pause` and a
`Resume`. There is one caller that pauses, because `log.h:58` says that these calls
are not thread-safe. It may pause at any time, also while the ring is full: `pause`
does not ask. The history variable `overfull` notes that it did so while no flush was
under way, the one case in which the ring is damaged (see 6.); `InOrder`, `PauseReturns`
and `AllPrinted` claim nothing afterwards, and `StopSeen` says that it is the only one.

### Gp100Fusion

`AllocateNode` is `ggml_gallocr_allocate_node` for one node, in place or in any free
block that is large enough (which one depends on all sizes; every choice is
explored). Then `GraphCompute` begins an evaluation and one of the actions named for
a kernel, or `Skip`, handles the node at `pos`: `GatedNorm`, `SoftplusBias`,
`ConvState`, `GatedDeltaNet`, `RmsNormMul`, `Pair` (the stock fusions of two nodes),
`MatMul` with its preparation kernel unless the cache hits, `Stock`. `L2Match` to
`ConvMatch` are the matches, the operators that begin with `Skip` what is left out
because of them.

A kernel is what each of its blocks reads and writes. `BlockReads` and `BlockWrites`
interleave the blocks: `RmsNormMulKernel` has a block per 32 floats of the result, each
of which sums the whole row; `GatedNormKernel` a block per row; `ConvStateKernel` and
`GatedDeltaNetKernel` a block per channel or columns of the state in all sequences. A
block reads before it writes. A memory cell names the tensor, the part of it and
the evaluation it belongs to, or, in the rows of the caches, what a node has left
there; reading it right is reading that name.

The graphs of `Gp100Graphs` are the parts of a qwen35 layer that the fusions are for, as
`models/qwen35.cpp`, `delta-net-base.cpp` and `build_rs` make them. Left out: the windows
of 64 to 256 nodes within which the matches search (the graphs are shorter), weights,
the shape in the cache's key (it follows from the tensor), the row that `rs_zero`
clears, prefill, the merging of gate and up, and
the arithmetic. The host prepares a launch only when the stream is empty: what it
decides does not depend on device memory. The code asks a match anew at each node;
it reads only the graph and the addresses, which an evaluation does not change, so
the model computes all matches when it begins (`fused`).

## 3. Runs

| Run | Instance | Shows |
|---|---|---|
| `kernel` | 2 GPUs, 2 blocks, chunks of 4 or 3 elements (a tail), 3 calls, tokens modulo 3 | blocks read committed data, never race, GPUs at most a call apart; every launched call completes; refinement of `AllReduceSpec` (the sums are exact and equal) |
| `copy` | 2 GPUs, 1 or 2 chunks, F32 and BF16, rank 1 with or without flag, 3 calls | no race between streams, sums not disturbed, no cycle of waits; refinement |
| `meta` | 2 and 3 backends, blocking copies, 2 all-reduces, errors; 2 to 4 backends, asynchronous copies, 1 all-reduce | sums exact and bit-identical, no race, the auxiliary nodes suffice |
| `server` | 2 slots; parent with child and a request for slot 0, a slot action, or metrics; three requests with a prompt cache, or with batches in several views; failures, clients that leave | tasks and results neither doubled nor lost nor left over, prompts match, everybody is answered, slots become free |
| `queue` | 3 inference requests, 1 for metrics, sleep, terminate, exceptions, 2 yields per update | threads exclude each other, order kept, no sleep with work, no lost wake-up, the loop ends |
| `queue_sleep` | 2 requests, sleep | **violation** of `TaskWakes` |
| `memory` | 3 sequences, 3 cells, nine kinds of clients | tails and counts agree, assertions hold, every sequence continues from its own state |
| `memory_rollback` | 3 sequences, 2 micro batches per batch, drafts taken back | **violation** of `StateExact` |
| `threadpool` | 3 threads, 3 graphs of 3 kinds, abort, 1 pause | nodes in order and complete, chunks once, parameters untouched, every call returns |
| `log` | 2 threads, 3 messages each, ring of 3, 2 pauses at any time | no race on an entry, every message once and in order, nobody waits for ever, exactly unless a pause finds the ring full and no flush under way |
| `gp100` | norms twice and with each switch; a layer of one sequence, with another row or two switches, of two sequences; any placement in 32 cells | every fused kernel reads what the graph prescribes, the states end in the right rows |
| `gp100_norm` | the output norm | **violation** of `ReadsIntended` |

Bounds, and why they are enough.

- `MaxCall` for the kernel is 3: a slot is used twice, so a stale staging buffer or
  arrival word is there to be read, and with tokens modulo 3 call 3 has token 0,
  the initial value of the words: the wrap-around happens. Three is the smallest
  modulus for which the code's argument holds; the code's is 2^32. Two blocks are
  needed for blocks of one kernel to be in different phases. Polling several peers
  needs three GPUs: that is covered by the proof, which is for any number.
- Three calls of the copy path are the first to reuse a slot and the third to
  reuse `host_large` and `dev_tmp`; two chunks show the pipelining.
- Two all-reduces in a row show a receive buffer used again, with blocking copies;
  with asynchronous ones that goes wrong (see 6.), so there `meta` has one.
  Four backends have two butterfly steps, three have one excess backend. From
  six backends on there are two excess ones (see 6.).
- Two slots, a parent and a child that fill them, a third request that must be
  deferred, or is answered by whoever sees it first. `gen` 1 or 2: one token makes
  releases early, two let a slot stay over a round. A prompt is entered in at most
  two batches. Two slots are the fewest for a batch of two views.
- Queue: three inference tasks are the fewest that can be declined, put back and
  reordered while a fourth is posted; the metrics task is the only one the worker
  answers, and the only one whose callback can throw on it. `MaxYield` 2: an update
  may yield again (drafts) before it finishes a request.
- Memory: with three cells a gathered range has a cell in its middle that belongs
  to another sequence. A draft of one token and one snapshot row show the rollback;
  sequences of two tokens (three for replays) a state that is neither empty nor new.
  The settings are separate because together they are too many; each has the calls
  that interact through the same field (`rs_idx`, `src`, `used`).
- Threadpool: three threads are the fewest with one that leaves a barrier late while
  another enters the next; two products in a row share the counter and the work
  buffer; graphs for one, two and all threads let a worker skip a graph and be
  called for the next. `MaxGraphs` 3, `MaxPauses` 1.
- GP100: two parts of a row or a tensor are two blocks, the fewest that can disturb
  each other; two sequences are the fewest whose rows change places; two
  evaluations show a stale cache entry. 32 cells are enough for every placement:
  with too few the allocator could not go on, which TLC reports as a deadlock.
- Logger: six messages and up to two closing entries go around a ring of three
  entries more than twice; two threads can be blocked at once.

Deadlock is checked in every run except those of the memory and the logger, whose
clients may stop where all bounds are reached (the logger's liveness properties say
that no thread is stuck, except for the full ring of 6.). Elsewhere `Terminated` and
`Freed` stutter only where the bound is reached and nothing is left to do; in
`ServerQueue` also when the server sleeps and nobody asks it to wake up.

## 4. Fairness

- Kernel: the GPU works off what was launched (`Work`): as long as some block or
  some kernel can go on, one does. No fairness towards a single block is assumed,
  because polling blocks cannot keep others from running: 8 blocks of 256 threads
  are resident at once on any supported GPU, and `allreduce.cu` relies on that.
  Whether another call is made is up to the caller: `AcquireSlot` is not fair.
- Copy: a GPU runs what is ready at the head of each of its streams. The host
  makes calls or does not.
- Slots: the main thread goes on (`MainStep`), the worker finishes a task it has
  taken (`YieldHandle`), and HTTP threads do what they can. The worker need not
  take any task, clients need not come or leave, a decode ends.
- Queue: the main thread, the worker and every HTTP thread that has begun keep
  running when they are not waiting. Requests and signals need not come.
- Pool: every thread keeps running when it can; `Spin` is a step only when the
  counter has changed. The caller need not call. The polling of the code has no
  fairness of its own: a thread may poll for any time.
- Logger: the worker runs (`WorkerStep`), and `Join` returns when the worker has ended.
  Nobody need log, pause or resume.

Weak fairness suffices everywhere: a thread is scheduled by the operating system
and no action that is needed for progress is disabled again by another actor
while its thread waits to run.

## 5. Proofs

`AllReduceKernelProofs` proves, for any number of GPUs, blocks, threads,
elements and calls, from `KernelAssumption` alone:

- `TypeCorrect`: `Spec => []TypeOK`.

and, with the further assumption `Uniform` that all GPUs have the same vector
width (without it the sums may differ, see 6.):

- `Invariance`: `Spec => []IInv`;
- `CommittedReads`, `RaceFree`, `ExactSums`, `SameBits`, `StaysInLockstep`: the
  safety properties of run `kernel` (the sums, `ExactSums` and `SameBits`, are in
  the run through the refinement).

`KernelAssumption` asks that the token type has more than two values and that a
tail, shorter than a vector, is not longer than the threads of block 0 (true
with 256 threads and vectors of at most 8 elements).

The properties are not inductive: that a block past its spin may read its
peers' buffers depends on what arrival words can show. `IInv` adds

- `Barrier`: whom a block has polled has signalled this call, and a rank
  completes a call only after all its peers' blocks have signalled it. So GPUs
  are at most one call apart, and a slot is written for call c + 2 only when
  nobody reads call c any more.
- `ArrivalHolds`: what an arrival word holds, exactly: the token of the call last
  signalled in its slot. A poll that succeeds therefore means this call:
  a word holds the token of c or c - 2, which differ (`TokenDiffers`, with or
  without wrap-around), or, when the peer is a call ahead, still that of c,
  because the peer's next call uses the other slot (`PollIsSound`). This is also
  why a fast peer does not make a slow one miss its token.
- `HostHolds`: a staging buffer holds the call its rank staged last in that slot.
- `RecvHolds`: a block that reduced has stored its stripe of the sum.

The host's event wait in `AcquireSlot` is not used anywhere in the proof: the
arrival words alone keep the GPUs in lockstep, as the comment in the code says.
`StripeDisjoint`, `StripeCovers` and `StripeUniform` say that the stripes of the
blocks partition the chunk, in the same way on every GPU.

`KernelImplements`, with `Uniform` too, is `Spec => Implements`. Every
step of the kernel path is a step of `AllReduceSpec` or changes nothing there. A rank
contributes an element when the block that handles it stages it, and receives the
sum when the block reduces; both happen once per call because blocks' stripes are
disjoint, and the sum is complete because of `IInv`.

`AllReduceCopyProofs` proves, for any number of GPUs, chunks and calls, with both wire
types and any ranks inactive, from `CopyAssumption` alone:

- `AlwaysOrdered`: `Spec => []Ordered`;
- `NoRace`: `Spec => []NoDataRace`;
- `AlwaysHeld`: `Spec => [](Ordered /\ Shape /\ Held)`;
- `SumsStay`: `Spec => []SumStays`;
- `CopyImplements`: `Spec => Implements`.

A race is excluded by where operations stand in the streams, so `Ordered` is about the
streams. `Precedes` says which operations the code means to order: the compute stream
before the copies and the add after them, a copy to the host after the peers' reads for
earlier calls, a copy from the host after the peer's copy of the chunk and after the
add of the call before. `Waits`: every such order is kept by an event that the operation, or one before it on
its stream, waits for (`Covered`); `Kept`: what has run had what it waited for. An
operation at the head of a stream thus has everything it is ordered after behind it
(`Done`), and two heads that conflict are ordered one way or the other (`Conflict`).
`Recorded` and `LastAdd` say what the events `host_large_read_done` and `dev_tmp_kernel_done` stand for, which a
later call waits on. `AcquireSlot`'s host-side wait is not used: the three
streams are ordered without it.

The sums need the values. `Shape`: an add stands behind what readies this rank's
contribution and has, on the other streams, one copy per chunk and peer; calls do not
decrease along a stream. `Held`: a buffer holds what the last operation on it that has
run made there, `TensorHolds` for the tensor and its converted copy, `StagingHolds`
for the pinned memory, `PulledHolds` for what came from the peers. Because heads do not
conflict, the operation an add or a copy reads from is the last that ran on that buffer.
`FlattenOnes` is the rank order of the add.

The refinement needs that nothing happens twice, `Handed`: a stream has one copy per chunk and call and
one add per call (`Once`), an add has the copies of its own rank (`OwnCopies`), pinned
memory holds what its last copy brought (`GivenHolds`), and what was received is the sum
of an add that has run (`ReceivedHolds`). A copy to the host is then a `Contribute` of one
chunk, the add a `Deliver` of all chunks of the call; every other step changes
nothing of the abstract state.

`ServerQueueProofs` proves, for any sets of requests and any bounds, with sleeping,
termination and exceptions or without, from `QueueAssumption` alone:

- `Exclusion`: `Spec => []HandlersExclude`, the worker is at a task only while the
  main thread runs the work of a yield or waits for the worker;
- `YieldNotNested`: `yield_to_queue` is not entered while the worker is busy, the
  code's assertion;
- `NoCallbackAsleep`: while the server sleeps neither thread handles a task and
  no slot is decoded, so nothing touches the model that was unloaded;
- `InferenceInOrder`: `Spec => []TasksInOrder`;
- `SleepsOnlyIdle`: `Spec => []SleepsIdle`.

None of them is inductive. The invariant of the first three is the protocol of the
hand-over, `Handshake`: `MainYields`, the main thread is inside `yield_to_queue` whenever
`busy` is set; `WorkerBusy`, `busy` is set wherever the worker may take, handle or wait for
tasks; `Yielding`, `yielding` is set exactly while the work runs. `busy` is what makes
it work, not `yielding`: the worker may start after the yield has ended, and the main
thread then waits for it. `AtRest` adds where the main thread is when it sleeps. The
order needs `SetAside`: unhandled and declined tasks exist only while the main thread is
in a yield and are put back in front of the queue as one line. The sleep needs
`Coming`: while a slot decodes, a NEXT_RESPONSE is in one of the queues
whenever the main thread may look at them and fall asleep.

`QueueOpsProofs` has the lemmas about the queue operations for queues of any length:
what `Select` keeps and in which order, what it does to a concatenation, and
how the number of tasks of a kind changes. `Select` is a function on numbers, so that
what it does follows by induction; the library's induction rules cannot be used here,
so `LeastNatural` gets a least counterexample from the axiom of choice, and `Induction`
follows from it.

`ServerSlotsProofs` proves, for any number of slots and any settings that
`ServerAssumption` allows, and from that alone where nothing else is said:

- `SlotTypeCorrect`: `Spec => []SlotTypeOK`;
- `CensusKept`: `Spec => []Census`, the inductive invariant behind the next three;
- `EachAnsweredOnce`, `RequestsKept`, `NoResultLeft`: `AnsweredOnce`, `NothingLost`,
  `NoOrphanResult`;
- `PromptsMatch`: `PromptMatches`, with two hypotheses: no request has children
  in a setting whose batches may be decoded in views (`NoChildrenInViews`), and none asks
  for a slot in one with a prompt cache (`NoPinWithCache`). Without either it is false:
  these are the two observations on `ServerSlots` in 6.

`ServerAssumption` asks of a setting what `server-context.cpp` ensures before it posts:
children belong to a completion, do not ask for a slot, and are fewer than the slots.

`Census` counts. For every task, `Copies` is in how many places it is: queues, the hands
of the two threads, slots, results, what the reader has received. For each request, by
where its reader is: nothing exists before it is posted; each task has at most one
copy; a cancellation is under way only when the reader has gone; while it
waits each task has exactly one copy or an error is in the result queue; after it has
cleaned up no result is. Every action is shown to do one of a few things with what
is counted (move an entry, launch, cancel, answer, release), in any batch and for any
number of slots at a time, so that a lemma about each of these serves several
actions. A release of several slots moves several deferred tasks, by induction over
the slots.

`ThreadpoolProofs` proves, for any number of threads, any graphs and chunks, with aborts
and pauses, from `PoolAssumption` alone:

- `PoolInvariance`: `Spec => []IInv`;
- `Inputs`, `Results`, `Params`: `InputsReady`, `ResultComplete`, `ParamsUntouched`.

`IInv` says where the threads can be relative to each other. `BarrierCounts`: how many
threads have arrived is how many are between their arrival and the release. `Stretch`:
all threads of the graph are on one stretch between two barriers, either `Ahead(k)`,
the operation or the conversions of node k, or `Product(k)`, the chunks of product k; a thread is
within it, waits at its end, or waits at its beginning without having been released
from the last barrier yet; what is before the stretch is complete, and what is behind it
untouched. `Others`: the threads that this graph does not use are away from all that.
The last thread to arrive at a barrier takes the whole team from one stretch to
the next.

`RecurrentMemoryProofs` proves, for any number of sequences and any settings of the
client (all kinds of calls, rollback rows, micro batches of any number and size), the
first three from `MemoryAssumption` alone:

- `Verified`: `Spec => []TailsVerified`;
- `Unbroken`: `Spec => []NeverBroken`, that is: no assertion of `find_slot` fails, in a
  trial or applied, and no batch is refused for want of cells;
- `RowsAlwaysExist`: a pending rollback is at most `n_rs_seq`, and between two micro batches
  `src` of a cell is the cell itself or none;
- `StatesExact`: `Spec => []StateExact`, under two conditions on the settings. `OneDraft`: a
  client that takes back drafts decodes them in the last micro batch of a batch ("last"), or
  in batches of one micro batch, or there are no rows to take them back from. What it
  excludes is what finding 2 is about, so in this model the finding is the only way in
  which a state can go wrong. `LongEnough`: the bound on the length of a sequence is at
  most the largest `llama_pos`; `seq_rm` of a whole sequence ends there. The settings of
  run `memory` meet both, those of `memory_rollback` the second only.

The invariant, `Sane`, is stronger than the debug check of the code in three ways that
`find_slot` depends on: a cell is in use exactly if it has a position (`seq_keep` counts
by position, the rest by sequences); a cell has no source but itself (`OwnSources`);
and head may be anywhere. `FindSlotWorks` shows that the search succeeds from there,
loop by loop:

- there are as many cells as sequences, so as long as some sequence of the micro batch
  has no cell of its own, one cell is nobody's tail (`RoomLeft`, by counting). It is
  also empty, and it is the one the cyclic search has stopped at: `NextFree` says that
  cells between where the search began and `next` are taken. A search that began behind
  would meet a cell given to a new sequence, which is empty until the sets are seated:
  `Agree` allows for those, the sequences in `D`;
- after the placing the tails of the first sequences of the sets are different
  cells, so their range is at least as long as there are sets (`SpanIs`);
- the k-th step of the gathering moves the k-th set to its place and, the places being
  different, disturbs none before it (`GatherStep`); the swapped-away cell stays in the
  range, so the seating at the end overwrites all of D (`SeatOk`);
- if a cell of the range is to start anew, some cell of the range is drawn on by
  none, again by counting, and can be cleared (`SourceLeft`, `ZeroRow`).

`TriedOk` repeats this for the micro batches of a batch. Of the client the proof needs
that the positions it has reached are at least -1 (`Followed`), so that the last position
of a micro batch is not negative, and checkpoints from decoded sequences. The
recursive functions are unfolded by lemmas of one shape (`PlacedByAt`, `PlacedByExists`,
`PlacedByIs`, and so on), and inductions use `Induction` of `QueueOpsProofs`.

`StatesExact` has an invariant of its own, `RowInv`, on top: `Exact` says of each
sequence that its cell has the position the client has reached and that the row of its
pending rollback holds its tokens, that a rollback is pending only in a cell with one sequence, and
that an empty cell with a source holds no state; `Snapshots` that the rows behind hold what
was before the draft; `Fitting`, while a batch is under way, that its positions go on from
what the client has told, that the sequences of one set have been told the same, now and
after every micro batch in between (`Alike`), and that the draft is in the last one; `Faithful`
that a checkpoint's state is that of its tokens. The step that matters is a micro batch:

- `FindSlotWorks` also says where the states are to come from, `Drew`: every cell of the
  range draws on the cell that had the state of its sequences before the search (`b`,
  the memory without the joined sequences), a sequence without one on a row that is
  zeroed or empty, and outside the range nothing moves. The zeroed row is nobody's;
- `GraphIs` says what the compute makes of the rows, `ConsumedIs` which rollbacks it ends,
  `AdvanceIs` what the client has told then; together they are `Ran`;
- `RanExact` then goes through the sequences of the micro batch (`OwnExact`), the other
  sequences in the range and outside (`OtherExact`, with `Origin`: where it was before), and
  the empty cells (`BlankStays`); `RanSnapshots` is about the rows behind. `OneDraft` is needed
  here and only here: of a sequence moved as one of the others row 0 moves alone.

`KeptExact` and `KeptSnapshots` show that what `Kept` forgets nobody needs, and one lemma per
operation does the rest (`LeaveExact`, `JoinExact`, `KeepExact`, `RedatedExact`, `RestoredBut`).

`CommonLogProofs` proves, for any threads, any size of the ring from 3 on and any
number of messages and pauses, whenever the caller pauses, `TypeCorrect` and

- `NoRace`: what `add` and `pause` write next is not among the entries the worker
  still reads without the mutex;
- `KeptInOrder`: every accepted message is printed or in the ring, once, in order, as long
  as not `overfull`;
- `PauseFlushes`: when `pause` has returned everything accepted is printed;
- `StopArrives`: while `pause` waits, the worker still has the closing entry before it
  or has met it, if and only if not `overfull`: a full ring during a flush is no
  exception.

Its invariant speaks of distances around the ring (`Dist`): the entries are, from
`head` on, printed ones not yet freed, those of this flush, those added meanwhile, and
free ones, the last of which only a closing entry may fill, and only during a flush
(`Parts`); exactly one closing entry lies among the unread ones while `pause` waits, as
the last of them, and none otherwise (`Marks`); and the k-th unread entry is the k-th
accepted message that is not printed (`Order`). Once `overfull` the rest no longer holds and
`Lost` does: the ring counts as empty, the worker sleeps or is about to, `pause` waits,
and no step changes that (`StaysLost`). The lemmas `DistIs` to `DistAdds` are the
arithmetic modulo the size.

Model-checked only:

- liveness (`Completes`, `AllAnswered`, `SlotsFreed`, `Handled`, `TerminateEnds`, `Progress`,
  `PauseReturns`, `AddWoken`, `AllPrinted`): the prover has no rules for fairness and
  ENABLED;
- the meta backend: that a butterfly over any number of backends sums everything once is
  an induction over its distances, within one over the list of host steps; 2 to 4
  backends are checked;
- the GP100 fusions: their subject is a handful of given graphs, whose placements TLC
  enumerates; there is no parameter that a proof would generalise but the number of
  cells.

## 6. Findings

1. `queue_sleep`: a request that was let through by `wait_until_no_sleep` can post its
   task after the server has gone to sleep, and nothing wakes it until another
   request comes.
2. `memory_rollback`: a micro batch can move the cell of a sequence that an earlier
   micro batch of the same batch has decoded; its state follows, its snapshots do
   not, and a rollback of that sequence reads a row of someone else.
3. `gp100_norm`: `ggml_cuda_gp100_rms_norm_mul` does not ask whether its result
   overlaps its input. The output norm is the only reader of its input, so `ggml-alloc`
   places it there; its blocks then overwrite the row while others still sum it.
   The other norms leave their input to a residual connection, and run `gp100` shows
   that they are safe.

Seen while modelling, and shown by changing the named line of a `.cfg`; without a
run of their own:

- `AllReduceKernel.cfg` with `Vec <- MixedVec`, properties `ReadsCommitted`,
  `BitIdentical`: the vector width depends on the architecture (`ggml_cuda_get_max_cpy_bytes`), blocks of two
  architectures handle different elements, but a block waits for the peer's block
  of its own index only (`allreduce.cu:142`). `pipeline_init` does not refuse a mix. The
  sum may contain stale data.
- `MetaButterfly.cfg` with `Settings <- AsyncTwice`, property `NoDataRace`: an
  asynchronous copy does not wait for its destination, and every fallback all-reduce
  starts with receive buffer 0 (`ggml-backend-meta.cpp:2381`).
- `ServerSlots.cfg` with `Settings <- Pinned`, property `PromptMatches`: a request for a busy
  slot lets the prompt cache change the slot's prompt before the request is deferred
  (`server-context.cpp:1615`). The settings of run `server` therefore have no prompt cache
  together with requests for a certain slot.
- `ServerSlots.cfg` with `Settings <- ViewsWithChild`, property `PromptMatches`: a batch is
  halved, and a parent is `DONE_PROMPT` from the moment its tokens are in the batch, not
  "when the main prompt is processed" (`server-context.cpp:3708`). After the first view
  its children copy a sequence that lacks the tokens of the later ones, and generate
  from it: their next token leaves a gap in the positions, `llama_decode` refuses the
  whole batch, and all slots end with "Invalid input batch"; a model with M-RoPE
  accepts the gap. Run `server` therefore has no children in the setting with views.
- `CommonLog.cfg` with property `PauseAlwaysReturns`: `pause` puts its entry, "to signal the
  worker thread to stop" (`log.cpp:300`), into the ring without testing whether it is full
  (302). In a full ring `tail` then meets `head` and the ring counts as empty. A worker that
  has not begun to print goes back to sleep (270), the messages are lost, and `pause`
  waits for it forever (311). During a flush it is harmless: the entries at hand are
  freed before the worker looks at the ring again. The model has this behaviour: the
  properties of run `log` except it through `overfull`, and `StopArrives` proves that it is
  the only exception.
- `Gp100Fusion.cfg` with `Layer(..., TRUE)` in `LayerWith`, property `ReadsIntended`: the fused
  delta net reads the row ids long after the gathers that the graph has them for. In
  the last recurrent layer of a split nobody reads them later, so their memory may be
  given away before.

Seen while modelling, and read in the code only:

- The match of the delta net's raw q and k does not ask whether its output overlaps
  them; in qwen35 they are views of a tensor whose other part it reads anyway.
- `abort_all_slots` keeps the prompts of the slots, also the tokens that were in the batch
  and not decoded; a later request with the same prefix counts on them (`pos_min == -1`
  in `pre_decode` aborts the program).
- The activation cache belongs to a device, not to a context; two contexts that
  decode on one device at a time (`server-context.cpp:3632`, a draft model) would share it.
- `acquire_slot`'s event does not cover a slot's last use on the chunked path when
  a tensor takes several chunks: `ev.ker` is recorded after the last chunk only.
  The proof shows that it does not matter there.
- With six or more backends the fold of the second excess backend and the first
  butterfly step share receive buffer 1 within one all-reduce.
- A task that the main thread has taken when its CANCEL is posted can be deferred
  afterwards, and runs later for nobody. Its result is dropped, the slot freed.
- A release takes up one deferred task; if that one takes no slot (a slot action, a
  launch that fails), the next stays deferred with all slots free, until another
  request comes and ends (`server-queue.cpp:107`). `AllAnswered` holds in the settings
  of the run because no two tasks are deferred at once there.
- The children of a parent with an empty prompt wait in their slots forever
  (`server-context.cpp:3119`): no setting has both.
- `notify_one` in `wait_until_no_sleep` may wake another waiting HTTP thread instead of
  the main thread ("only main thread is waiting on this"). That thread was woken
  together with a request to stop sleeping already made, so the main thread has been
  notified before; no run shows a lost wake-up.
- `terminate` during the sleep leaves `sleeping` set: HTTP threads that wait for its end
  wait on. A `terminate` before `start_loop` is forgotten (279). The signal handler that
  calls it locks `mutex_tasks`.
- A failed graph: with `n_rs_seq = 0` `decode` cannot remove the micro batch's positions
  (`seq_rm` refuses a partial removal), so `seq_pos_max` includes them, against
  `llama.h:982`; and cells of other sequences in the range may keep no copy of their
  state. The client of the model clears the memory then.
- `seq_keep` and removals of a part leave `rs_idx` of removed sequences; `seq_cp` of a
  sequence with a pending rollback shares the cell without it; `seq_add` and
  a partial rollback on a shared cell move the position of all its sequences. The client
  of the model does none of these.
- The number of the graph in `n_graph` keeps 16 bits: a worker that is not scheduled
  for 65536 graphs would take the next for the one it knows.
- Zeroing by scaling keeps a NaN (a FIXME in the source). The model zeroes.

## 7. Not modelled

Of the modelled components: how the meta backend splits tensors and partitions
graphs; several prompts per request (a request is one task with its children),
CONTROL and LoRA tasks, streamed partial results, drafts. The condition variables are in `ServerQueue` only: `Wake` of `ServerSlots` sees a
non-empty queue. Of the memory: saving and restoring all sequences at once, the
reservation with `init_full`, removals from the middle (refused by the code unless
they include the last position). Of the thread pool: fused nodes, `mul_mat_id`
(its counters are per matrix but used alike), the small products of llamafile, and
the OpenMP build. Of the GP100 path: prefill, gate and up in one product, several
graphs or contexts on one device, buffers of several chunks; of the allocator,
only how tensors of one buffer share memory.

Rounding to the wire type is left out: it applies to every contribution alike.
Memory is sequentially consistent except that stores of a block are not ordered
with its signal by anything but the barrier and the fence, which the order of
`Stage` and `Signal` expresses.

## 8. Plan

In this order; the first of each group matter most.

1. The composition of `ServerSlots` with `ServerQueue`; drafts and their rollback.
2. `SchedCopies`: input copies and events of the scheduler's pipeline.
3. `KvCells`: operations as actions, redundant indices against a reference
   definition; whole-state save and restore of both memories.
4. `BatchSplit` and `GraphAllocator` as functions against reference definitions.
5. `ServerModels`; the output of the delta net over its raw operands, several contexts
   on one device in `Gp100Fusion`.

Proofs: `AuxFits` of the meta backend.
