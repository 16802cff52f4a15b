--------------------------- MODULE AllReduceKernel ---------------------------
(***************************************************************************)
(* The chunked-kernel path of ggml-cuda/allreduce.cu.                      *)
(*                                                                         *)
(* The host cuts a tensor into chunks, acquires for each chunk a slot of a *)
(* two-slot ring and launches one kernel per GPU on that GPU's compute     *)
(* stream (acquire_slot, ggml_cuda_ar_allreduce).  The GPUs share no lock: *)
(* every thread block stages its stripe of the data in mapped host memory, *)
(* writes the call's token to its own arrival word, spins until the same   *)
(* block of every peer shows that token, and sums the staged stripes in    *)
(* rank order (ggml_cuda_ar_kernel).                                       *)
(*                                                                         *)
(* Data.  The contribution of rank r to call c is the pair <<r, c>>.  The  *)
(* zeros a rank without the COMPUTE flag memsets on its stream before the  *)
(* kernel are such a contribution too; rounding to the wire type applies   *)
(* to every contribution alike and is left out.  Host memory holds, per    *)
(* element, the call whose value was stored last.                          *)
(***************************************************************************)
EXTENDS Integers, Sequences

CONSTANTS
    NRanks,     \* number of GPUs
    Blocks,     \* thread blocks per kernel, GGML_CUDA_AR_KERNEL_BLOCKS
    Threads,    \* threads per block
    Vec,        \* Vec[r]: ELEMS_PER_VEC as compiled for the architecture of r
    MaxCount,   \* elements that fit in one staging buffer, max_chunk_elems
    Counts,     \* chunk sizes, in elements, that the caller may ask for
    TokenMod,   \* a token is a C int: 2^32 in the code
    MaxCall     \* bound of the model: slots acquired in a behaviour

Rank  == 0 .. NRanks - 1
Block == 0 .. Blocks - 1
Elem  == 0 .. MaxCount - 1

ASSUME KernelAssumption ==
    /\ NRanks \in Nat \ {0, 1}
    /\ Blocks \in Nat \ {0}
    /\ Threads \in Nat \ {0}
    /\ MaxCount \in Nat \ {0}
    /\ Counts \subseteq 1 .. MaxCount
    /\ Vec \in [Rank -> Nat \ {0}]
    /\ \A r \in Rank : Vec[r] <= Threads + 1
    /\ TokenMod \in Nat /\ TokenMod > 2
    /\ MaxCall \in Nat

(* A bug: staging and arrival words that are not double-buffered. *)
SingleSlot == 1

GGML_CUDA_AR_POOL_SIZE == 2

VARIABLES
    calls,     \* the host's calls of acquire_slot: size of the chunk, last chunk?
    launched,  \* launched[r]: kernels launched on r's stream
    ker,       \* ker[s][r]: call after which event ker of slot s was last recorded on r
    done,      \* done[r]: kernels that r's stream has completed
    pc,        \* pc[r][b]: where block b of r's running kernel is
    wait,      \* wait[r][b]: the rank whose arrival word the block polls next
    host,      \* host[s][r][e]: call whose value is in r's staging buffer of slot s
    arrival,   \* arrival[s][r][b]: the token in the arrival word
    recv       \* recv[r][e]: the contributions summed into recvbuf, in order

vars == <<calls, launched, ker, done, pc, wait, host, arrival, recv>>

Slot == 0 .. GGML_CUDA_AR_POOL_SIZE - 1
Call == 1 .. MaxCall

SlotOf(c) == (c - 1) % GGML_CUDA_AR_POOL_SIZE

(* A bug: a token that names the slot, not the call. *)
TokenOfSlot(c) == SlotOf(c) + 1

Token(c)  == c % TokenMod

(* The block whose threads handle vector v: the vectors are striped over    *)
(* all the threads of the grid.                                             *)
BlockOf(v) == (v % (Blocks * Threads)) \div Threads

(* The elements of a chunk of n that block b of rank r stages and reduces:  *)
(* those of its vectors and, for block 0, the tail shorter than a vector.   *)
Stripe(r, n, b) ==
    LET tail == (n \div Vec[r]) * Vec[r]
    IN  {e \in 0 .. n - 1 : IF e < tail THEN BlockOf(e \div Vec[r]) = b
                                        ELSE b = 0 /\ e - tail < Threads}

(* The call that r's running kernel serves, and the chunk size it was given. *)
Current(r)  == done[r] + 1
Size(r)     == calls[Current(r)].count
MyStripe(r, b) == Stripe(r, Size(r), b)
Running(r)  == done[r] < launched[r]

(* A bug: the loop over the peers skips one too many. *)
SkipTwo(r, i) == IF i = r THEN i + 2 ELSE i

(* The ranks a block polls, in the order of the loop: skip its own. *)
SkipSelf(r, i) == IF i = r THEN i + 1 ELSE i

(* The order in which a kernel of rank r adds the contributions. *)
RankOrder(r) == [k \in 1 .. NRanks |-> k - 1]

-----------------------------------------------------------------------------
Init ==
    /\ calls    = <<>>
    /\ launched = [r \in Rank |-> 0]
    /\ ker      = [s \in Slot |-> [r \in Rank |-> 0]]
    /\ done     = [r \in Rank |-> 0]
    /\ pc       = [r \in Rank |-> [b \in Block |-> "ready"]]
    /\ wait     = [r \in Rank |-> [b \in Block |-> 0]]
    /\ host     = [s \in Slot |-> [r \in Rank |-> [e \in Elem |-> 0]]]
    /\ arrival  = [s \in Slot |-> [r \in Rank |-> [b \in Block |-> 0]]]
    /\ recv     = [r \in Rank |-> [e \in Elem |-> <<>>]]

(* The host takes the next slot.  Once the pool has lapped it waits for the *)
(* event last recorded in that slot on every device.  Only the last chunk   *)
(* of a tensor may be shorter than the staging buffer.                      *)
AcquireSlot(n, last) ==
    LET c == Len(calls) + 1 IN
    /\ c \in Call
    /\ \A r \in Rank : launched[r] = Len(calls)
    /\ last \/ n = MaxCount
    /\ Len(calls) >= GGML_CUDA_AR_POOL_SIZE =>
           \A r \in Rank : done[r] >= ker[SlotOf(c)][r]
    /\ calls' = Append(calls, [count |-> n, last |-> last])
    /\ UNCHANGED <<launched, ker, done, pc, wait, host, arrival, recv>>

(* The host launches the kernel of the slot just acquired on the next       *)
(* device, and records the event after it if the chunk is the last one.     *)
Launch(r) ==
    LET c == Len(calls) IN
    /\ launched[r] < c
    /\ \A q \in Rank : q < r => launched[q] = c
    /\ launched' = [launched EXCEPT ![r] = c]
    /\ ker' = IF calls[c].last THEN [ker EXCEPT ![SlotOf(c)][r] = c] ELSE ker
    /\ UNCHANGED <<calls, done, pc, wait, host, arrival, recv>>

(* Phase 1: the block stores its stripe in r's staging buffer and fences.   *)
Stage(r, b) ==
    /\ Running(r)
    /\ pc[r][b] = "ready"
    /\ host' = [host EXCEPT ![SlotOf(Current(r))][r] =
                   [e \in Elem |-> IF e \in MyStripe(r, b) THEN Current(r) ELSE @[e]]]
    /\ pc' = [pc EXCEPT ![r][b] = "staged"]
    /\ UNCHANGED <<calls, launched, ker, done, wait, arrival, recv>>

(* A bug: no barrier between the stores of a block and its signal. *)
SignalEarly(r, b) ==
    /\ Running(r) /\ pc[r][b] \in {"ready", "staged"}
    /\ arrival' = [arrival EXCEPT ![SlotOf(Current(r))][r][b] = Token(Current(r))]
    /\ pc' = [pc EXCEPT ![r][b] = "signalled"]
    /\ wait' = [wait EXCEPT ![r][b] = SkipSelf(r, 0)]
    /\ UNCHANGED <<calls, launched, ker, done, host, recv>>

(* Phase 2, first half: thread 0 publishes the token. *)
Signal(r, b) ==
    /\ pc[r][b] = "staged"
    /\ arrival' = [arrival EXCEPT ![SlotOf(Current(r))][r][b] = Token(Current(r))]
    /\ pc' = [pc EXCEPT ![r][b] = "signalled"]
    /\ wait' = [wait EXCEPT ![r][b] = SkipSelf(r, 0)]
    /\ UNCHANGED <<calls, launched, ker, done, host, recv>>

(* A bug: the block polls its own word. *)
SpinOnSelf(r, b) ==
    /\ pc[r][b] = "signalled"
    /\ wait[r][b] < NRanks
    /\ arrival[SlotOf(Current(r))][r][b] = Token(Current(r))
    /\ wait' = [wait EXCEPT ![r][b] = SkipSelf(r, @ + 1)]
    /\ UNCHANGED <<calls, launched, ker, done, pc, host, arrival, recv>>

(* A bug: the loop over the peers does not advance. *)
SpinInPlace(r, b) ==
    /\ pc[r][b] = "signalled"
    /\ wait[r][b] < NRanks
    /\ arrival[SlotOf(Current(r))][wait[r][b]][b] = Token(Current(r))
    /\ wait' = [wait EXCEPT ![r][b] = SkipSelf(r, @)]
    /\ UNCHANGED <<calls, launched, ker, done, pc, host, arrival, recv>>

(* Phase 2, second half: the polled arrival word shows the token; go on to  *)
(* the next peer.                                                           *)
Spin(r, b) ==
    /\ pc[r][b] = "signalled"
    /\ wait[r][b] < NRanks
    /\ arrival[SlotOf(Current(r))][wait[r][b]][b] = Token(Current(r))
    /\ wait' = [wait EXCEPT ![r][b] = SkipSelf(r, @ + 1)]
    /\ UNCHANGED <<calls, launched, ker, done, pc, host, arrival, recv>>

(* Phase 3: the block sums, for its stripe, its own contribution and what   *)
(* the peers' staging buffers hold, and stores the result.                  *)
Reduce(r, b) ==
    LET c == Current(r)
        Read(p, e) == <<p, IF p = r THEN c ELSE host[SlotOf(c)][p][e]>>
    IN
    /\ pc[r][b] = "signalled"
    /\ wait[r][b] = NRanks
    /\ recv' = [recv EXCEPT ![r] =
                   [e \in Elem |-> IF e \in MyStripe(r, b)
                                   THEN [k \in 1 .. NRanks |-> Read(RankOrder(r)[k], e)]
                                   ELSE @[e]]]
    /\ pc' = [pc EXCEPT ![r][b] = "reduced"]
    /\ UNCHANGED <<calls, launched, ker, done, wait, host, arrival>>

(* The kernel retires when all its blocks have; the next kernel on the same *)
(* stream starts after it.                                                  *)
Finish(r) ==
    /\ \A b \in Block : pc[r][b] = "reduced"
    /\ done' = [done EXCEPT ![r] = @ + 1]
    /\ pc'   = [pc EXCEPT ![r] = [b \in Block |-> "ready"]]
    /\ wait' = [wait EXCEPT ![r] = [b \in Block |-> 0]]
    /\ UNCHANGED <<calls, launched, ker, host, arrival, recv>>

(* The bound of the model is reached and everything has completed. *)
Terminated ==
    /\ Len(calls) = MaxCall
    /\ \A r \in Rank : done[r] = MaxCall
    /\ UNCHANGED vars

BlockStep(r, b) == Stage(r, b) \/ Signal(r, b) \/ Spin(r, b) \/ Reduce(r, b)

Next ==
    \/ \E n \in Counts, last \in BOOLEAN : AcquireSlot(n, last)
    \/ \E r \in Rank : Launch(r)
    \/ \E r \in Rank, b \in Block : BlockStep(r, b)
    \/ \E r \in Rank : Finish(r)
    \/ Terminated

Spec == Init /\ [][Next]_vars

(* The host finishes the launches of a slot it acquired, and the hardware   *)
(* runs the blocks of launched kernels: the eight blocks of 256 threads are *)
(* resident together.  Whether there is a next call is the caller's.  That  *)
(* some of this work goes on is enough: lockstep starves nobody.            *)
Work ==
    \/ \E r \in Rank : Launch(r) \/ Finish(r)
    \/ \E r \in Rank, b \in Block : BlockStep(r, b)

Fairness == WF_vars(Work)

FairSpec == Spec /\ Fairness

-----------------------------------------------------------------------------
PC == {"ready", "staged", "signalled", "reduced"}

(* Every variable has its type; a stream completes only what was launched,  *)
(* the host launches only for slots it acquired, the ranks in order and at  *)
(* most one call apart.                                                     *)
TypeOK ==
    /\ calls \in Seq([count : Counts, last : BOOLEAN])
    /\ Len(calls) <= MaxCall
    /\ launched \in [Rank -> Nat]
    /\ done \in [Rank -> Nat]
    /\ \A r \in Rank : /\ done[r] <= launched[r]
                       /\ launched[r] <= Len(calls)
                       /\ launched[r] + 1 >= Len(calls)
    /\ ker \in [Slot -> [Rank -> Nat]]
    /\ pc \in [Rank -> [Block -> PC]]
    /\ \A r \in Rank, b \in Block : pc[r][b] # "ready" => Running(r)
    /\ wait \in [Rank -> [Block -> 0 .. NRanks]]
    /\ host \in [Slot -> [Rank -> [Elem -> Nat]]]
    /\ arrival \in [Slot -> [Rank -> [Block -> 0 .. TokenMod - 1]]]
    /\ recv \in [Rank -> [Elem -> Seq(Rank \X Nat)]]

(* The block is past its spin and may read the peers' buffers. *)
Reading(r, b) == pc[r][b] = "signalled" /\ wait[r][b] = NRanks

(* The block may be storing its stripe. *)
Writing(r, b) == Running(r) /\ pc[r][b] = "ready"

(* A block past its spin finds, in every peer's buffer, this call's data    *)
(* for every element of its stripe: tokens per block, with no barrier       *)
(* between the blocks, are enough, and the wrap-around of the ring and of   *)
(* the token never lets a block through early.                              *)
ReadsCommitted ==
    \A r, p \in Rank, b \in Block :
        Reading(r, b) /\ p # r =>
            \A e \in MyStripe(r, b) : host[SlotOf(Current(r))][p][e] = Current(r)

(* No block stores to a word of host memory that a block of another rank    *)
(* may be reading: a slot is reused only when all have consumed it.         *)
NoDataRace ==
    \A r, p \in Rank, b, d \in Block :
        Reading(r, b) /\ Writing(p, d) /\ p # r
            /\ SlotOf(Current(r)) = SlotOf(Current(p))
                => MyStripe(r, b) \cap MyStripe(p, d) = {}

(* Element e of rank r shows the result of the last call r completed: the   *)
(* kernel it is running, if any, has not stored e.                          *)
Settled(r, e) ==
    /\ done[r] > 0
    /\ e < calls[done[r]].count
    /\ \A b \in Block : pc[r][b] = "reduced" => e \notin MyStripe(r, b)

(* "All of them perform the same float additions in the same order and end  *)
(* with bit-identical results": two ranks that completed the same call      *)
(* hold, for every element, the same contributions added in the same order. *)
BitIdentical ==
    \A r, p \in Rank, e \in Elem :
        done[r] = done[p] /\ Settled(r, e) /\ Settled(p, e) =>
            recv[r][e] = recv[p][e]

(* What a completed call leaves in the tensor is the sum of that call's     *)
(* contributions of all ranks, each once and none stale.                    *)
SumExact ==
    \A r \in Rank, e \in Elem :
        Settled(r, e) => recv[r][e] = [k \in 1 .. NRanks |-> <<k - 1, done[r]>>]

(* "Lockstep guarantees the GPUs are at most one AR (or chunk) apart",      *)
(* though nothing but the arrival words holds a GPU back.                   *)
Lockstep == \A r, p \in Rank : done[r] <= done[p] + 1

(* A call that the first GPU was given completes on every GPU: no block     *)
(* misses the token it spins for, not even when a faster peer reuses the    *)
(* arrival word.                                                            *)
Completes ==
    \A k \in Call : launched[0] >= k ~> \A r \in Rank : done[r] >= k

-----------------------------------------------------------------------------
(* The inductive invariant behind the properties above.                     *)

(* The last call block b of r has staged, signalled. *)
Staged(r, b) == IF pc[r][b] # "ready" THEN done[r] + 1 ELSE done[r]
Given(r, b)  == IF pc[r][b] \in {"signalled", "reduced"} THEN done[r] + 1 ELSE done[r]

(* The peers a block has polled, all of them once it reduced, have signalled *)
(* its call; and a rank completes a call only after every peer's blocks did. *)
Barrier ==
    /\ \A r, p \in Rank, b \in Block :
          /\ pc[r][b] = "signalled" /\ p # r /\ p < wait[r][b] => Given(p, b) >= done[r] + 1
          /\ pc[r][b] = "reduced" => Given(p, b) >= done[r] + 1
          /\ Given(p, b) >= done[r]
    /\ \A r \in Rank, b \in Block : pc[r][b] = "signalled" => wait[r][b] # r

(* A staging buffer holds the call its rank staged last in that slot. *)
HostHolds ==
    \A r \in Rank, b \in Block : \A c \in {done[r], done[r] + 1} \ {0} :
        c <= Staged(r, b) =>
            \A e \in Stripe(r, calls[c].count, b) : host[SlotOf(c)][r][e] = c

(* An arrival word holds the token of the call last signalled in its slot. *)
ArrivalHolds ==
    \A r \in Rank, b \in Block :
        /\ arrival[SlotOf(done[r])][r][b] = Token(done[r])
        /\ arrival[SlotOf(done[r] + 1)][r][b] =
              IF Given(r, b) = done[r] + 1 THEN Token(done[r] + 1)
              ELSE IF done[r] = 0 THEN 0 ELSE Token(done[r] - 1)

(* A block that reduced has stored the sum of its call. *)
RecvHolds ==
    /\ \A r \in Rank, b \in Block : pc[r][b] = "reduced" =>
          \A e \in MyStripe(r, b) : recv[r][e] = [k \in 1 .. NRanks |-> <<k - 1, Current(r)>>]
    /\ SumExact

IInv == TypeOK /\ Barrier /\ HostHolds /\ ArrivalHolds /\ RecvHolds

-----------------------------------------------------------------------------
(* The refinement mapping (module AllReduceKernelProofs): an element         *)
(* has been contributed to a call once its block staged it.                 *)

(* The calls that rank r completed whose chunk had an element e. *)
Sized(r, e) == {c \in 1 .. done[r] : e < calls[c].count}

(* The last of them. *)
LastSized(r, e) ==
    IF Sized(r, e) = {} THEN 0
    ELSE CHOOSE c \in Sized(r, e) : \A d \in Sized(r, e) : d <= c

givenBar ==
    [r \in Rank |-> [e \in Elem |->
        IF \E b \in Block : pc[r][b] # "ready" /\ e \in MyStripe(r, b)
        THEN Current(r) ELSE LastSized(r, e)]]
=============================================================================
