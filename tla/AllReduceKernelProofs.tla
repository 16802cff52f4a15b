------------------------ MODULE AllReduceKernelProofs ------------------------
(***************************************************************************)
(* Proofs about AllReduceKernel, for every number of GPUs, blocks, calls   *)
(* and chunk sizes.                                                        *)
(***************************************************************************)
EXTENDS AllReduceKernel, SequenceTheorems, TLAPS

(* The GPUs agree on the vector width, hence on which block owns an element. *)
Uniform == \A r, p \in Rank : Vec[r] = Vec[p]

-----------------------------------------------------------------------------
(* The ring alternates between its two slots. *)
LEMMA SlotFacts ==
    ASSUME NEW c \in Nat
    PROVE  /\ SlotOf(c) \in Slot
           /\ SlotOf(c + 2) = SlotOf(c)
           /\ SlotOf(c + 1) \in Slot
           /\ SlotOf(c + 1) # SlotOf(c)
BY DEF SlotOf, Slot, GGML_CUDA_AR_POOL_SIZE

(* Tokens stay in the range of the token type. *)
LEMMA TokenType ==
    ASSUME NEW c \in Nat
    PROVE  Token(c) \in 0 .. TokenMod - 1
BY KernelAssumption DEF Token

(* Two calls that follow one another in a slot have different tokens, even  *)
(* where the token type wraps around.                                       *)
LEMMA TokenDiffers ==
    ASSUME NEW c \in Nat
    PROVE  Token(c + 2) # Token(c)
<1> DEFINE M == TokenMod
           q == c \div M
           p == (c + 2) \div M
<1>1. M \in Nat /\ M > 2
  BY KernelAssumption
<1>2. q \in Int /\ p \in Int
  BY <1>1, Z3
<1>3. c = M * q + (c % M)
  BY <1>1, Z3
<1>4. c + 2 = M * p + ((c + 2) % M)
  BY <1>1, Z3
<1> HIDE DEF M, q, p
<1>5. ASSUME (c + 2) % M = c % M PROVE FALSE
  <2>1. 2 = M * (p - q)
    BY <1>1, <1>2, <1>3, <1>4, <1>5, Z3
  <2>2. CASE p - q <= 0
    BY <1>1, <1>2, <2>1, <2>2, Z3
  <2>3. CASE p - q >= 1
    <3>1. M * (p - q) >= M
      BY <1>1, <1>2, <2>3, Z3
    <3> QED BY <1>1, <1>2, <2>1, <3>1, Z3
  <2> QED BY <1>2, <2>2, <2>3
<1> QED BY <1>5 DEF Token, M

(* The words are zero before the first call, which never is its token. *)
LEMMA TokenFirst == Token(0) = 0 /\ Token(1) # Token(0)
<1>1. TokenMod \in Nat /\ TokenMod > 2
  BY KernelAssumption
<1> QED BY <1>1 DEF Token

(* The stripes of a rank are disjoint... *)
LEMMA StripeDisjoint ==
    ASSUME NEW r \in Rank, NEW n \in Nat, NEW b \in Block, NEW d \in Block,
           b # d
    PROVE  Stripe(r, n, b) \cap Stripe(r, n, d) = {}
BY DEF Stripe

(* ... and cover the chunk. *)
LEMMA StripeCovers ==
    ASSUME NEW r \in Rank, NEW n \in Nat, NEW e \in 0 .. n - 1
    PROVE  \E b \in Block : e \in Stripe(r, n, b)
<1> DEFINE V == Vec[r]
           T == Threads
           tail == (n \div V) * V
           x == (e \div V) % (Blocks * T)
<1>1. V \in Nat /\ V > 0 /\ T \in Nat /\ T > 0 /\ V <= T + 1
      /\ Blocks \in Nat /\ Blocks > 0
  BY KernelAssumption
<1>2. CASE e < tail
  <2>1. e \div V \in Nat
    BY <1>1, Z3
  <2>2. Blocks * T \in Nat /\ Blocks * T > 0
    BY <1>1, Z3
  <2>3. x \in Nat /\ x < Blocks * T
    BY <2>1, <2>2, Z3
  <2> HIDE DEF x
  <2> DEFINE y == x \div T
  <2>4. y \in Nat /\ x = T * y + (x % T) /\ x % T >= 0
    BY <2>3, <1>1, Z3
  <2> HIDE DEF y
  <2>5. y < Blocks
    <3>1. SUFFICES ASSUME y >= Blocks PROVE FALSE
      BY <2>4, <1>1
    <3>2. T * y >= T * Blocks
      BY <3>1, <2>4, <1>1, Z3
    <3>3. x % T \in Int
      BY <2>3, <1>1, Z3
    <3> HIDE DEF T
    <3> QED BY <3>2, <3>3, <2>3, <2>4, <1>1, Z3
  <2>6. BlockOf(e \div V) = y
    BY DEF BlockOf, x, y
  <2>7. e \in Stripe(r, n, y)
    BY <1>2, <2>6 DEF Stripe
  <2> QED BY <2>4, <2>5, <2>7, <1>1 DEF Block
<1>3. CASE ~(e < tail)
  <2>1. tail \in Nat /\ n - tail < V
    BY <1>1, Z3
  <2> HIDE DEF tail
  <2>2. e - tail < T
    BY <2>1, <1>1
  <2> USE DEF tail
  <2>3. e \in Stripe(r, n, 0)
    BY <1>3, <2>2 DEF Stripe
  <2> QED BY <2>3, <1>1 DEF Block
<1> QED BY <1>2, <1>3

(* With one vector width the stripes of a block are the same on every rank. *)
LEMMA StripeUniform ==
    ASSUME Uniform, NEW r \in Rank, NEW p \in Rank, NEW n, NEW b
    PROVE  Stripe(r, n, b) = Stripe(p, n, b)
BY DEF Uniform, Stripe

(* A rank polls only ranks, never itself, and stops after the last. *)
LEMMA SkipFirst ==
    ASSUME NEW r \in Rank
    PROVE  /\ SkipSelf(r, 0) \in 0 .. NRanks
           /\ SkipSelf(r, 0) # r
           /\ \A p \in Rank : p # r => p >= SkipSelf(r, 0)
BY KernelAssumption DEF Rank, SkipSelf

(* The peer after peer i, itself left out, is the next in order: none is    *)
(* missed.                                                                  *)
LEMMA SkipNext ==
    ASSUME NEW r \in Rank, NEW i \in 0 .. NRanks - 1
    PROVE  /\ SkipSelf(r, i + 1) \in 0 .. NRanks
           /\ SkipSelf(r, i + 1) # r
           /\ \A p \in Rank : p < SkipSelf(r, i + 1) /\ p # r => p <= i
BY KernelAssumption DEF Rank, SkipSelf

-----------------------------------------------------------------------------
(* Type correctness: TypeOK is inductive. *)
LEMMA TypeInit == Init => TypeOK
<1> SUFFICES ASSUME Init PROVE TypeOK
  OBVIOUS
<1> USE KernelAssumption
<1>1. calls \in Seq([count : Counts, last : BOOLEAN]) /\ Len(calls) = 0
  BY DEF Init
<1>2. arrival \in [Slot -> [Rank -> [Block -> 0 .. TokenMod - 1]]]
  BY DEF Init
<1>3. recv \in [Rank -> [Elem -> Seq(Rank \X Nat)]]
  BY DEF Init
<1>4. wait \in [Rank -> [Block -> 0 .. NRanks]]
  BY DEF Init
<1> QED BY <1>1, <1>2, <1>3, <1>4 DEF Init, TypeOK, PC

(* The call in progress, its slot and its token are in range. *)
LEMMA CurrentType ==
    ASSUME TypeOK, NEW r \in Rank
    PROVE  /\ Current(r) \in Nat \ {0}
           /\ Current(r) = done[r] + 1
           /\ SlotOf(Current(r)) \in Slot
           /\ Token(Current(r)) \in 0 .. TokenMod - 1
<1>1. done[r] \in Nat
  BY DEF TypeOK
<1>2. Current(r) \in Nat \ {0} /\ Current(r) = done[r] + 1
  BY <1>1 DEF Current
<1>3. SlotOf(Current(r)) \in Slot
  BY <1>2, SlotFacts
<1>4. Token(Current(r)) \in 0 .. TokenMod - 1
  BY <1>2, TokenType
<1> QED BY <1>2, <1>3, <1>4

(* Every step keeps TypeOK. *)
LEMMA TypeStep == TypeOK /\ [Next]_vars => TypeOK'
<1> SUFFICES ASSUME TypeOK, [Next]_vars PROVE TypeOK'
  OBVIOUS
<1> USE DEF TypeOK, Running
<1>1. ASSUME NEW n \in Counts, NEW last \in BOOLEAN, AcquireSlot(n, last)
      PROVE  TypeOK'
  <2>1. calls' \in Seq([count : Counts, last : BOOLEAN])
        /\ Len(calls') = Len(calls) + 1
    BY <1>1 DEF AcquireSlot
  <2>2. Len(calls') <= MaxCall
    BY <1>1, <2>1, KernelAssumption DEF AcquireSlot, Call
  <2> QED BY <1>1, <2>1, <2>2 DEF AcquireSlot
<1>2. ASSUME NEW r \in Rank, Launch(r) PROVE TypeOK'
  <2>1. Len(calls) \in Nat
    OBVIOUS
  <2>2. launched' \in [Rank -> Nat]
    BY <1>2, <2>1 DEF Launch
  <2>3. ker' \in [Slot -> [Rank -> Nat]]
    BY <1>2, <2>1 DEF Launch
  <2>4. \A q \in Rank : /\ done'[q] <= launched'[q]
                        /\ launched'[q] <= Len(calls')
                        /\ launched'[q] + 1 >= Len(calls')
    BY <1>2, <2>1 DEF Launch
  <2>5. \A q \in Rank, b \in Block : pc'[q][b] # "ready" => done'[q] < launched'[q]
    BY <1>2, <2>1 DEF Launch
  <2> QED BY <1>2, <2>2, <2>3, <2>4, <2>5 DEF Launch
<1>3. ASSUME NEW r \in Rank, NEW b \in Block, Stage(r, b) PROVE TypeOK'
  <2>1. host' \in [Slot -> [Rank -> [Elem -> Nat]]]
    <3>1. Current(r) \in Nat
      BY CurrentType
    <3> DEFINE s == SlotOf(Current(r))
               Stored == [e \in Elem |-> IF e \in MyStripe(r, b) THEN Current(r)
                                         ELSE host[s][r][e]]
    <3>2. host' = [host EXCEPT ![s][r] = Stored]
      BY <1>3 DEF Stage
    <3>3. Stored \in [Elem -> Nat]
      BY <3>1, CurrentType
    <3> HIDE DEF s, Stored
    <3> QED BY <3>2, <3>3
  <2>2. pc' \in [Rank -> [Block -> PC]]
    BY <1>3 DEF Stage, PC
  <2>3. \A q \in Rank, d \in Block : pc'[q][d] # "ready" => done'[q] < launched'[q]
    BY <1>3 DEF Stage
  <2> QED BY <1>3, <2>1, <2>2, <2>3 DEF Stage
<1>4. ASSUME NEW r \in Rank, NEW b \in Block, Signal(r, b) PROVE TypeOK'
  <2>1. Token(Current(r)) \in 0 .. TokenMod - 1
    BY CurrentType
  <2>2. arrival' \in [Slot -> [Rank -> [Block -> 0 .. TokenMod - 1]]]
    BY <1>4, <2>1 DEF Signal
  <2>3. pc' \in [Rank -> [Block -> PC]]
    BY <1>4 DEF Signal, PC
  <2>4. wait' \in [Rank -> [Block -> 0 .. NRanks]]
    <3>1. SkipSelf(r, 0) \in 0 .. NRanks
      BY SkipFirst
    <3> QED BY <1>4, <3>1 DEF Signal
  <2>5. \A q \in Rank, d \in Block : pc'[q][d] # "ready" => done'[q] < launched'[q]
    BY <1>4 DEF Signal
  <2> QED BY <1>4, <2>2, <2>3, <2>4, <2>5 DEF Signal
<1>5. ASSUME NEW r \in Rank, NEW b \in Block, Spin(r, b) PROVE TypeOK'
  <2>1. SkipSelf(r, wait[r][b] + 1) \in 0 .. NRanks
    <3>1. wait[r][b] \in 0 .. NRanks - 1
      BY <1>5, KernelAssumption DEF Spin
    <3> QED BY <3>1, SkipNext
  <2>2. wait' \in [Rank -> [Block -> 0 .. NRanks]]
    BY <1>5, <2>1 DEF Spin
  <2> QED BY <1>5, <2>2 DEF Spin
<1>6. ASSUME NEW r \in Rank, NEW b \in Block, Reduce(r, b) PROVE TypeOK'
  <2> DEFINE Read(p, e) == <<p, IF p = r THEN Current(r)
                                ELSE host[SlotOf(Current(r))][p][e]>>
             Added(e) == [k \in 1 .. NRanks |-> Read(RankOrder(r)[k], e)]
  <2>1. ASSUME NEW e \in Elem PROVE Added(e) \in Seq(Rank \X Nat)
    <3>1. \A k \in 1 .. NRanks : RankOrder(r)[k] \in Rank
      BY KernelAssumption DEF RankOrder, Rank
    <3>2. Current(r) \in Nat /\ SlotOf(Current(r)) \in Slot
      BY CurrentType
    <3>3. \A k \in 1 .. NRanks : Read(RankOrder(r)[k], e) \in Rank \X Nat
      <4> SUFFICES ASSUME NEW k \in 1 .. NRanks
                   PROVE  Read(RankOrder(r)[k], e) \in Rank \X Nat
        OBVIOUS
      <4>1. RankOrder(r)[k] \in Rank
        BY <3>1
      <4>2. host[SlotOf(Current(r))][RankOrder(r)[k]][e] \in Nat
        BY <3>2, <4>1
      <4> QED BY <3>2, <4>1, <4>2
    <3> QED BY <3>3, KernelAssumption
  <2>2. recv' \in [Rank -> [Elem -> Seq(Rank \X Nat)]]
    <3> HIDE DEF Added
    <3>1. recv' = [recv EXCEPT ![r] =
                      [e \in Elem |-> IF e \in MyStripe(r, b) THEN Added(e)
                                      ELSE recv[r][e]]]
      BY <1>6 DEF Reduce, Added
    <3> QED BY <3>1, <2>1
  <2>3. pc' \in [Rank -> [Block -> PC]]
    BY <1>6 DEF Reduce, PC
  <2>4. \A q \in Rank, d \in Block : pc'[q][d] # "ready" => done'[q] < launched'[q]
    BY <1>6 DEF Reduce
  <2> QED BY <1>6, <2>2, <2>3, <2>4 DEF Reduce
<1>7. ASSUME NEW r \in Rank, Finish(r) PROVE TypeOK'
  <2>1. 0 \in Block
    BY KernelAssumption DEF Block
  <2>2. done[r] < launched[r]
    BY <1>7, <2>1 DEF Finish
  <2>3. done' \in [Rank -> Nat]
        /\ \A q \in Rank : /\ done'[q] <= launched'[q]
                           /\ launched'[q] <= Len(calls')
                           /\ launched'[q] + 1 >= Len(calls')
    BY <1>7, <2>2 DEF Finish
  <2>4. pc' \in [Rank -> [Block -> PC]]
        /\ \A q \in Rank, d \in Block : pc'[q][d] # "ready" => done'[q] < launched'[q]
    BY <1>7 DEF Finish, PC
  <2>5. wait' \in [Rank -> [Block -> 0 .. NRanks]]
    BY <1>7, KernelAssumption DEF Finish
  <2> QED BY <1>7, <2>3, <2>4, <2>5 DEF Finish
<1>8. CASE UNCHANGED vars
  BY <1>8 DEF vars
<1> QED
  BY <1>1, <1>2, <1>3, <1>4, <1>5, <1>6, <1>7, <1>8
  DEF Next, BlockStep, Terminated

(* Every reachable state of the chunked path is well typed. *)
THEOREM TypeCorrect == Spec => []TypeOK
BY TypeInit, TypeStep, PTL DEF Spec

-----------------------------------------------------------------------------
(* The inductive invariant.                                                *)

LEMMA GivenBounds ==
    ASSUME TypeOK, NEW r \in Rank, NEW b \in Block
    PROVE  /\ done[r] \in Nat
           /\ Given(r, b) \in {done[r], done[r] + 1}
           /\ Staged(r, b) \in {done[r], done[r] + 1}
           /\ Given(r, b) <= Staged(r, b)
BY DEF TypeOK, Given, Staged

(* The ranks are at most one call apart, in both directions. *)
LEMMA BarrierNear ==
    ASSUME TypeOK, Barrier, NEW r \in Rank, NEW p \in Rank
    PROVE  done[r] <= done[p] + 1
<1>1. PICK b \in Block : TRUE
  BY KernelAssumption DEF Block
<1>2. Given(p, b) >= done[r]
  BY DEF Barrier
<1> QED BY <1>2, GivenBounds

(* The word a spinning block polls shows its token only if the peer's block *)
(* has signalled the same call.                                             *)
LEMMA PollIsSound ==
    ASSUME IInv, NEW r \in Rank, NEW p \in Rank, NEW b \in Block, p # r,
           pc[r][b] = "signalled",
           arrival[SlotOf(Current(r))][p][b] = Token(Current(r))
    PROVE  Given(p, b) >= done[r] + 1
<1> USE DEF IInv
<1>1. done[r] \in Nat /\ done[p] \in Nat /\ Current(r) = done[r] + 1
  BY GivenBounds, CurrentType
<1>2. Given(r, b) = done[r] + 1
  BY DEF Given
<1>3. Given(p, b) >= done[r] /\ Given(r, b) >= done[p]
  BY DEF Barrier
<1> SUFFICES ASSUME Given(p, b) = done[r] PROVE FALSE
  BY <1>1, <1>3, GivenBounds
<1>4. CASE done[p] = done[r]
  <2>1. arrival[SlotOf(Current(r))][p][b] =
            IF done[r] = 0 THEN 0 ELSE Token(done[r] - 1)
    BY <1>1, <1>4 DEF ArrivalHolds
  <2>2. CASE done[r] = 0
    BY <1>1, <2>1, <2>2, TokenFirst
  <2>3. CASE done[r] # 0
    <3>1. done[r] - 1 \in Nat /\ (done[r] - 1) + 2 = done[r] + 1
      BY <1>1, <2>3
    <3>2. Token((done[r] - 1) + 2) # Token(done[r] - 1)
      BY <3>1, TokenDiffers
    <3> QED BY <1>1, <2>1, <2>3, <3>1, <3>2
  <2> QED BY <2>2, <2>3
<1>5. CASE done[p] # done[r]
  <2>1. done[r] = done[p] + 1
    BY <1>1, <1>5, GivenBounds
  <2>2. SlotOf(Current(r)) = SlotOf(done[p])
    <3>1. SlotOf(done[p] + 2) = SlotOf(done[p])
      BY <1>1, SlotFacts
    <3>2. Current(r) = done[p] + 2
      BY <1>1, <2>1
    <3> QED BY <3>1, <3>2
  <2>3. arrival[SlotOf(Current(r))][p][b] = Token(done[p])
    BY <2>2 DEF ArrivalHolds
  <2>4. Token(done[p] + 2) # Token(done[p])
    BY <1>1, TokenDiffers
  <2> QED BY <1>1, <2>1, <2>3, <2>4
<1> QED BY <1>4, <1>5

(* Barrier after a step. *)
LEMMA BarrierStep == IInv /\ [Next]_vars => Barrier'
<1> SUFFICES ASSUME IInv, [Next]_vars PROVE Barrier'
  OBVIOUS
<1> USE DEF IInv
<1>0. TypeOK'
  BY TypeStep
<1>1. ASSUME NEW n \in Counts, NEW last \in BOOLEAN, AcquireSlot(n, last)
      PROVE  Barrier'
  BY <1>1 DEF AcquireSlot, Barrier, Given
<1>2. ASSUME NEW r \in Rank, Launch(r) PROVE Barrier'
  BY <1>2 DEF Launch, Barrier, Given
<1>3. ASSUME NEW r \in Rank, NEW b \in Block, Stage(r, b) PROVE Barrier'
  <2>1. \A q \in Rank, d \in Block :
           /\ Given(q, d)' = Given(q, d)
           /\ pc'[q][d] \in {"signalled", "reduced"} => pc'[q][d] = pc[q][d]
    BY <1>3 DEF Stage, Given, TypeOK
  <2> QED BY <1>3, <2>1 DEF Stage, Barrier
<1>4. ASSUME NEW r \in Rank, NEW b \in Block, Signal(r, b) PROVE Barrier'
  <2>1. done' = done /\ (\A q \in Rank : done[q] \in Nat)
    BY <1>4 DEF Signal, TypeOK
  <2>2. \A q \in Rank, d \in Block : Given(q, d)' >= Given(q, d) /\ Given(q, d) \in Nat
    BY <1>4 DEF Signal, Given, TypeOK
  <2>3. \A q \in Rank, d \in Block :
           ~(q = r /\ d = b) => pc'[q][d] = pc[q][d] /\ wait'[q][d] = wait[q][d]
    BY <1>4 DEF Signal, TypeOK
  <2>4. pc'[r][b] = "signalled" /\ wait'[r][b] = SkipSelf(r, 0)
    BY <1>4 DEF Signal, TypeOK
  <2>5. \A q \in Rank : q # r => q >= SkipSelf(r, 0)
    BY SkipFirst
  <2>6. SkipSelf(r, 0) # r /\ SkipSelf(r, 0) \in 0 .. NRanks
    BY SkipFirst
  <2>7. ASSUME NEW q \in Rank, NEW p \in Rank, NEW d \in Block
        PROVE  /\ pc'[q][d] = "signalled" /\ p # q /\ p < wait'[q][d]
                     => Given(p, d)' >= done'[q] + 1
               /\ pc'[q][d] = "reduced" => Given(p, d)' >= done'[q] + 1
               /\ Given(p, d)' >= done'[q]
    <3>0. Given(p, d)' \in Nat
      <4>1. done'[p] \in Nat
        BY <2>1
      <4> QED BY <4>1 DEF Given
    <3>1. CASE q = r /\ d = b
      <4>1. Given(p, d) >= done[q] /\ done[q] \in Nat /\ Given(p, d) \in Nat
        BY <2>1, <2>2 DEF Barrier
      <4>2. Given(p, d)' >= done'[q]
        BY <4>1, <2>1, <2>2, <3>0
      <4>3. p \in Nat /\ SkipSelf(r, 0) \in Nat
        BY <2>6, KernelAssumption DEF Rank
      <4>4. p # q => ~(p < wait'[q][d])
        BY <3>1, <2>4, <2>5, <4>3
      <4>5. pc'[q][d] # "reduced"
        BY <3>1, <2>4
      <4> QED BY <4>2, <4>4, <4>5
    <3>2. CASE ~(q = r /\ d = b)
      BY <2>1, <2>2, <2>3, <3>0, <3>2 DEF Barrier
    <3> QED BY <3>1, <3>2
  <2>8. ASSUME NEW q \in Rank, NEW d \in Block, pc'[q][d] = "signalled"
        PROVE  wait'[q][d] # q
    BY <2>3, <2>4, <2>6, <2>8 DEF Barrier
  <2> QED BY <2>7, <2>8 DEF Barrier
<1>5. ASSUME NEW r \in Rank, NEW b \in Block, Spin(r, b) PROVE Barrier'
  <2> DEFINE i == wait[r][b]
  <2>1. i \in 0 .. NRanks - 1 /\ i \in Rank /\ i # r /\ pc[r][b] = "signalled"
    <3>1. i \in 0 .. NRanks /\ i < NRanks /\ pc[r][b] = "signalled"
      BY <1>5 DEF Spin, TypeOK
    <3>2. i \in 0 .. NRanks - 1
      BY <3>1, KernelAssumption
    <3>3. i # r
      BY <3>1 DEF Barrier
    <3> QED BY <3>1, <3>2, <3>3 DEF Rank
  <2>2. Given(i, b) >= done[r] + 1
    BY <1>5, <2>1, PollIsSound DEF Spin
  <2>3. wait' = [wait EXCEPT ![r][b] = SkipSelf(r, i + 1)] /\ pc' = pc /\ done' = done
    BY <1>5 DEF Spin
  <2>4. \A p \in Rank : p < SkipSelf(r, i + 1) /\ p # r => p <= i
    BY <2>1, SkipNext
  <2>5. SkipSelf(r, i + 1) # r
    BY <2>1, SkipNext
  <2>6. \A q \in Rank, d \in Block : Given(q, d)' = Given(q, d)
    BY <2>3 DEF Given
  <2>7. \A q \in Rank, d \in Block :
           wait'[q][d] = IF q = r /\ d = b THEN SkipSelf(r, i + 1) ELSE wait[q][d]
    BY <2>3 DEF TypeOK
  <2> HIDE DEF i
  <2>8. ASSUME NEW p \in Rank, p # r, p < wait'[r][b] PROVE Given(p, b) >= done[r] + 1
    <3>1. p <= i
      BY <2>4, <2>7, <2>8
    <3>2. CASE p = i
      BY <2>2, <3>2
    <3>3. CASE p < i
      BY <2>1, <2>8, <3>3 DEF Barrier, i
    <3> QED BY <3>1, <3>2, <3>3, <2>1, KernelAssumption DEF Rank
  <2>9. ASSUME NEW q \in Rank, NEW p \in Rank, NEW d \in Block,
               pc[q][d] = "signalled", p # q, p < wait'[q][d]
        PROVE  Given(p, d) >= done[q] + 1
    BY <2>7, <2>8, <2>9 DEF Barrier
  <2>10. ASSUME NEW q \in Rank, NEW d \in Block, pc[q][d] = "signalled"
         PROVE  wait'[q][d] # q
    BY <2>5, <2>7, <2>10 DEF Barrier
  <2> QED BY <2>3, <2>6, <2>9, <2>10 DEF Barrier
<1>6. ASSUME NEW r \in Rank, NEW b \in Block, Reduce(r, b) PROVE Barrier'
  <2>1. done' = done /\ wait' = wait
    BY <1>6 DEF Reduce
  <2>2. \A q \in Rank, d \in Block : Given(q, d)' = Given(q, d)
    BY <1>6 DEF Reduce, Given, TypeOK
  <2>3. \A q \in Rank, d \in Block : <<q, d>> # <<r, b>> => pc'[q][d] = pc[q][d]
    BY <1>6 DEF Reduce, TypeOK
  <2>4. pc'[r][b] = "reduced" /\ pc[r][b] = "signalled" /\ wait[r][b] = NRanks
    BY <1>6 DEF Reduce, TypeOK
  <2>5. \A p \in Rank : Given(p, b) >= done[r] + 1
    <3>1. \A p \in Rank : p < NRanks
      BY KernelAssumption DEF Rank
    <3>2. \A p \in Rank : p # r => Given(p, b) >= done[r] + 1
      BY <2>4, <3>1 DEF Barrier
    <3>3. Given(r, b) = done[r] + 1
      BY <2>4 DEF Given
    <3>4. done[r] \in Nat
      BY DEF TypeOK
    <3> QED BY <3>2, <3>3, <3>4
  <2> QED BY <2>1, <2>2, <2>3, <2>4, <2>5 DEF Barrier
<1>7. ASSUME NEW r \in Rank, Finish(r) PROVE Barrier'
  <2>1. \A d \in Block : pc[r][d] = "reduced"
    BY <1>7 DEF Finish
  <2>2. done' = [done EXCEPT ![r] = done[r] + 1] /\ done[r] \in Nat
    BY <1>7 DEF Finish, TypeOK
  <2>3. \A q \in Rank, d \in Block :
           /\ q # r => pc'[q][d] = pc[q][d] /\ wait'[q][d] = wait[q][d]
           /\ pc'[r][d] = "ready"
    BY <1>7 DEF Finish, TypeOK
  <2>4. \A q \in Rank, d \in Block : Given(q, d)' = Given(q, d)
    BY <2>1, <2>2, <2>3 DEF Given, TypeOK
  <2>5. \A q \in Rank, d \in Block : Given(q, d) >= done[r] + 1
    BY <2>1 DEF Barrier
  <2>6. \A q \in Rank : done'[q] = IF q = r THEN done[r] + 1 ELSE done[q]
    BY <2>2 DEF TypeOK
  <2> QED BY <2>3, <2>4, <2>5, <2>6 DEF Barrier
<1>8. CASE UNCHANGED vars
  BY <1>8 DEF vars, Barrier, Given
<1> QED
  BY <1>1, <1>2, <1>3, <1>4, <1>5, <1>6, <1>7, <1>8
  DEF Next, BlockStep, Terminated

(* The size of an acquired chunk is one the caller asked for. *)
LEMMA CallSize ==
    ASSUME TypeOK, NEW c \in 1 .. Len(calls)
    PROVE  /\ calls[c].count \in Counts
           /\ calls[c].count \in 1 .. MaxCount
           /\ calls[c].count \in Nat
<1>1. calls \in Seq([count : Counts, last : BOOLEAN])
  BY DEF TypeOK
<1> DEFINE R == [count : Counts, last : BOOLEAN]
<1>2. calls[c] \in R
  <2>1. calls \in Seq(R)
    BY <1>1
  <2> HIDE DEF R
  <2> QED BY <2>1, ElementOfSeq
<1>3. calls[c].count \in Counts
  BY <1>2
<1>4. Counts \subseteq 1 .. MaxCount
  BY KernelAssumption
<1>5. MaxCount \in Nat
  BY KernelAssumption
<1> DEFINE n == calls[c].count
<1>6. n \in Counts
  BY <1>3
<1> HIDE DEF n
<1>7. n \in 1 .. MaxCount
  BY <1>4, <1>6
<1>8. n \in Nat
  BY <1>5, <1>7
<1> QED BY <1>6, <1>7, <1>8 DEF n

(* What a block has staged, and any block that has left "ready", serves a   *)
(* call the host has acquired a slot for.                                   *)
LEMMA CallsAcquired ==
    ASSUME TypeOK, NEW r \in Rank
    PROVE  /\ done[r] <= Len(calls)
           /\ Len(calls) \in Nat
           /\ Running(r) => Current(r) \in 1 .. Len(calls) /\ Size(r) \in Counts
           /\ done[r] > 0 => calls[done[r]].count \in Counts
           /\ \A b \in Block : Staged(r, b) <= Len(calls)
<1>1. /\ done[r] \in Nat /\ launched[r] \in Nat /\ Len(calls) \in Nat
      /\ done[r] <= launched[r] /\ launched[r] <= Len(calls)
  BY DEF TypeOK
<1>2. \A c \in 1 .. Len(calls) : calls[c].count \in Counts
  BY CallSize
<1>3. Running(r) => Current(r) \in 1 .. Len(calls)
  BY <1>1 DEF Running, Current
<1>4. \A b \in Block : Staged(r, b) <= Len(calls)
  <2> SUFFICES ASSUME NEW b \in Block PROVE Staged(r, b) <= Len(calls)
    OBVIOUS
  <2>1. pc[r][b] # "ready" => done[r] < launched[r]
    BY DEF TypeOK, Running
  <2> QED BY <1>1, <2>1 DEF Staged
<1> QED BY <1>1, <1>2, <1>3, <1>4 DEF Size

(* The host's next call does not disturb the ones before it. *)
LEMMA AcquireKeeps ==
    ASSUME TypeOK, NEW n \in Counts, NEW last \in BOOLEAN, AcquireSlot(n, last),
           NEW c \in 1 .. Len(calls)
    PROVE  calls'[c] = calls[c]
BY DEF AcquireSlot, TypeOK

(* HostHolds after a step. *)
LEMMA HostStep == IInv /\ [Next]_vars => HostHolds'
<1> SUFFICES ASSUME IInv, [Next]_vars PROVE HostHolds'
  OBVIOUS
<1> USE DEF IInv
<1>1. ASSUME NEW n \in Counts, NEW last \in BOOLEAN, AcquireSlot(n, last)
      PROVE  HostHolds'
  <2>1. done' = done /\ pc' = pc /\ host' = host
    BY <1>1 DEF AcquireSlot
  <2>2. ASSUME NEW r \in Rank, NEW b \in Block,
               NEW c \in {done[r], done[r] + 1} \ {0}, c <= Staged(r, b)
        PROVE  \A e \in Stripe(r, calls'[c].count, b) : host[SlotOf(c)][r][e] = c
    <3>1. c \in 1 .. Len(calls)
      BY <2>2, CallsAcquired, GivenBounds
    <3>2. calls'[c] = calls[c]
      BY <1>1, <3>1, AcquireKeeps
    <3> QED BY <2>2, <3>2 DEF HostHolds
  <2> QED BY <2>1, <2>2 DEF HostHolds, Staged
<1>2. ASSUME NEW r \in Rank, Launch(r) PROVE HostHolds'
  BY <1>2 DEF Launch, HostHolds, Staged
<1>3. ASSUME NEW r \in Rank, NEW b \in Block, Stage(r, b) PROVE HostHolds'
  <2> DEFINE s == SlotOf(Current(r))
  <2>1. done' = done /\ calls' = calls /\ pc[r][b] = "ready" /\ Running(r)
    BY <1>3 DEF Stage
  <2>2. \A q \in Rank, d \in Block :
           ~(q = r /\ d = b) => pc'[q][d] = pc[q][d] /\ Staged(q, d)' = Staged(q, d)
    BY <1>3 DEF Stage, TypeOK, Staged
  <2>3. \A t \in Slot, q \in Rank, e \in Elem :
           host'[t][q][e] = IF t = s /\ q = r /\ e \in MyStripe(r, b) THEN Current(r)
                            ELSE host[t][q][e]
    <3>1. s \in Slot
      BY CurrentType
    <3>2. host \in [Slot -> [Rank -> [Elem -> Nat]]]
      BY DEF TypeOK
    <3>3. host' = [host EXCEPT ![s][r] = [e \in Elem |->
                      IF e \in MyStripe(r, b) THEN Current(r) ELSE host[s][r][e]]]
      BY <1>3 DEF Stage
    <3> HIDE DEF s
    <3> QED BY <3>1, <3>2, <3>3
  <2>4. ASSUME NEW q \in Rank, NEW d \in Block,
               NEW c \in {done[q], done[q] + 1} \ {0}, c <= Staged(q, d)',
               NEW e \in Stripe(q, calls[c].count, d)
        PROVE  host'[SlotOf(c)][q][e] = c
    <3>0. done[q] \in Nat /\ c \in Nat /\ Current(q) = done[q] + 1
      BY GivenBounds, CurrentType
    <3>1. SlotOf(c) \in Slot
      BY <3>0, SlotFacts
    <3>2. c \in 1 .. Len(calls) /\ e \in Elem
      <4>1. Staged(q, d)' <= done[q] + 1 /\ (q = r \/ Staged(q, d)' = Staged(q, d))
        BY <2>1, <2>2, <3>0, <1>3 DEF Stage, Staged, TypeOK
      <4>2. c \in 1 .. Len(calls)
        <5>1. CASE q = r
          BY <3>0, <2>1, <5>1, CallsAcquired
        <5>2. CASE q # r
          BY <3>0, <2>4, <4>1, <5>2, CallsAcquired, GivenBounds
        <5> QED BY <5>1, <5>2
      <4>3. calls[c].count \in 1 .. MaxCount
        BY <4>2, CallSize
      <4>4. e \in 0 .. calls[c].count - 1
        BY DEF Stripe
      <4> QED BY <4>2, <4>3, <4>4, KernelAssumption DEF Elem
    <3>3. CASE q # r
      BY <2>2, <2>3, <2>4, <3>1, <3>2, <3>3 DEF HostHolds
    <3>4. CASE q = r /\ c = done[r]
      <4>1. SlotOf(c) # s
        BY <3>0, <3>4, SlotFacts
      <4>2. c <= Staged(q, d)
        BY <3>0, <3>4, GivenBounds
      <4> QED BY <2>3, <3>1, <3>2, <4>1, <4>2 DEF HostHolds
    <3>5. CASE q = r /\ c = done[r] + 1
      <4>1. Stripe(q, calls[c].count, d) = MyStripe(r, d) /\ c = Current(r)
        BY <3>0, <3>5 DEF MyStripe, Size
      <4>2. CASE d = b
        BY <2>3, <3>1, <3>2, <3>5, <4>1, <4>2
      <4>3. CASE d # b
        <5>1. e \notin MyStripe(r, b)
          <6>1. calls[c].count \in Nat
            BY <3>2, CallSize
          <6> QED BY <4>1, <4>3, <3>5, <6>1, StripeDisjoint DEF MyStripe, Size
        <5>2. c <= Staged(q, d)
          BY <2>2, <2>4, <4>3
        <5> QED BY <2>3, <3>1, <3>2, <5>1, <5>2 DEF HostHolds
      <4> QED BY <4>2, <4>3
    <3> QED BY <3>3, <3>4, <3>5
  <2> QED BY <2>1, <2>4 DEF HostHolds
<1>4. ASSUME NEW r \in Rank, NEW b \in Block, Signal(r, b) PROVE HostHolds'
  BY <1>4 DEF Signal, HostHolds, Staged, TypeOK
<1>5. ASSUME NEW r \in Rank, NEW b \in Block, Spin(r, b) PROVE HostHolds'
  BY <1>5 DEF Spin, HostHolds, Staged
<1>6. ASSUME NEW r \in Rank, NEW b \in Block, Reduce(r, b) PROVE HostHolds'
  BY <1>6 DEF Reduce, HostHolds, Staged, TypeOK
<1>7. ASSUME NEW r \in Rank, Finish(r) PROVE HostHolds'
  <2>1. calls' = calls /\ host' = host
    BY <1>7 DEF Finish
  <2>2. \A q \in Rank : done'[q] = (IF q = r THEN done[r] + 1 ELSE done[q]) /\ done[q] \in Nat
    BY <1>7 DEF Finish, TypeOK
  <2>3. \A q \in Rank, d \in Block : Staged(q, d)' = Staged(q, d)
    BY <1>7 DEF Finish, TypeOK, Staged
  <2>4. \A d \in Block : Staged(r, d) = done[r] + 1
    BY <1>7 DEF Finish, Staged
  <2> QED BY <2>1, <2>2, <2>3, <2>4 DEF HostHolds
<1>8. CASE UNCHANGED vars
  BY <1>8 DEF vars, HostHolds, Staged
<1> QED
  BY <1>1, <1>2, <1>3, <1>4, <1>5, <1>6, <1>7, <1>8
  DEF Next, BlockStep, Terminated

(* ArrivalHolds after a step: only Signal and Finish touch what it names. *)
LEMMA ArrivalStep == IInv /\ [Next]_vars => ArrivalHolds'
<1> SUFFICES ASSUME IInv, [Next]_vars PROVE ArrivalHolds'
  OBVIOUS
<1> USE DEF IInv
<1>1. ASSUME arrival' = arrival, done' = done,
             \A q \in Rank, d \in Block : Given(q, d)' = Given(q, d)
      PROVE  ArrivalHolds'
  BY <1>1 DEF ArrivalHolds
<1>2. ASSUME NEW n \in Counts, NEW last \in BOOLEAN, AcquireSlot(n, last)
      PROVE  ArrivalHolds'
  BY <1>1, <1>2 DEF AcquireSlot, Given
<1>3. ASSUME NEW r \in Rank, Launch(r) PROVE ArrivalHolds'
  BY <1>1, <1>3 DEF Launch, Given
<1>4. ASSUME NEW r \in Rank, NEW b \in Block, Stage(r, b) PROVE ArrivalHolds'
  BY <1>1, <1>4 DEF Stage, Given, TypeOK
<1>5. ASSUME NEW r \in Rank, NEW b \in Block, Signal(r, b) PROVE ArrivalHolds'
  <2> DEFINE s == SlotOf(Current(r))
  <2>1. done' = done /\ done \in [Rank -> Nat]
    BY <1>5 DEF Signal, TypeOK
  <2>2. \A q \in Rank, d \in Block :
           Given(q, d)' = IF q = r /\ d = b THEN done[r] + 1 ELSE Given(q, d)
    BY <1>5 DEF Signal, Given, TypeOK
  <2>3. \A t \in Slot, q \in Rank, d \in Block :
           arrival'[t][q][d] = IF t = s /\ q = r /\ d = b THEN Token(Current(r))
                               ELSE arrival[t][q][d]
    <3>1. s \in Slot
      BY CurrentType
    <3>2. arrival \in [Slot -> [Rank -> [Block -> 0 .. TokenMod - 1]]]
      BY DEF TypeOK
    <3>3. arrival' = [arrival EXCEPT ![s][r][b] = Token(Current(r))]
      BY <1>5 DEF Signal
    <3> HIDE DEF s
    <3> QED BY <3>1, <3>2, <3>3
  <2>4. \A q \in Rank : /\ SlotOf(done[q]) \in Slot
                        /\ SlotOf(done[q] + 1) \in Slot
                        /\ SlotOf(done[q] + 1) # SlotOf(done[q])
                        /\ Current(q) = done[q] + 1
    BY <2>1, SlotFacts DEF Current
  <2> QED BY <2>1, <2>2, <2>3, <2>4 DEF ArrivalHolds
<1>6. ASSUME NEW r \in Rank, NEW b \in Block, Spin(r, b) PROVE ArrivalHolds'
  BY <1>1, <1>6 DEF Spin, Given
<1>7. ASSUME NEW r \in Rank, NEW b \in Block, Reduce(r, b) PROVE ArrivalHolds'
  BY <1>1, <1>7 DEF Reduce, Given, TypeOK
<1>8. ASSUME NEW r \in Rank, Finish(r) PROVE ArrivalHolds'
  <2>1. arrival' = arrival /\ done \in [Rank -> Nat]
    BY <1>8 DEF Finish, TypeOK
  <2>2. \A q \in Rank : done'[q] = IF q = r THEN done[r] + 1 ELSE done[q]
    BY <1>8 DEF Finish, TypeOK
  <2>3. \A d \in Block : pc[r][d] = "reduced" /\ pc'[r][d] = "ready"
    BY <1>8 DEF Finish, TypeOK
  <2>4. \A q \in Rank, d \in Block : q # r => Given(q, d)' = Given(q, d)
    BY <1>8 DEF Finish, Given, TypeOK
  <2>5. \A d \in Block : Given(r, d) = done[r] + 1 /\ Given(r, d)' = done[r] + 1
    BY <2>2, <2>3 DEF Given
  <2>6. done[r] \in Nat /\ SlotOf((done[r] + 1) + 1) = SlotOf(done[r])
    <3>1. done[r] \in Nat /\ (done[r] + 1) + 1 = done[r] + 2
      BY <2>1
    <3> QED BY <3>1, SlotFacts
  <2>7. ASSUME NEW d \in Block
        PROVE  /\ arrival'[SlotOf(done'[r])][r][d] = Token(done'[r])
               /\ arrival'[SlotOf(done'[r] + 1)][r][d] =
                    IF Given(r, d)' = done'[r] + 1 THEN Token(done'[r] + 1)
                    ELSE IF done'[r] = 0 THEN 0 ELSE Token(done'[r] - 1)
    <3>1. arrival[SlotOf(done[r] + 1)][r][d] = Token(done[r] + 1)
      BY <2>5 DEF ArrivalHolds
    <3>2. arrival[SlotOf(done[r])][r][d] = Token(done[r])
      BY DEF ArrivalHolds
    <3>3. (done[r] + 1) - 1 = done[r] /\ done[r] + 1 # 0 /\ done[r] + 1 # (done[r] + 1) + 1
      BY <2>6
    <3> QED BY <2>1, <2>2, <2>5, <2>6, <3>1, <3>2, <3>3
  <2> QED BY <2>1, <2>2, <2>4, <2>7 DEF ArrivalHolds
<1>9. CASE UNCHANGED vars
  BY <1>1, <1>9 DEF vars, Given
<1> QED
  BY <1>2, <1>3, <1>4, <1>5, <1>6, <1>7, <1>8, <1>9
  DEF Next, BlockStep, Terminated

(* A block past its spin finds this call's data in every peer's buffer. *)
LEMMA ReadsAreCommitted == Uniform /\ IInv => ReadsCommitted
<1> SUFFICES ASSUME Uniform, IInv, NEW r \in Rank, NEW p \in Rank, NEW b \in Block,
                    Reading(r, b), p # r, NEW e \in MyStripe(r, b)
             PROVE  host[SlotOf(Current(r))][p][e] = Current(r)
  BY DEF ReadsCommitted
<1> USE DEF IInv
<1>1. done[r] \in Nat /\ done[p] \in Nat /\ Current(r) = done[r] + 1
  BY GivenBounds, CurrentType
<1>2. p < NRanks
  BY KernelAssumption DEF Rank
<1>3. Given(p, b) >= done[r] + 1 /\ Given(r, b) = done[r] + 1
  BY <1>2 DEF Barrier, Reading, Given
<1>4. done[p] <= done[r] + 1
  BY <1>3 DEF Barrier
<1>5. Current(r) \in {done[p], done[p] + 1} \ {0} /\ Current(r) <= Staged(p, b)
  BY <1>1, <1>3, <1>4, GivenBounds
<1>6. MyStripe(r, b) = Stripe(p, calls[Current(r)].count, b)
  BY StripeUniform DEF MyStripe, Size
<1> QED BY <1>5, <1>6 DEF HostHolds

(* The sum of call c, as recv holds it. *)
Total(c) == [k \in 1 .. NRanks |-> <<k - 1, c>>]

(* A block that reduces stores the sum of its call. *)
LEMMA ReduceStores ==
    ASSUME Uniform, IInv, NEW r \in Rank, NEW b \in Block, Reduce(r, b)
    PROVE  \A q \in Rank, e \in Elem :
               recv'[q][e] = IF q = r /\ e \in MyStripe(r, b) THEN Total(Current(r))
                             ELSE recv[q][e]
<1> DEFINE Read(p, e) == <<p, IF p = r THEN Current(r)
                              ELSE host[SlotOf(Current(r))][p][e]>>
           Added(e) == [k \in 1 .. NRanks |-> Read(RankOrder(r)[k], e)]
<1>1. recv' = [recv EXCEPT ![r] =
                  [e \in Elem |-> IF e \in MyStripe(r, b) THEN Added(e) ELSE recv[r][e]]]
  BY DEF Reduce
<1>2. ASSUME NEW e \in MyStripe(r, b) PROVE Added(e) = Total(Current(r))
  <2> SUFFICES ASSUME NEW k \in 1 .. NRanks
               PROVE  Read(RankOrder(r)[k], e) = <<k - 1, Current(r)>>
    BY DEF Total
  <2>1. RankOrder(r)[k] = k - 1 /\ k - 1 \in Rank
    BY KernelAssumption DEF RankOrder, Rank
  <2>2. ReadsCommitted
    BY ReadsAreCommitted
  <2>3. Reading(r, b)
    BY DEF Reduce, Reading
  <2> QED BY <2>1, <2>2, <2>3 DEF ReadsCommitted
<1> HIDE DEF Added
<1> QED BY <1>1, <1>2 DEF IInv, TypeOK

(* RecvHolds after a step: Reduce stores sums, Finish settles them. *)
LEMMA RecvStep == Uniform /\ IInv /\ [Next]_vars => RecvHolds'
<1> SUFFICES ASSUME Uniform, IInv, [Next]_vars PROVE RecvHolds'
  OBVIOUS
<1> USE DEF IInv
<1> USE DEF Total
<1>1. ASSUME done' = done, calls' = calls, recv' = recv,
             \A q \in Rank, d \in Block : pc'[q][d] = "reduced" <=> pc[q][d] = "reduced"
      PROVE  RecvHolds'
  BY <1>1 DEF RecvHolds, SumExact, Settled, MyStripe, Size, Current
<1>2. ASSUME NEW n \in Counts, NEW last \in BOOLEAN, AcquireSlot(n, last)
      PROVE  RecvHolds'
  <2>1. done' = done /\ pc' = pc /\ recv' = recv
    BY <1>2 DEF AcquireSlot
  <2>2. \A q \in Rank : done[q] > 0 => calls'[done[q]] = calls[done[q]]
    <3> SUFFICES ASSUME NEW q \in Rank, done[q] > 0
                 PROVE  calls'[done[q]] = calls[done[q]]
      OBVIOUS
    <3>1. done[q] \in 1 .. Len(calls)
      BY CallsAcquired, GivenBounds DEF TypeOK
    <3> QED BY <1>2, <3>1, AcquireKeeps
  <2>3. \A q \in Rank, d \in Block :
           pc[q][d] = "reduced" => calls'[Current(q)] = calls[Current(q)]
    <3> SUFFICES ASSUME NEW q \in Rank, NEW d \in Block, pc[q][d] = "reduced"
                 PROVE  calls'[Current(q)] = calls[Current(q)]
      OBVIOUS
    <3>1. Current(q) \in 1 .. Len(calls)
      BY CallsAcquired DEF TypeOK
    <3> QED BY <1>2, <3>1, AcquireKeeps
  <2>4. \A q \in Rank : Current(q)' = Current(q)
    BY <2>1 DEF Current
  <2>5. \A q \in Rank, d \in Block :
           pc[q][d] = "reduced" => MyStripe(q, d)' = MyStripe(q, d)
    BY <2>3, <2>4 DEF MyStripe, Size
  <2>6. \A q \in Rank, e \in Elem : Settled(q, e)' <=> Settled(q, e)
    BY <2>1, <2>2, <2>5 DEF Settled
  <2> QED BY <2>1, <2>4, <2>5, <2>6 DEF RecvHolds, SumExact
<1>3. ASSUME NEW r \in Rank, Launch(r) PROVE RecvHolds'
  BY <1>1, <1>3 DEF Launch
<1>4. ASSUME NEW r \in Rank, NEW b \in Block, Stage(r, b) PROVE RecvHolds'
  BY <1>1, <1>4 DEF Stage, TypeOK
<1>5. ASSUME NEW r \in Rank, NEW b \in Block, Signal(r, b) PROVE RecvHolds'
  BY <1>1, <1>5 DEF Signal, TypeOK
<1>6. ASSUME NEW r \in Rank, NEW b \in Block, Spin(r, b) PROVE RecvHolds'
  BY <1>1, <1>6 DEF Spin
<1>7. ASSUME NEW r \in Rank, NEW b \in Block, Reduce(r, b) PROVE RecvHolds'
  <2>1. done' = done /\ calls' = calls /\ Reading(r, b)
    BY <1>7 DEF Reduce, Reading
  <2>2. \A q \in Rank, d \in Block :
           pc'[q][d] = IF q = r /\ d = b THEN "reduced" ELSE pc[q][d]
    BY <1>7 DEF Reduce, TypeOK
  <2>3. \A q \in Rank, d \in Block : MyStripe(q, d)' = MyStripe(q, d)
    BY <2>1 DEF MyStripe, Size, Current
  <2>4. \A q \in Rank, e \in Elem :
           recv'[q][e] = IF q = r /\ e \in MyStripe(r, b) THEN Total(Current(r))
                         ELSE recv[q][e]
    BY <1>7, ReduceStores
  <2>5. ASSUME NEW q \in Rank, NEW d \in Block, pc'[q][d] = "reduced",
               NEW e \in MyStripe(q, d)
        PROVE  e \in Elem /\ recv'[q][e] = Total(Current(q))
    <3>0. Running(q)
      BY <1>7, <2>1, <2>2, <2>5 DEF TypeOK, Reading
    <3>1. Size(q) \in Nat /\ e \in Elem
      <4>1. Size(q) \in 1 .. MaxCount
        BY <3>0, CallsAcquired, CallSize DEF Size
      <4>2. e \in 0 .. Size(q) - 1
        BY DEF MyStripe, Stripe
      <4> QED BY <4>1, <4>2, KernelAssumption DEF Elem
    <3> HIDE DEF Total
    <3>2. CASE q = r /\ d = b
      BY <2>4, <2>5, <3>1, <3>2
    <3> USE DEF Total
    <3>3. CASE q = r /\ d # b
      <4>1. e \notin MyStripe(r, b)
        BY <2>5, <3>1, <3>3, StripeDisjoint DEF MyStripe
      <4> QED BY <2>2, <2>4, <2>5, <3>1, <3>3, <4>1 DEF RecvHolds
    <3>4. CASE q # r
      <4>1. pc[q][d] = "reduced"
        BY <2>2, <2>5, <3>4
      <4>2. recv[q][e] = Total(Current(q))
        BY <4>1 DEF RecvHolds
      <4>3. recv'[q][e] = recv[q][e]
        BY <2>4, <3>1, <3>4
      <4> HIDE DEF Total
      <4> QED BY <3>1, <4>2, <4>3
    <3> HIDE DEF Total
    <3> QED BY <3>1, <3>2, <3>3, <3>4
  <2>6. ASSUME NEW q \in Rank, NEW e \in Elem, Settled(q, e)'
        PROVE  recv'[q][e] = Total(done[q])
    <3>1. Settled(q, e)
      BY <2>1, <2>2, <2>3, <2>6 DEF Settled
    <3>2. q = r => e \notin MyStripe(r, b)
      BY <2>2, <2>3, <2>6 DEF Settled
    <3> QED BY <2>4, <3>1, <3>2 DEF RecvHolds, SumExact
  <2>7. \A q \in Rank : Current(q)' = Current(q) /\ done'[q] = done[q]
    BY <2>1 DEF Current
  <2> HIDE DEF Total
  <2>8. \A q \in Rank, d \in Block : pc'[q][d] = "reduced" =>
           \A e \in MyStripe(q, d)' : recv'[q][e] = Total(Current(q)')
    BY <2>3, <2>5, <2>7
  <2>9. \A q \in Rank, e \in Elem : Settled(q, e)' => recv'[q][e] = Total(done'[q])
    BY <2>6, <2>7
  <2> QED BY <2>8, <2>9 DEF RecvHolds, SumExact, Total
<1>8. ASSUME NEW r \in Rank, Finish(r) PROVE RecvHolds'
  <2>1. calls' = calls /\ recv' = recv
    BY <1>8 DEF Finish
  <2>2. \A q \in Rank : done'[q] = (IF q = r THEN done[r] + 1 ELSE done[q]) /\ done[q] \in Nat
    BY <1>8 DEF Finish, TypeOK
  <2>3. \A d \in Block : pc[r][d] = "reduced" /\ pc'[r][d] = "ready"
    BY <1>8 DEF Finish, TypeOK
  <2>4. \A q \in Rank, d \in Block :
           q # r => pc'[q][d] = pc[q][d] /\ MyStripe(q, d)' = MyStripe(q, d)
    BY <1>8, <2>1, <2>2 DEF Finish, TypeOK, MyStripe, Size, Current
  <2>5. ASSUME NEW e \in Elem, Settled(r, e)' PROVE recv[r][e] = Total(done[r] + 1)
    <3>1. PICK z \in Block : TRUE
      BY KernelAssumption DEF Block
    <3>2. Running(r) /\ Current(r) = done[r] + 1
      BY <2>3, <3>1, CurrentType DEF TypeOK
    <3>3. Size(r) \in Nat
      BY <3>2, CallsAcquired, CallSize DEF Size
    <3>4. e \in 0 .. Size(r) - 1
      BY <2>1, <2>2, <2>5, <3>2, <3>3, KernelAssumption DEF Settled, Size, Elem
    <3>5. PICK b \in Block : e \in MyStripe(r, b)
      BY <3>3, <3>4, StripeCovers DEF MyStripe
    <3> QED BY <2>3, <3>2, <3>5 DEF RecvHolds
  <2>6. ASSUME NEW q \in Rank, NEW e \in Elem, q # r, Settled(q, e)'
        PROVE  recv[q][e] = Total(done[q])
    BY <2>1, <2>2, <2>4, <2>6 DEF Settled, RecvHolds, SumExact
  <2> QED BY <2>1, <2>2, <2>3, <2>4, <2>5, <2>6 DEF RecvHolds, SumExact, Current
<1>9. CASE UNCHANGED vars
  BY <1>1, <1>9 DEF vars
<1> QED
  BY <1>2, <1>3, <1>4, <1>5, <1>6, <1>7, <1>8, <1>9
  DEF Next, BlockStep, Terminated

-----------------------------------------------------------------------------
(* The theorems.                                                           *)

LEMMA IInvInit == Init => IInv
<1> SUFFICES ASSUME Init PROVE IInv
  OBVIOUS
<1>1. TypeOK
  BY TypeInit
<1>2. \A r \in Rank, b \in Block :
         /\ done[r] = 0 /\ pc[r][b] = "ready"
         /\ Given(r, b) = 0 /\ Staged(r, b) = 0
  BY DEF Init, Given, Staged
<1>3. Barrier
  BY <1>2 DEF Barrier
<1>4. HostHolds
  BY <1>2 DEF HostHolds
<1>5. ArrivalHolds
  <2>1. SlotOf(0) \in Slot /\ SlotOf(1) \in Slot
    <3>1. 0 \in Nat /\ 0 + 1 = 1
      OBVIOUS
    <3> QED BY <3>1, SlotFacts
  <2> QED BY <1>2, <2>1, TokenFirst DEF Init, ArrivalHolds
<1>6. RecvHolds
  <2>1. \A r \in Rank, e \in Elem : ~Settled(r, e)
    <3>1. \A r \in Rank : done[r] = 0
      BY DEF Init
    <3> QED BY <3>1 DEF Settled
  <2>2. \A r \in Rank, b \in Block : pc[r][b] # "reduced"
    BY <1>2
  <2>3. SumExact
    BY <2>1 DEF SumExact
  <2> QED BY <2>2, <2>3 DEF RecvHolds
<1> QED BY <1>1, <1>3, <1>4, <1>5, <1>6 DEF IInv

(* Every step keeps IInv, when all GPUs use one vector width. *)
LEMMA IInvStep == Uniform /\ IInv /\ [Next]_vars => IInv'
BY TypeStep, BarrierStep, HostStep, ArrivalStep, RecvStep DEF IInv

(* With one vector width on all GPUs, IInv is invariant. *)
THEOREM Invariance == ASSUME Uniform PROVE Spec => []IInv
BY IInvInit, IInvStep, PTL DEF Spec

(* A block that has seen its peers' tokens reads only their data of the     *)
(* same call: no barrier between blocks is needed.                          *)
THEOREM CommittedReads == ASSUME Uniform PROVE Spec => []ReadsCommitted
<1>1. IInv => ReadsCommitted
  BY ReadsAreCommitted
<1> QED BY <1>1, Invariance, PTL

(* The GPUs are never more than one call apart. *)
THEOREM StaysInLockstep == ASSUME Uniform PROVE Spec => []Lockstep
<1>1. IInv => Lockstep
  BY BarrierNear DEF IInv, Lockstep
<1> QED BY <1>1, Invariance, PTL

(* What a completed call leaves is the sum of its own contributions... *)
THEOREM ExactSums == ASSUME Uniform PROVE Spec => []SumExact
<1>1. IInv => SumExact
  BY DEF IInv, RecvHolds
<1> QED BY <1>1, Invariance, PTL

(* ... hence the same bits on every GPU. *)
THEOREM SameBits == ASSUME Uniform PROVE Spec => []BitIdentical
<1>1. SumExact => BitIdentical
  BY DEF SumExact, BitIdentical
<1> QED BY <1>1, ExactSums, PTL

(* No block stores to a word that another rank's block may be reading. *)
THEOREM RaceFree == ASSUME Uniform PROVE Spec => []NoDataRace
<1>1. IInv => NoDataRace
  <2> SUFFICES ASSUME IInv, NEW r \in Rank, NEW p \in Rank,
                      NEW b \in Block, NEW d \in Block,
                      Reading(r, b), Writing(p, d), p # r,
                      SlotOf(Current(r)) = SlotOf(Current(p))
               PROVE  MyStripe(r, b) \cap MyStripe(p, d) = {}
    BY DEF NoDataRace
  <2> USE DEF IInv
  <2>1. done[r] \in Nat /\ done[p] \in Nat
        /\ Current(r) = done[r] + 1 /\ Current(p) = done[p] + 1
    BY GivenBounds, CurrentType
  <2>2. p < NRanks
    BY KernelAssumption DEF Rank
  <2>3. Given(p, b) >= done[r] + 1
    BY <2>2 DEF Barrier, Reading
  <2>4. done[p] <= done[r] + 1 /\ done[p] >= done[r]
    BY <2>1, <2>3, BarrierNear, GivenBounds
  <2>5. done[p] = done[r]
    <3>1. done[p] # done[r] + 1
      <4>1. SlotOf((done[r] + 1) + 1) # SlotOf(done[r] + 1)
        <5>1. done[r] + 1 \in Nat
          BY <2>1
        <5> QED BY <5>1, SlotFacts
      <4> QED BY <2>1, <4>1
    <3> QED BY <2>1, <2>4, <3>1
  <2>6. b # d
    BY <2>1, <2>3, <2>5 DEF Given, Writing
  <2>7. Size(p) \in Nat
    BY <2>1, CallsAcquired, CallSize DEF Size, Writing
  <2>8. MyStripe(r, b) = Stripe(p, Size(p), b)
    BY <2>1, <2>5, StripeUniform DEF MyStripe, Size
  <2> QED BY <2>6, <2>7, <2>8, StripeDisjoint DEF MyStripe
<1> QED BY <1>1, Invariance, PTL

-----------------------------------------------------------------------------
(* The refinement mapping: what each step does to givenBar and to recv.    *)

(* Among the completed calls that had an element there is a last one.  (The *)
(* prover has no induction over sets of numbers; the behaviour supplies it, *)
(* one completed call at a time.)                                           *)
LastExists ==
    \A r \in Rank, e \in Elem : Sized(r, e) # {} =>
        \E c \in Sized(r, e) : \A d \in Sized(r, e) : d <= c

(* A sum is found in recv only once the block that stores it has reduced. *)
SumsPast ==
    \A r \in Rank, e \in Elem : \A c \in Nat :
        recv[r][e] = Total(c) =>
            \/ c <= done[r]
            \/ /\ c = Current(r)
               /\ \E b \in Block : pc[r][b] = "reduced" /\ e \in MyStripe(r, b)

RInv == IInv /\ LastExists /\ SumsPast

(* Sums of different calls differ. *)
LEMMA TotalInjective ==
    ASSUME NEW c, NEW d, Total(c) = Total(d)
    PROVE  c = d
<1>1. 1 \in 1 .. NRanks
  BY KernelAssumption
<1>2. Total(c)[1] = <<1 - 1, c>> /\ Total(d)[1] = <<1 - 1, d>>
  BY <1>1 DEF Total
<1> QED BY <1>1, <1>2

(* No sum is the empty sequence that recv starts with. *)
LEMMA TotalNotEmpty == ASSUME NEW c PROVE Total(c) # <<>>
<1>1. 1 \in 1 .. NRanks
  BY KernelAssumption
<1>2. 1 \in DOMAIN Total(c)
  BY <1>1 DEF Total
<1> QED BY <1>2

(* What LastSized chooses is the last call that had the element. *)
LEMMA LastSizedIs ==
    ASSUME LastExists, NEW r \in Rank, NEW e \in Elem
    PROVE  /\ Sized(r, e) = {} => LastSized(r, e) = 0
           /\ Sized(r, e) # {} => /\ LastSized(r, e) \in Sized(r, e)
                                  /\ \A d \in Sized(r, e) : d <= LastSized(r, e)
<1>1. CASE Sized(r, e) = {}
  BY <1>1 DEF LastSized
<1>2. CASE Sized(r, e) # {}
  <2>1. LastSized(r, e) = CHOOSE c \in Sized(r, e) : \A d \in Sized(r, e) : d <= c
    BY <1>2 DEF LastSized
  <2>2. \E c \in Sized(r, e) : \A d \in Sized(r, e) : d <= c
    BY <1>2 DEF LastExists
  <2> QED BY <1>2, <2>1, <2>2
<1> QED BY <1>1, <1>2

(* It is a completed call, hence before the current one. *)
LEMMA LastSizedBound ==
    ASSUME TypeOK, LastExists, NEW r \in Rank, NEW e \in Elem
    PROVE  LastSized(r, e) \in Nat /\ LastSized(r, e) <= done[r]
<1>1. done[r] \in Nat
  BY DEF TypeOK
<1> QED BY <1>1, LastSizedIs DEF Sized

(* The same completed calls have the same last one. *)
LEMMA LastSizedSame ==
    ASSUME NEW r \in Rank, NEW e \in Elem, Sized(r, e)' = Sized(r, e)
    PROVE  LastSized(r, e)' = LastSized(r, e)
BY DEF LastSized

(* The elements a running block of r serves exist. *)
LEMMA StripeElems ==
    ASSUME TypeOK, NEW r \in Rank, NEW b \in Block, Running(r)
    PROVE  /\ Size(r) \in Nat
           /\ MyStripe(r, b) \subseteq Elem
           /\ \A e \in MyStripe(r, b) : e < Size(r)
<1>1. Size(r) \in 1 .. MaxCount /\ Size(r) \in Nat
  BY CallsAcquired, CallSize DEF Size
<1>2. MyStripe(r, b) \subseteq 0 .. Size(r) - 1
  BY DEF MyStripe, Stripe
<1> QED BY <1>1, <1>2, KernelAssumption DEF Elem

(* An element of givenBar, in terms of the block that serves it. *)
Staging(r, e) == \E b \in Block : pc[r][b] # "ready" /\ e \in MyStripe(r, b)

(* givenBar, written with Staging. *)
LEMMA GivenBarIs ==
    givenBar = [r \in Rank |-> [e \in Elem |->
                   IF Staging(r, e) THEN Current(r) ELSE LastSized(r, e)]]
BY DEF givenBar, Staging

(* An element of givenBar is its rank's call in progress once staged, the   *)
(* last call that had it before.                                            *)
LEMMA GivenBarAt ==
    ASSUME NEW r \in Rank, NEW e \in Elem
    PROVE  givenBar[r][e] = IF Staging(r, e) THEN Current(r) ELSE LastSized(r, e)
BY DEF givenBar, Staging

(* A step changes the calls that rank r completed only when r completes one. *)
LEMMA SizedKept ==
    ASSUME TypeOK, [Next]_vars, NEW r \in Rank, NEW e \in Elem, done'[r] = done[r]
    PROVE  Sized(r, e)' = Sized(r, e)
<1>1. \A c \in 1 .. done[r] : calls'[c] = calls[c]
  <2>1. CASE calls' = calls
    BY <2>1
  <2>2. ASSUME NEW n \in Counts, NEW last \in BOOLEAN, AcquireSlot(n, last)
        PROVE  \A c \in 1 .. done[r] : calls'[c] = calls[c]
    <3>1. \A c \in 1 .. done[r] : c \in 1 .. Len(calls)
      BY CallsAcquired DEF TypeOK
    <3> QED BY <2>2, <3>1, AcquireKeeps
  <2> QED
    BY <2>1, <2>2 DEF Next, BlockStep, Launch, Stage, Signal, Spin, Reduce, Finish,
                      Terminated, vars
<1> QED BY <1>1 DEF Sized

(* Completing a call adds it to those with an element e, if e is one of its. *)
LEMMA SizedFinish ==
    ASSUME TypeOK, NEW r \in Rank, NEW e \in Elem, Finish(r)
    PROVE  /\ Sized(r, e)' = Sized(r, e) \cup {c \in {Current(r)} : e < Size(r)}
           /\ \A q \in Rank : q # r => done'[q] = done[q]
<1>1. done[r] \in Nat /\ done'[r] = done[r] + 1 /\ calls' = calls
  BY DEF Finish, TypeOK
<1>2. \A q \in Rank : q # r => done'[q] = done[q]
  BY DEF Finish, TypeOK
<1>3. 1 .. done'[r] = (1 .. done[r]) \cup {Current(r)}
  BY <1>1 DEF Current
<1> QED BY <1>1, <1>2, <1>3 DEF Sized, Size, Current

(* Every step keeps it that a rank's completed calls on an element have a   *)
(* last.                                                                    *)
LEMMA LastExistsStep == TypeOK /\ LastExists /\ [Next]_vars => LastExists'
<1> SUFFICES ASSUME TypeOK, LastExists, [Next]_vars, NEW q \in Rank, NEW e \in Elem,
                    Sized(q, e)' # {}
             PROVE  \E c \in Sized(q, e)' : \A d \in Sized(q, e)' : d <= c
  BY DEF LastExists
<1>1. CASE done'[q] = done[q]
  BY <1>1, SizedKept DEF LastExists
<1>2. CASE done'[q] # done[q]
  <2>1. Finish(q)
    BY <1>2 DEF Next, BlockStep, AcquireSlot, Launch, Stage, Signal, Spin, Reduce,
                Finish, Terminated, vars, TypeOK
  <2>2. Sized(q, e)' = Sized(q, e) \cup {c \in {Current(q)} : e < Size(q)}
    BY <2>1, SizedFinish
  <2>3. CASE e < Size(q)
    <3>1. \A d \in Sized(q, e) : d <= Current(q)
      BY DEF Sized, Current, TypeOK
    <3>2. Current(q) <= Current(q)
      BY CurrentType
    <3> QED BY <2>2, <2>3, <3>1, <3>2
  <2>4. CASE ~(e < Size(q))
    BY <2>2, <2>4 DEF LastExists
  <2> QED BY <2>3, <2>4
<1> QED BY <1>1, <1>2

(* A step after which the same elements are being staged changes givenBar   *)
(* nowhere, unless it completes a call.                                     *)
LEMMA GivenBarKept ==
    ASSUME TypeOK, [Next]_vars, done' = done,
           \A r \in Rank, e \in Elem : Staging(r, e)' <=> Staging(r, e)
    PROVE  givenBar' = givenBar
<1>1. ASSUME NEW r \in Rank, NEW e \in Elem
      PROVE  /\ Current(r)' = Current(r)
             /\ LastSized(r, e)' = LastSized(r, e)
             /\ Staging(r, e)' <=> Staging(r, e)
  BY SizedKept, LastSizedSame DEF Current
<1>2. givenBar = [r \in Rank |-> [e \in Elem |->
                     IF Staging(r, e) THEN Current(r) ELSE LastSized(r, e)]]
  BY DEF givenBar, Staging
<1>3. givenBar' = [r \in Rank |-> [e \in Elem |->
                     IF Staging(r, e)' THEN Current(r)' ELSE LastSized(r, e)']]
  BY DEF givenBar, Staging
<1> QED BY <1>1, <1>2, <1>3

(* Acquiring, launching, signalling, polling and reducing stage nothing. *)
LEMMA GivenBarOther ==
    ASSUME TypeOK, [Next]_vars,
           \/ \E n \in Counts, last \in BOOLEAN : AcquireSlot(n, last)
           \/ \E r \in Rank : Launch(r)
           \/ \E r \in Rank, b \in Block : Signal(r, b) \/ Spin(r, b) \/ Reduce(r, b)
           \/ UNCHANGED vars
    PROVE  givenBar' = givenBar
<1> USE DEF Staging
<1>1. CASE \E n \in Counts, last \in BOOLEAN : AcquireSlot(n, last)
  <2> PICK n \in Counts, last \in BOOLEAN : AcquireSlot(n, last)
    BY <1>1
  <2>1. done' = done /\ pc' = pc
    BY DEF AcquireSlot
  <2>2. \A r \in Rank, b \in Block :
           pc[r][b] # "ready" => calls'[Current(r)] = calls[Current(r)]
    <3> SUFFICES ASSUME NEW r \in Rank, NEW b \in Block, pc[r][b] # "ready"
                 PROVE  calls'[Current(r)] = calls[Current(r)]
      OBVIOUS
    <3>1. Current(r) \in 1 .. Len(calls)
      BY CallsAcquired DEF TypeOK
    <3> QED BY <3>1, AcquireKeeps
  <2>3. \A r \in Rank, b \in Block :
           pc[r][b] # "ready" => MyStripe(r, b)' = MyStripe(r, b)
    BY <2>1, <2>2 DEF MyStripe, Size, Current
  <2> QED BY <2>1, <2>3, GivenBarKept
<1>2. CASE \E r \in Rank : Launch(r)
  <2>1. done' = done /\ pc' = pc /\ calls' = calls
    BY <1>2 DEF Launch
  <2> QED BY <2>1, GivenBarKept DEF MyStripe, Size, Current
<1>3. CASE \E r \in Rank, b \in Block : Signal(r, b) \/ Spin(r, b) \/ Reduce(r, b)
  <2>1. done' = done /\ calls' = calls
    BY <1>3 DEF Signal, Spin, Reduce
  <2>2. \A q \in Rank, d \in Block : pc'[q][d] # "ready" <=> pc[q][d] # "ready"
    <3> PICK r \in Rank, b \in Block : Signal(r, b) \/ Spin(r, b) \/ Reduce(r, b)
      BY <1>3
    <3>1. pc \in [Rank -> [Block -> PC]]
      BY DEF TypeOK
    <3>2. pc[r][b] # "ready"
      BY DEF Signal, Spin, Reduce
    <3>3. pc' = pc \/ \E x \in {"signalled", "reduced"} : pc' = [pc EXCEPT ![r][b] = x]
      BY DEF Signal, Spin, Reduce
    <3> QED BY <3>1, <3>2, <3>3
  <2>3. \A q \in Rank, d \in Block : MyStripe(q, d)' = MyStripe(q, d)
    BY <2>1 DEF MyStripe, Size, Current
  <2> QED BY <2>1, <2>2, <2>3, GivenBarKept
<1>4. CASE UNCHANGED vars
  BY <1>4, GivenBarKept DEF vars, MyStripe, Size, Current
<1> QED BY <1>1, <1>2, <1>3, <1>4

(* Completing a call changes nothing: its elements were staged by a block,  *)
(* and are now those of the last completed call that had them.              *)
LEMMA GivenBarFinish ==
    ASSUME TypeOK, LastExists, [Next]_vars, NEW r \in Rank, Finish(r)
    PROVE  givenBar' = givenBar
<1>1. /\ done[r] \in Nat /\ Current(r) = done[r] + 1 /\ Running(r)
      /\ done'[r] = done[r] + 1 /\ calls' = calls
  <2>1. PICK z \in Block : TRUE
    BY KernelAssumption DEF Block
  <2> QED BY <2>1 DEF Finish, TypeOK, Current
<1>2. \A b \in Block : pc[r][b] = "reduced" /\ pc'[r][b] = "ready"
  BY DEF Finish, TypeOK
<1>3. ASSUME NEW q \in Rank, NEW e \in Elem, q # r
      PROVE  /\ Current(q)' = Current(q)
             /\ LastSized(q, e)' = LastSized(q, e)
             /\ Staging(q, e)' <=> Staging(q, e)
  <2>1. done'[q] = done[q] /\ \A b \in Block : pc'[q][b] = pc[q][b]
    BY <1>3 DEF Finish, TypeOK
  <2>2. Current(q)' = Current(q) /\ \A b \in Block : MyStripe(q, b)' = MyStripe(q, b)
    BY <1>1, <2>1 DEF MyStripe, Size, Current
  <2> QED BY <2>1, <2>2, SizedKept, LastSizedSame DEF Staging
<1>4. ASSUME NEW e \in Elem PROVE ~Staging(r, e)'
  BY <1>2 DEF Staging
<1>5. ASSUME NEW e \in Elem, e < Size(r)
      PROVE  Staging(r, e) /\ LastSized(r, e)' = Current(r)
  <2>1. e \in 0 .. Size(r) - 1 /\ Size(r) \in Nat
    BY <1>1, <1>5, CallsAcquired, CallSize, KernelAssumption DEF Size, Elem
  <2>2. PICK b \in Block : e \in MyStripe(r, b)
    BY <2>1, StripeCovers DEF MyStripe
  <2>3. Sized(r, e)' = Sized(r, e) \cup {Current(r)}
    BY <1>5, SizedFinish
  <2>4. \A d \in Sized(r, e) : d \in Nat /\ d < Current(r)
    BY <1>1 DEF Sized
  <2>5. LastExists'
    BY LastExistsStep
  <2>6. LastSized(r, e)' \in Sized(r, e)' /\ \A d \in Sized(r, e)' : d <= LastSized(r, e)'
    <3>1. Sized(r, e)' # {}
      BY <2>3
    <3>2. \E c \in Sized(r, e)' : \A d \in Sized(r, e)' : d <= c
      BY <2>5, <3>1 DEF LastExists
    <3>3. LastSized(r, e)' =
              CHOOSE c \in Sized(r, e)' : \A d \in Sized(r, e)' : d <= c
      BY <3>1 DEF LastSized
    <3> QED BY <3>2, <3>3
  <2> QED BY <1>1, <1>2, <2>2, <2>3, <2>4, <2>6 DEF Staging
<1>6. ASSUME NEW e \in Elem, ~(e < Size(r))
      PROVE  ~Staging(r, e) /\ LastSized(r, e)' = LastSized(r, e)
  <2>1. Sized(r, e)' = Sized(r, e)
    BY <1>6, SizedFinish
  <2>2. \A b \in Block : e \notin MyStripe(r, b)
    BY <1>1, <1>6, StripeElems
  <2> QED BY <2>1, <2>2, LastSizedSame DEF Staging
<1>7. givenBar = [q \in Rank |-> [e \in Elem |->
                     IF Staging(q, e) THEN Current(q) ELSE LastSized(q, e)]]
  BY DEF givenBar, Staging
<1>8. givenBar' = [q \in Rank |-> [e \in Elem |->
                     IF Staging(q, e)' THEN Current(q)' ELSE LastSized(q, e)']]
  BY DEF givenBar, Staging
<1>9. ASSUME NEW q \in Rank, NEW e \in Elem
      PROVE  (IF Staging(q, e)' THEN Current(q)' ELSE LastSized(q, e)')
             = IF Staging(q, e) THEN Current(q) ELSE LastSized(q, e)
  BY <1>3, <1>4, <1>5, <1>6
<1> QED BY <1>7, <1>8, <1>9

(* Staging contributes the elements of the block's stripe to the current    *)
(* call, each for the first time, and nothing else.                         *)
LEMMA GivenBarStage ==
    ASSUME TypeOK, LastExists, [Next]_vars, NEW r \in Rank, NEW b \in Block, Stage(r, b)
    PROVE  /\ givenBar' = [givenBar EXCEPT ![r] =
                  [e \in Elem |-> IF e \in MyStripe(r, b) THEN Current(r) ELSE @[e]]]
           /\ \A e \in MyStripe(r, b) : /\ e \in Elem
                                        /\ givenBar[r][e] \in Nat
                                        /\ givenBar[r][e] < Current(r)
<1>1. /\ done' = done /\ calls' = calls /\ Running(r) /\ pc[r][b] = "ready"
      /\ \A q \in Rank, d \in Block :
            pc'[q][d] = IF q = r /\ d = b THEN "staged" ELSE pc[q][d]
  BY DEF Stage, TypeOK
<1>2. \A q \in Rank, d \in Block : MyStripe(q, d)' = MyStripe(q, d)
  BY <1>1 DEF MyStripe, Size, Current
<1>3. ASSUME NEW q \in Rank, NEW e \in Elem
      PROVE  /\ Current(q)' = Current(q)
             /\ LastSized(q, e)' = LastSized(q, e)
             /\ Staging(q, e)' <=> Staging(q, e) \/ (q = r /\ e \in MyStripe(r, b))
  BY <1>1, <1>2, SizedKept, LastSizedSame DEF Current, Staging
<1>4. givenBar = [q \in Rank |-> [e \in Elem |->
                     IF Staging(q, e) THEN Current(q) ELSE LastSized(q, e)]]
  BY DEF givenBar, Staging
<1>5. givenBar' = [q \in Rank |-> [e \in Elem |->
                     IF Staging(q, e)' THEN Current(q)' ELSE LastSized(q, e)']]
  BY DEF givenBar, Staging
<1>6. \A q \in Rank, e \in Elem :
         (IF Staging(q, e)' THEN Current(q)' ELSE LastSized(q, e)')
         = IF q = r /\ e \in MyStripe(r, b) THEN Current(r) ELSE givenBar[q][e]
  BY <1>3, <1>4
<1>7. givenBar' = [givenBar EXCEPT ![r] =
                  [e \in Elem |-> IF e \in MyStripe(r, b) THEN Current(r) ELSE @[e]]]
  <2> DEFINE G == [q \in Rank |-> [e \in Elem |->
                      IF q = r /\ e \in MyStripe(r, b) THEN Current(r) ELSE givenBar[q][e]]]
             H == [e \in Elem |-> IF e \in MyStripe(r, b) THEN Current(r) ELSE givenBar[r][e]]
  <2>1. givenBar' = G
    BY <1>5, <1>6
  <2>2. \A q \in Rank : G[q] = IF q = r THEN H ELSE givenBar[q]
    <3> SUFFICES ASSUME NEW q \in Rank PROVE G[q] = IF q = r THEN H ELSE givenBar[q]
      OBVIOUS
    <3>1. givenBar[q] = [e \in Elem |-> givenBar[q][e]]
      BY <1>4
    <3> QED BY <3>1
  <2>3. DOMAIN givenBar = Rank /\ DOMAIN G = Rank /\ givenBar = [q \in Rank |-> givenBar[q]]
    BY <1>4
  <2>4. G = [q \in Rank |-> G[q]]
    OBVIOUS
  <2> HIDE DEF G, H
  <2>5. G = [givenBar EXCEPT ![r] = H]
    BY <2>2, <2>3, <2>4
  <2> QED BY <2>1, <2>5 DEF H
<1>8. ASSUME NEW e \in MyStripe(r, b)
      PROVE  e \in Elem /\ givenBar[r][e] \in Nat /\ givenBar[r][e] < Current(r)
  <2>1. e \in Elem /\ Size(r) \in Nat
    BY <1>1, StripeElems
  <2>2. ~Staging(r, e)
    BY <1>1, <2>1, StripeDisjoint DEF Staging, MyStripe
  <2>3. givenBar[r][e] = LastSized(r, e)
    BY <2>1, <2>2, GivenBarAt
  <2>4. LastSized(r, e) \in Nat /\ LastSized(r, e) <= done[r]
    BY <2>1, LastSizedBound
  <2>5. Current(r) = done[r] + 1 /\ done[r] \in Nat
    BY CurrentType DEF TypeOK
  <2> QED BY <2>1, <2>3, <2>4, <2>5
<1> QED BY <1>7, <1>8

(* A block that may reduce finds every rank's contribution to its call.     *)
LEMMA GivenBarReduce ==
    ASSUME Uniform, IInv, LastExists, NEW r \in Rank, NEW b \in Block, Reading(r, b),
           NEW e \in MyStripe(r, b)
    PROVE  /\ e \in Elem
           /\ givenBar[r][e] = Current(r)
           /\ \A p \in Rank : givenBar[p][e] \in Nat /\ givenBar[p][e] >= Current(r)
<1> USE DEF IInv
<1>1. /\ done[r] \in Nat /\ Current(r) = done[r] + 1 /\ pc[r][b] = "signalled"
      /\ Running(r)
  BY CurrentType DEF Reading, TypeOK
<1>2. e \in Elem /\ e < Size(r)
  BY <1>1, StripeElems
<1>3. givenBar[r][e] = Current(r)
  BY <1>1, <1>2, GivenBarAt DEF Staging
<1>4. ASSUME NEW p \in Rank, p # r
      PROVE  givenBar[p][e] \in Nat /\ givenBar[p][e] >= Current(r)
  <2>1. done[p] \in Nat /\ Current(p) = done[p] + 1
    BY CurrentType DEF TypeOK
  <2>2. p < NRanks
    BY KernelAssumption DEF Rank
  <2>3. Given(p, b) >= done[r] + 1
    BY <1>1, <1>4, <2>2 DEF Barrier, Reading
  <2>4. done[p] <= done[r] + 1 /\ done[p] >= done[r]
    BY <1>1, <2>1, <2>3, BarrierNear, GivenBounds
  <2>5. CASE done[p] = done[r]
    <3>1. pc[p][b] # "ready"
      BY <2>1, <2>3, <2>5 DEF Given
    <3>2. MyStripe(r, b) = MyStripe(p, b)
      BY <2>5, StripeUniform DEF MyStripe, Size, Current
    <3>3. Staging(p, e)
      BY <3>1, <3>2 DEF Staging
    <3> QED BY <1>1, <1>2, <2>1, <2>5, <3>3, GivenBarAt
  <2>6. CASE done[p] = done[r] + 1
    <3>1. Current(r) \in Sized(p, e)
      BY <1>1, <1>2, <2>1, <2>6 DEF Sized, Size
    <3>2. LastSized(p, e) \in Nat /\ LastSized(p, e) >= Current(r)
      BY <1>1, <1>2, <3>1, LastSizedIs, LastSizedBound
    <3> QED BY <1>1, <1>2, <2>1, <2>6, <3>2, GivenBarAt
  <2> QED BY <1>1, <2>1, <2>4, <2>5, <2>6
<1> QED BY <1>1, <1>2, <1>3, <1>4

(* Sums arrive in recv when a block stores them, and not before. *)
LEMMA SumsPastStep == Uniform /\ IInv /\ SumsPast /\ [Next]_vars => SumsPast'
<1> SUFFICES ASSUME Uniform, IInv, SumsPast, [Next]_vars,
                    NEW q \in Rank, NEW e \in Elem, NEW c \in Nat,
                    recv'[q][e] = Total(c)
             PROVE  \/ c <= done'[q]
                    \/ /\ c = Current(q)'
                       /\ \E d \in Block : pc'[q][d] = "reduced" /\ e \in MyStripe(q, d)'
  BY DEF SumsPast, Total
<1> USE DEF IInv
<1>0. done[q] \in Nat
  BY DEF TypeOK
<1>1. ASSUME recv' = recv, done' = done, pc' = pc \/ (\E r \in Rank, d \in Block :
                 /\ pc[r][d] # "reduced"
                 /\ \E x \in PC : pc' = [pc EXCEPT ![r][d] = x]),
             \A d \in Block : pc[q][d] = "reduced" => calls'[Current(q)] = calls[Current(q)]
      PROVE  \/ c <= done'[q]
             \/ /\ c = Current(q)'
                /\ \E d \in Block : pc'[q][d] = "reduced" /\ e \in MyStripe(q, d)'
  <2>1. CASE c <= done[q]
    BY <1>1, <2>1
  <2>2. CASE c = Current(q) /\ \E d \in Block : pc[q][d] = "reduced" /\ e \in MyStripe(q, d)
    <3> PICK d \in Block : pc[q][d] = "reduced" /\ e \in MyStripe(q, d)
      BY <2>2
    <3>0. pc \in [Rank -> [Block -> PC]]
      BY DEF TypeOK
    <3>1. pc'[q][d] = "reduced"
      <4>1. CASE pc' = pc
        BY <4>1
      <4>2. CASE \E r \in Rank, z \in Block :
                    /\ pc[r][z] # "reduced"
                    /\ \E x \in PC : pc' = [pc EXCEPT ![r][z] = x]
        BY <3>0, <4>2
      <4> QED BY <1>1, <4>1, <4>2
    <3>2. MyStripe(q, d)' = MyStripe(q, d) /\ Current(q)' = Current(q)
      BY <1>1 DEF MyStripe, Size, Current
    <3> QED BY <2>2, <3>1, <3>2
  <2> QED BY <1>1, <2>1, <2>2 DEF SumsPast
<1>2. ASSUME NEW n \in Counts, NEW last \in BOOLEAN, AcquireSlot(n, last)
      PROVE  \/ c <= done'[q]
             \/ /\ c = Current(q)'
                /\ \E d \in Block : pc'[q][d] = "reduced" /\ e \in MyStripe(q, d)'
  <2>1. \A d \in Block : pc[q][d] = "reduced" => Current(q) \in 1 .. Len(calls)
    BY CallsAcquired DEF TypeOK
  <2>2. \A d \in Block : pc[q][d] = "reduced" => calls'[Current(q)] = calls[Current(q)]
    BY <1>2, <2>1, AcquireKeeps
  <2> QED BY <1>1, <1>2, <2>2 DEF AcquireSlot
<1>3. ASSUME NEW r \in Rank, Launch(r)
      PROVE  \/ c <= done'[q]
             \/ /\ c = Current(q)'
                /\ \E d \in Block : pc'[q][d] = "reduced" /\ e \in MyStripe(q, d)'
  BY <1>1, <1>3 DEF Launch
<1>4. ASSUME NEW r \in Rank, NEW b \in Block, Stage(r, b) \/ Signal(r, b) \/ Spin(r, b)
      PROVE  \/ c <= done'[q]
             \/ /\ c = Current(q)'
                /\ \E d \in Block : pc'[q][d] = "reduced" /\ e \in MyStripe(q, d)'
  <2>1. /\ recv' = recv /\ done' = done /\ calls' = calls /\ pc[r][b] # "reduced"
        /\ pc' = pc \/ \E x \in PC : pc' = [pc EXCEPT ![r][b] = x]
    BY <1>4 DEF Stage, Signal, Spin, PC
  <2> QED BY <1>1, <2>1
<1>5. ASSUME NEW r \in Rank, NEW b \in Block, Reduce(r, b)
      PROVE  \/ c <= done'[q]
             \/ /\ c = Current(q)'
                /\ \E d \in Block : pc'[q][d] = "reduced" /\ e \in MyStripe(q, d)'
  <2>1. done' = done /\ calls' = calls
    BY <1>5 DEF Reduce
  <2>2. \A d \in Block : pc'[q][d] = IF q = r /\ d = b THEN "reduced" ELSE pc[q][d]
    BY <1>5 DEF Reduce, TypeOK
  <2>3. recv'[q][e] = IF q = r /\ e \in MyStripe(r, b) THEN Total(Current(r)) ELSE recv[q][e]
    BY <1>5, ReduceStores
  <2>4. Current(q)' = Current(q) /\ \A d \in Block : MyStripe(q, d)' = MyStripe(q, d)
    BY <2>1 DEF MyStripe, Size, Current
  <2>5. CASE q = r /\ e \in MyStripe(r, b)
    <3>1. c = Current(r)
      BY <2>3, <2>5, TotalInjective
    <3> QED BY <2>2, <2>4, <2>5, <3>1
  <2>6. CASE ~(q = r /\ e \in MyStripe(r, b))
    BY <2>1, <2>2, <2>3, <2>4, <2>6 DEF SumsPast
  <2> QED BY <2>5, <2>6
<1>6. ASSUME NEW r \in Rank, Finish(r)
      PROVE  \/ c <= done'[q]
             \/ /\ c = Current(q)'
                /\ \E d \in Block : pc'[q][d] = "reduced" /\ e \in MyStripe(q, d)'
  <2>1. /\ recv' = recv /\ calls' = calls
        /\ done'[q] = IF q = r THEN done[q] + 1 ELSE done[q]
    BY <1>6 DEF Finish, TypeOK
  <2>2. CASE q = r
    BY <1>0, <2>1, <2>2 DEF SumsPast, Current
  <2>3. CASE q # r
    <3>1. \A d \in Block : pc'[q][d] = pc[q][d]
      BY <1>6, <2>3 DEF Finish, TypeOK
    <3>2. Current(q)' = Current(q) /\ \A d \in Block : MyStripe(q, d)' = MyStripe(q, d)
      BY <2>1, <2>3 DEF MyStripe, Size, Current
    <3> QED BY <2>1, <2>3, <3>1, <3>2 DEF SumsPast
  <2> QED BY <2>2, <2>3
<1>7. CASE UNCHANGED vars
  BY <1>1, <1>7 DEF vars
<1> QED BY <1>2, <1>3, <1>4, <1>5, <1>6, <1>7 DEF Next, BlockStep, Terminated

(* The refinement's invariant. *)
LEMMA RInvariance == ASSUME Uniform PROVE Spec => []RInv
<1>1. Init => RInv
  <2> SUFFICES ASSUME Init PROVE RInv
    OBVIOUS
  <2>1. IInv
    BY IInvInit
  <2>2. LastExists
    <3>1. \A r \in Rank, e \in Elem : Sized(r, e) = {}
      BY DEF Init, Sized
    <3> QED BY <3>1 DEF LastExists
  <2>3. SumsPast
    BY TotalNotEmpty DEF SumsPast, Init
  <2> QED BY <2>1, <2>2, <2>3 DEF RInv
<1>2. RInv /\ [Next]_vars => RInv'
  BY IInvStep, LastExistsStep, SumsPastStep DEF RInv, IInv
<1> QED BY <1>1, <1>2, PTL DEF Spec

-----------------------------------------------------------------------------
(* The chunked kernel implements the abstract all-reduce: a block's staging *)
(* is the contribution, its reduction the delivery, and every other step of *)
(* the kernel changes neither what was given nor what was received.         *)

(* The kernel seen as an all-reduce: what was given is what blocks staged,  *)
(* and what recv holds is what was delivered.                               *)
AllReduce == INSTANCE AllReduceSpec WITH given <- givenBar, out <- recv

(* The chunked kernel implements the abstract all-reduce. *)
Implements == AllReduce!SpecSpec

(* The two modules name ranks, elements and sums alike. *)
LEMMA SameNames ==
    /\ AllReduce!Rank = Rank
    /\ AllReduce!Elem = Elem
    /\ \A c : AllReduce!Sum(c) = Total(c)
BY DEF AllReduce!Rank, Rank, AllReduce!Elem, Elem, AllReduce!Sum, Total

(* The kernel starts where an all-reduce starts. *)
LEMMA RefinesInit == Init => AllReduce!SpecInit
<1> SUFFICES ASSUME Init PROVE AllReduce!SpecInit
  OBVIOUS
<1>1. \A r \in Rank, e \in Elem : ~Staging(r, e) /\ LastSized(r, e) = 0
  <2>1. \A r \in Rank, e \in Elem : Sized(r, e) = {}
    BY DEF Init, Sized
  <2>2. \A r \in Rank, b \in Block : pc[r][b] = "ready"
    BY DEF Init
  <2> QED BY <2>1, <2>2 DEF LastSized, Staging
<1>2. givenBar = [r \in Rank |-> [e \in Elem |-> 0]]
  BY <1>1, GivenBarIs
<1>3. recv = [r \in Rank |-> [e \in Elem |-> <<>>]]
  BY DEF Init
<1> QED BY <1>2, <1>3, SameNames DEF AllReduce!SpecInit

(* Staging a stripe is contributing its elements, if it has any. *)
LEMMA RefinesStage ==
    ASSUME RInv, [Next]_vars, NEW r \in Rank, NEW b \in Block, Stage(r, b)
    PROVE  AllReduce!SpecNext \/ UNCHANGED AllReduce!specVars
<1> DEFINE S == MyStripe(r, b)
           c == Current(r)
           L == {e \in Elem : givenBar'[r][e] # givenBar[r][e]}
<1>1. /\ givenBar' = [givenBar EXCEPT ![r] = [e \in Elem |-> IF e \in S THEN c ELSE @[e]]]
      /\ \A e \in S : e \in Elem /\ givenBar[r][e] \in Nat /\ givenBar[r][e] < c
  BY GivenBarStage DEF RInv, IInv
<1>2. recv' = recv
  BY DEF Stage
<1>3. c \in Nat
  BY CurrentType DEF RInv, IInv
<1>4. /\ givenBar = [q \in Rank |-> givenBar[q]]
      /\ \A q \in Rank : givenBar[q] = [e \in Elem |-> givenBar[q][e]]
  BY GivenBarIs
<1> HIDE DEF S, c
<1>5. \A e \in Elem : givenBar'[r][e] = IF e \in S THEN c ELSE givenBar[r][e]
  BY <1>1, <1>4
<1>6. L = S
  BY <1>1, <1>3, <1>5
<1>7. CASE S = {}
  <2>1. givenBar' = [givenBar EXCEPT ![r] = [e \in Elem |-> givenBar[r][e]]]
    BY <1>1, <1>7
  <2>2. givenBar' = givenBar
    BY <1>4, <2>1
  <2> QED BY <1>2, <2>2 DEF AllReduce!specVars
<1>8. CASE S # {}
  <2>1. L # {} /\ c \in {givenBar'[r][e] : e \in L}
    BY <1>1, <1>5, <1>6, <1>8
  <2>2. givenBar' = [givenBar EXCEPT ![r] = [e \in Elem |-> IF e \in L THEN c ELSE @[e]]]
    BY <1>1, <1>6
  <2>3. \A e \in L : givenBar[r][e] < c
    BY <1>1, <1>6
  <2>4. AllReduce!Contribute(r, L, c)
    BY <1>2, <2>2, <2>3, SameNames DEF AllReduce!Contribute
  <2> QED BY <2>1, <2>4, SameNames DEF AllReduce!SpecNext
<1> QED BY <1>7, <1>8

(* Reducing a stripe is delivering its elements, if it has any. *)
LEMMA RefinesReduce ==
    ASSUME Uniform, RInv, [Next]_vars, NEW r \in Rank, NEW b \in Block, Reduce(r, b)
    PROVE  AllReduce!SpecNext \/ UNCHANGED AllReduce!specVars
<1> DEFINE S == MyStripe(r, b)
           c == Current(r)
           L == {e \in Elem : recv'[r][e] # recv[r][e]}
<1> USE DEF RInv
<1>1. /\ \A q \in Rank, e \in Elem :
            recv'[q][e] = IF q = r /\ e \in S THEN Total(c) ELSE recv[q][e]
  BY ReduceStores
<1>2. recv' = [recv EXCEPT ![r] = [e \in Elem |-> recv'[r][e]]]
  BY <1>1 DEF Reduce, IInv, TypeOK
<1>3. /\ Reading(r, b)
      /\ givenBar' = givenBar
  BY GivenBarOther DEF Reduce, Reading, IInv
<1>4. \A e \in S : /\ e \in Elem
                   /\ givenBar[r][e] = c
                   /\ \A p \in Rank : givenBar[p][e] \in Nat /\ givenBar[p][e] >= c
  BY <1>3, GivenBarReduce
<1>5. ASSUME NEW e \in S PROVE recv[r][e] # Total(c)
  <2>1. c \in Nat /\ c = done[r] + 1 /\ done[r] \in Nat /\ Size(r) \in Nat
    BY <1>3, CurrentType, StripeElems DEF IInv, TypeOK, Reading
  <2>2. \A d \in Block : pc[r][d] = "reduced" => d # b
    BY <1>3 DEF Reading
  <2>3. \A d \in Block : pc[r][d] = "reduced" => e \notin MyStripe(r, d)
    BY <2>1, <2>2, <1>5, StripeDisjoint DEF MyStripe
  <2> QED BY <1>4, <2>1, <2>3 DEF SumsPast
<1> HIDE DEF S, c
<1>6. L = S
  BY <1>1, <1>4, <1>5
<1>7. recv' = [recv EXCEPT ![r] = [e \in Elem |-> IF e \in L THEN Total(c) ELSE @[e]]]
  BY <1>1, <1>2, <1>6
<1>8. CASE S = {}
  <2>1. recv' = recv
    <3>1. [e \in Elem |-> recv'[r][e]] = recv[r]
      BY <1>1, <1>8 DEF IInv, TypeOK
    <3> QED BY <1>2, <3>1 DEF IInv, TypeOK
  <2> QED BY <1>3, <2>1 DEF AllReduce!specVars
<1>9. CASE S # {}
  <2>1. L # {} /\ c \in {givenBar[r][e] : e \in L}
    BY <1>4, <1>6, <1>9
  <2>2. AllReduce!Deliver(r, L, c)
    BY <1>3, <1>4, <1>5, <1>6, <1>7, SameNames DEF AllReduce!Deliver
  <2> QED BY <2>1, <2>2, SameNames DEF AllReduce!SpecNext
<1> QED BY <1>8, <1>9

(* Every step of the kernel is a step of the all-reduce, or changes nothing *)
(* of it.                                                                   *)
LEMMA RefinesStep ==
    Uniform /\ RInv /\ [Next]_vars => [AllReduce!SpecNext]_AllReduce!specVars
<1> SUFFICES ASSUME Uniform, RInv, [Next]_vars
             PROVE  AllReduce!SpecNext \/ UNCHANGED AllReduce!specVars
  OBVIOUS
<1>1. ASSUME NEW r \in Rank, NEW b \in Block, Stage(r, b) \/ Reduce(r, b)
      PROVE  AllReduce!SpecNext \/ UNCHANGED AllReduce!specVars
  BY <1>1, RefinesStage, RefinesReduce
<1>2. CASE \/ \E n \in Counts, last \in BOOLEAN : AcquireSlot(n, last)
           \/ \E r \in Rank : Launch(r)
           \/ \E r \in Rank, b \in Block : Signal(r, b) \/ Spin(r, b)
           \/ UNCHANGED vars
  <2>1. givenBar' = givenBar
    BY <1>2, GivenBarOther DEF RInv, IInv
  <2>2. recv' = recv
    BY <1>2 DEF AcquireSlot, Launch, Signal, Spin, vars
  <2> QED BY <2>1, <2>2 DEF AllReduce!specVars
<1>3. ASSUME NEW r \in Rank, Finish(r)
      PROVE  AllReduce!SpecNext \/ UNCHANGED AllReduce!specVars
  <2>1. givenBar' = givenBar
    BY <1>3, GivenBarFinish DEF RInv, IInv
  <2>2. recv' = recv
    BY <1>3 DEF Finish
  <2> QED BY <2>1, <2>2 DEF AllReduce!specVars
<1> QED BY <1>1, <1>2, <1>3 DEF Next, BlockStep, Terminated

(* With one vector width on all GPUs, the chunked kernel is an all-reduce:  *)
(* ranks contribute to a call once, in order, and each receives its sum     *)
(* once, after every rank has contributed and before its own next call.     *)
THEOREM KernelImplements == ASSUME Uniform PROVE Spec => Implements
BY RefinesInit, RefinesStep, RInvariance, PTL DEF Spec, Implements, AllReduce!SpecSpec
=============================================================================
