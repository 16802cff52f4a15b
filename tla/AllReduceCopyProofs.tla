------------------------- MODULE AllReduceCopyProofs -------------------------
(***************************************************************************)
(* Theorems about AllReduceCopy, for any number of GPUs, chunks and calls, *)
(* both wire types, and whichever ranks lack the COMPUTE flag.             *)
(***************************************************************************)
EXTENDS AllReduceCopy, QueueOpsProofs

(* Streams are numbered from 1. *)
Pos(g, r) == 1 .. Len(queue[g][r])

-----------------------------------------------------------------------------
(* Division, for the order in which chunks and peers are pulled.            *)

(* A product of natural numbers grows with its factors. *)
LEMMA ProductMonotone ==
    ASSUME NEW a \in Nat, NEW b \in Nat, NEW m \in Nat, a <= b
    PROVE  a * m <= b * m
<1>1. PICK d \in Nat : b = a + d
  <2>1. b - a \in Nat /\ b = a + (b - a)
    OBVIOUS
  <2> QED BY <2>1
<1>2. b * m = a * m + d * m /\ d * m \in Nat /\ a * m \in Nat
  BY <1>1
<1> QED BY <1>2

(* Quotient and remainder, for a divisor that is not 0. *)
LEMMA DivMod ==
    ASSUME NEW a \in Nat, NEW m \in Nat \ {0}
    PROVE  /\ a \div m \in Nat /\ a % m \in 0 .. m - 1
           /\ a = (a \div m) * m + (a % m)
OBVIOUS

(* Less than n times the divisor, the quotient is less than n. *)
LEMMA DivBelow ==
    ASSUME NEW a \in Nat, NEW m \in Nat \ {0}, NEW n \in Nat, a < n * m
    PROVE  a \div m \in 0 .. n - 1 /\ a % m \in 0 .. m - 1
<1>1. PICK q \in Nat, j \in 0 .. m - 1 : q = a \div m /\ j = a % m /\ a = q * m + j
  BY DivMod
<1>2. ASSUME n <= q PROVE FALSE
  <2>1. n * m <= q * m
    BY <1>2, ProductMonotone
  <2>2. n * m \in Nat /\ q * m \in Nat
    OBVIOUS
  <2> QED BY <1>1, <2>1, <2>2
<1> QED BY <1>1, <1>2

(* Quotient and remainder are unique. *)
LEMMA DivIs ==
    ASSUME NEW k \in Nat, NEW m \in Nat \ {0}, NEW j \in 0 .. m - 1
    PROVE  (k * m + j) \div m = k /\ (k * m + j) % m = j
<1>1. k * m \in Nat /\ k * m + j \in Nat
  OBVIOUS
<1>2. PICK q \in Nat, i \in 0 .. m - 1 : /\ q = (k * m + j) \div m /\ i = (k * m + j) % m
                                         /\ k * m + j = q * m + i
  BY <1>1, DivMod
<1>3. q * m \in Nat /\ (k + 1) * m = k * m + m /\ (q + 1) * m = q * m + m
  OBVIOUS
<1>4. ASSUME q < k PROVE FALSE
  <2>1. (q + 1) * m <= k * m
    BY <1>4, ProductMonotone
  <2> QED BY <1>1, <1>2, <1>3, <2>1
<1>5. ASSUME k < q PROVE FALSE
  <2>1. (k + 1) * m <= q * m
    BY <1>5, ProductMonotone
  <2> QED BY <1>1, <1>2, <1>3, <2>1
<1>6. q = k
  BY <1>4, <1>5
<1> QED BY <1>1, <1>2, <1>6

(* Every peer has its place in the order. *)
LEMMA PeersAll ==
    ASSUME NEW r \in Rank
    PROVE  /\ NRanks - 1 \in Nat \ {0}
           /\ \A i \in 1 .. NRanks - 1 : Peers(r)[i] \in Rank \ {r}
           /\ \A p \in Rank \ {r} : \E j \in 0 .. NRanks - 2 : Peers(r)[j + 1] = p
<1>1. NRanks \in Nat /\ NRanks >= 2
  BY CopyAssumption
<1>2. \A i \in 1 .. NRanks - 1 : Peers(r)[i] = IF i - 1 < r THEN i - 1 ELSE i
  BY DEF Peers
<1>3. ASSUME NEW i \in 1 .. NRanks - 1 PROVE Peers(r)[i] \in Rank \ {r}
  BY <1>1, <1>2 DEF Rank
<1>4. ASSUME NEW p \in Rank \ {r} PROVE \E j \in 0 .. NRanks - 2 : Peers(r)[j + 1] = p
  <2>1. CASE p < r
    <3>1. p \in 0 .. NRanks - 2 /\ p + 1 \in 1 .. NRanks - 1 /\ (p + 1) - 1 = p
      BY <1>1, <2>1 DEF Rank
    <3> QED BY <1>2, <2>1, <3>1
  <2>2. CASE p > r
    <3>1. p - 1 \in 0 .. NRanks - 2 /\ (p - 1) + 1 = p /\ p \in 1 .. NRanks - 1 /\ ~ (p - 1 < r)
      BY <1>1, <2>2 DEF Rank
    <3> QED BY <1>2, <3>1
  <2> QED BY <2>1, <2>2 DEF Rank
<1> QED BY <1>1, <1>3, <1>4

-----------------------------------------------------------------------------
(* What the streams hold.                                                   *)

OpType ==
    [kind : {"produce", "scratch", "convert", "zero", "add", "d2h", "h2d"},
     call : Nat, chunks : 1 .. MaxChunks, bf16 : BOOLEAN, peer : Rank, chunk : Chunk,
     after : SUBSET (Engine \X Rank \X Nat)]

(* The operations of stream g of rank r. *)
Belongs(g, r, o) ==
    /\ g = "comp" => /\ o.kind \in {"produce", "scratch", "convert", "zero", "add"}
                     /\ o.kind \in {"convert", "zero"} => o.bf16
    /\ g = "d2h"  => o.kind = "d2h" \/ (o.kind = "zero" /\ ~o.bf16)
    /\ g = "h2d"  => o.kind = "h2d" /\ o.peer # r
    /\ o.chunk < o.chunks

StreamTypes ==
    /\ call_count \in Nat
    /\ queue \in [Engine -> [Rank -> Seq(OpType)]]
    /\ ran \in [Engine -> [Rank -> Nat]]
    /\ \A g \in Engine, r \in Rank :
          /\ ran[g][r] <= Len(queue[g][r])
          /\ \A x \in Pos(g, r) : /\ queue[g][r][x].call \in 1 .. call_count
                                  /\ Belongs(g, r, queue[g][r][x])

(* The last records of the events stand at the ends of the streams. *)
Recorded ==
    /\ host_large_read_done = [r \in Rank |-> Len(queue["h2d"][r])]
    /\ dev_tmp_kernel_done  = [r \in Rank |-> Len(queue["comp"][r])]

-----------------------------------------------------------------------------
(* What a call appends.                                                     *)

(* The streams of r in CopyImpl, with their names there. *)
Up(n, b, idle, r) == queue["comp"][r] \o Upstream(call_count + 1, n, b, r \in idle)
D2H(n, b, idle, r) ==
    queue["d2h"][r] \o Stage1(r, call_count + 1, n, b, r \in idle, Len(Up(n, b, idle, r)))
Cpy(n, b, idle) == [r \in Rank |-> [k \in 0 .. n - 1 |-> Len(D2H(n, b, idle, r)) - (n - 1) + k]]
H2D(n, b, idle, r) ==
    queue["h2d"][r] \o Stage2(r, call_count + 1, n, b, Cpy(n, b, idle))
Comp(n, b, idle, r) ==
    Up(n, b, idle, r) \o
        HandOff(r, call_count + 1, n, b, r \in idle, Len(H2D(n, b, idle, r)), Cpy(n, b, idle)[r][n - 1])

(* A call of copy_impl. *)
LEMMA Enqueues ==
    ASSUME NEW n, NEW b, NEW idle, CopyImpl(n, b, idle)
    PROVE  /\ call_count' = call_count + 1
           /\ queue' = [g \in Engine |-> [r \in Rank |-> queue'[g][r]]]
           /\ \A r \in Rank : /\ queue'["comp"][r] = Comp(n, b, idle, r)
                              /\ queue'["d2h"][r] = D2H(n, b, idle, r)
                              /\ queue'["h2d"][r] = H2D(n, b, idle, r)
           /\ host_large_read_done' = [r \in Rank |-> Len(queue'["h2d"][r])]
           /\ dev_tmp_kernel_done' = [r \in Rank |-> Len(queue'["comp"][r])]
           /\ UNCHANGED <<ran, memory>>
<1> DEFINE c == call_count + 1
           up == [r \in Rank |-> queue["comp"][r] \o Upstream(c, n, b, r \in idle)]
           d2h == [r \in Rank |-> queue["d2h"][r] \o Stage1(r, c, n, b, r \in idle, Len(up[r]))]
           cpy == [r \in Rank |-> [k \in 0 .. n - 1 |-> Len(d2h[r]) - (n - 1) + k]]
           h2d == [r \in Rank |-> queue["h2d"][r] \o Stage2(r, c, n, b, cpy)]
           comp == [r \in Rank |-> up[r] \o
                       HandOff(r, c, n, b, r \in idle, Len(h2d[r]), cpy[r][n - 1])]
<1>1. /\ call_count' = c
      /\ queue' = [g \in Engine |-> CASE g = "comp" -> comp [] g = "d2h" -> d2h [] g = "h2d" -> h2d]
      /\ host_large_read_done' = [r \in Rank |-> Len(h2d[r])]
      /\ dev_tmp_kernel_done' = [r \in Rank |-> Len(comp[r])]
      /\ UNCHANGED <<ran, memory>>
  <2> HIDE DEF up, d2h, cpy, h2d, comp
  <2> QED BY DEF CopyImpl, AcquireSlot, up, d2h, cpy, h2d, comp
<1>2. \A r \in Rank : up[r] = Up(n, b, idle, r)
  BY DEF Up
<1>3. \A r \in Rank : d2h[r] = D2H(n, b, idle, r)
  <2> HIDE DEF up
  <2> QED BY <1>2 DEF D2H
<1>4. cpy = Cpy(n, b, idle)
  <2> HIDE DEF d2h
  <2> QED BY <1>3 DEF Cpy
<1>5. \A r \in Rank : h2d[r] = H2D(n, b, idle, r)
  <2> HIDE DEF cpy
  <2> QED BY <1>4 DEF H2D
<1>6. \A r \in Rank : comp[r] = Comp(n, b, idle, r)
  <2> HIDE DEF up, cpy, h2d
  <2> QED BY <1>2, <1>4, <1>5 DEF Comp
<1>7. comp = [r \in Rank |-> comp[r]] /\ d2h = [r \in Rank |-> d2h[r]] /\ h2d = [r \in Rank |-> h2d[r]]
  <2> HIDE DEF up, cpy
  <2>1. comp = [r \in Rank |-> comp[r]]
    <3> HIDE DEF h2d, d2h
    <3> QED OBVIOUS
  <2>2. d2h = [r \in Rank |-> d2h[r]]
    OBVIOUS
  <2>3. h2d = [r \in Rank |-> h2d[r]]
    OBVIOUS
  <2> QED BY <2>1, <2>2, <2>3
<1> HIDE DEF c, up, d2h, cpy, h2d, comp
<1>8. queue'["comp"] = comp /\ queue'["d2h"] = d2h /\ queue'["h2d"] = h2d
  BY <1>1 DEF Engine
<1>9. \A r \in Rank : /\ queue'["comp"][r] = Comp(n, b, idle, r)
                      /\ queue'["d2h"][r] = D2H(n, b, idle, r)
                      /\ queue'["h2d"][r] = H2D(n, b, idle, r)
  BY <1>3, <1>5, <1>6, <1>8
<1>10. /\ host_large_read_done' = [r \in Rank |-> Len(queue'["h2d"][r])]
       /\ dev_tmp_kernel_done' = [r \in Rank |-> Len(queue'["comp"][r])]
  BY <1>1, <1>8
<1>11. call_count' = call_count + 1
  BY <1>1 DEF c
<1>12. queue' = [g \in Engine |-> [r \in Rank |-> queue'[g][r]]]
  <2>1. \A g \in Engine : queue'[g] = [r \in Rank |-> queue'[g][r]]
    BY <1>7, <1>8 DEF Engine
  <2> DEFINE S(g) == CASE g = "comp" -> comp [] g = "d2h" -> d2h [] g = "h2d" -> h2d
  <2>2. queue' = [g \in Engine |-> S(g)]
    BY <1>1
  <2> HIDE DEF S
  <2>3. queue' = [g \in Engine |-> queue'[g]]
    BY <2>2
  <2> QED BY <2>1, <2>3
<1> QED BY <1>1, <1>9, <1>10, <1>11, <1>12

(* Two or three operations at the end of a stream. *)
LEMMA TwoMore ==
    ASSUME NEW T, NEW q \in Seq(T), NEW a \in T, NEW d \in T
    PROVE  LET s == (q \o (<<a>> \o <<>>)) \o <<d>> IN
           /\ s \in Seq(T) /\ Len(s) = Len(q) + 2
           /\ \A x \in 1 .. Len(q) : s[x] = q[x]
           /\ s[Len(q) + 1] = a /\ s[Len(q) + 2] = d
           /\ Len(q \o (<<a>> \o <<>>)) = Len(q) + 1
OBVIOUS

(* The same of three. *)
LEMMA ThreeMore ==
    ASSUME NEW T, NEW q \in Seq(T), NEW a \in T, NEW e \in T, NEW d \in T
    PROVE  LET s == (q \o (<<a>> \o <<e>>)) \o <<d>> IN
           /\ s \in Seq(T) /\ Len(s) = Len(q) + 3
           /\ \A x \in 1 .. Len(q) : s[x] = q[x]
           /\ s[Len(q) + 1] = a /\ s[Len(q) + 2] = e /\ s[Len(q) + 3] = d
           /\ Len(q \o (<<a>> \o <<e>>)) = Len(q) + 2
OBVIOUS

(* The operations a call puts on the compute stream, in their order. *)
First(n, b, i) == Op(IF i THEN "scratch" ELSE "produce", call_count + 1, n, b, 0, 0, {})
Prepare(n, b, i) == Op(IF i THEN "zero" ELSE "convert", call_count + 1, n, b, 0, 0, {})
Last_(n, b, r, h, d) == Op("add", call_count + 1, n, b, 0, 0, AddAfter(r, h, d))

(* The compute stream, q before a call and s after it. *)
CompGrowth(q, s, n, b, i, r, h, d) ==
    /\ s \in Seq(OpType)
    /\ Len(s) = Len(q) + (IF b THEN 3 ELSE 2)
    /\ \A x \in 1 .. Len(q) : s[x] = q[x]
    /\ s[Len(q) + 1] = First(n, b, i)
    /\ b => s[Len(q) + 2] = Prepare(n, b, i)
    /\ s[Len(s)] = Last_(n, b, r, h, d)

(* That is how it grows. *)
LEMMA CompGrows ==
    ASSUME StreamTypes, NEW n \in 1 .. MaxChunks, NEW b \in BOOLEAN, NEW idle \in SUBSET Rank,
           NEW r \in Rank, NEW h \in Nat, NEW d \in Nat, CopyImpl(n, b, idle),
           h = Len(queue'["h2d"][r]), d = Len(queue'["d2h"][r])
    PROVE  /\ CompGrowth(queue["comp"][r], queue'["comp"][r], n, b, r \in idle, r, h, d)
           /\ Len(Up(n, b, idle, r)) = Len(queue'["comp"][r]) - 1
<1>1. PICK q \in Seq(OpType) : q = queue["comp"][r]
  BY DEF StreamTypes, Engine
<1>2. NRanks \in Nat /\ MaxChunks \in Nat /\ 0 \in Rank /\ 0 \in Chunk /\ n \in 1 .. MaxChunks
  BY CopyAssumption DEF Rank, Chunk
<1>3. call_count + 1 \in Nat
  BY DEF StreamTypes
<1>4. PICK a \in OpType : a = First(n, b, r \in idle)
  <2>1. (IF r \in idle THEN "scratch" ELSE "produce") \in {"scratch", "produce"}
    OBVIOUS
  <2>2. First(n, b, r \in idle) \in OpType
    BY <1>2, <1>3, <2>1 DEF First, Op, OpType
  <2> QED BY <2>2
<1>5. PICK e \in OpType : e = Prepare(n, b, r \in idle)
  <2>1. (IF r \in idle THEN "zero" ELSE "convert") \in {"zero", "convert"}
    OBVIOUS
  <2>2. Prepare(n, b, r \in idle) \in OpType
    BY <1>2, <1>3, <2>1 DEF Prepare, Op, OpType
  <2> QED BY <2>2
<1>6. PICK l \in OpType : l = Last_(n, b, r, h, d)
  <2>1. AddAfter(r, h, d) \in SUBSET (Engine \X Rank \X Nat)
    BY DEF AddAfter, Engine
  <2>2. Last_(n, b, r, h, d) \in OpType
    BY <1>2, <1>3, <2>1 DEF Last_, Op, OpType
  <2> QED BY <2>2
<1>7. Cpy(n, b, idle)[r][n - 1] = d /\ Len(H2D(n, b, idle, r)) = h
  <2>1. Len(D2H(n, b, idle, r)) = d /\ Len(H2D(n, b, idle, r)) = h
    BY Enqueues
  <2>2. n - 1 \in 0 .. n - 1 /\ d - (n - 1) + (n - 1) = d
    BY <1>2
  <2>3. Cpy(n, b, idle)[r][n - 1] = Len(D2H(n, b, idle, r)) - (n - 1) + (n - 1)
    BY <2>2 DEF Cpy
  <2> QED BY <2>1, <2>2, <2>3
<1>8. Up(n, b, idle, r) = q \o (<<a>> \o (IF b THEN <<e>> ELSE <<>>))
  BY <1>1, <1>4, <1>5 DEF Up, Upstream, First, Prepare
<1>9. queue'["comp"][r] = Up(n, b, idle, r) \o <<l>>
  <2>1. HandOff(r, call_count + 1, n, b, r \in idle, h, d) = <<l>>
    BY <1>6 DEF HandOff, Last_
  <2>2. queue'["comp"][r] = Comp(n, b, idle, r)
    BY Enqueues
  <2> QED BY <1>7, <2>1, <2>2 DEF Comp
<1>10. CASE b
  <2>1. /\ Up(n, b, idle, r) = q \o (<<a>> \o <<e>>)
        /\ queue'["comp"][r] = (q \o (<<a>> \o <<e>>)) \o <<l>>
    BY <1>8, <1>9, <1>10
  <2>2. PICK s : s = (q \o (<<a>> \o <<e>>)) \o <<l>>
    OBVIOUS
  <2>3. /\ s \in Seq(OpType) /\ Len(s) = Len(q) + 3
        /\ \A x \in 1 .. Len(q) : s[x] = q[x]
        /\ s[Len(q) + 1] = a /\ s[Len(q) + 2] = e /\ s[Len(q) + 3] = l
        /\ Len(Up(n, b, idle, r)) = Len(q) + 2
    BY <2>1, <2>2, ThreeMore
  <2>4. queue'["comp"][r] = s /\ Len(q) \in Nat
    BY <2>1, <2>2
  <2>5. (IF b THEN 3 ELSE 2) = 3
    BY <1>10
  <2>6. Len(s) = Len(q) + (IF b THEN 3 ELSE 2)
    BY <2>3, <2>5
  <2>7. Len(Up(n, b, idle, r)) = Len(s) - 1 /\ s[Len(s)] = l
    BY <2>3, <2>4
  <2>8. CompGrowth(q, s, n, b, r \in idle, r, h, d)
    BY <1>4, <1>5, <1>6, <2>3, <2>6, <2>7 DEF CompGrowth
  <2> QED BY <1>1, <2>4, <2>7, <2>8
<1>11. CASE ~b
  <2>1. /\ Up(n, b, idle, r) = q \o (<<a>> \o <<>>)
        /\ queue'["comp"][r] = (q \o (<<a>> \o <<>>)) \o <<l>>
    BY <1>8, <1>9, <1>11
  <2>2. PICK s : s = (q \o (<<a>> \o <<>>)) \o <<l>>
    OBVIOUS
  <2>3. /\ s \in Seq(OpType) /\ Len(s) = Len(q) + 2
        /\ \A x \in 1 .. Len(q) : s[x] = q[x]
        /\ s[Len(q) + 1] = a /\ s[Len(q) + 2] = l
        /\ Len(Up(n, b, idle, r)) = Len(q) + 1
    BY <2>1, <2>2, TwoMore
  <2>4. queue'["comp"][r] = s /\ Len(q) \in Nat
    BY <2>1, <2>2
  <2>5. (IF b THEN 3 ELSE 2) = 2
    BY <1>11
  <2>6. Len(s) = Len(q) + (IF b THEN 3 ELSE 2)
    BY <2>3, <2>5
  <2>7. Len(Up(n, b, idle, r)) = Len(s) - 1 /\ s[Len(s)] = l
    BY <2>3, <2>4
  <2>8. CompGrowth(q, s, n, b, r \in idle, r, h, d)
    BY <1>4, <1>6, <1>11, <2>3, <2>6, <2>7 DEF CompGrowth
  <2> QED BY <1>1, <2>4, <2>7, <2>8
<1> QED BY <1>10, <1>11

(* Operations f at the end of the stream q. *)
Joins(s, q, f) ==
    /\ s = q \o f
    /\ Len(s) = Len(q) + Len(f)
    /\ \A x \in 1 .. Len(q) : s[x] = q[x]
    /\ \A x \in Len(q) + 1 .. Len(s) : s[x] = f[x - Len(q)]
    /\ \A y \in 1 .. Len(f) : s[Len(q) + y] = f[y]

(* That is what concatenation is. *)
LEMMA Appended ==
    ASSUME NEW q \in Seq(OpType), NEW f \in Seq(OpType)
    PROVE  \E s \in Seq(OpType) : Joins(s, q, f)
<1>1. q \o f \in Seq(OpType)
  OBVIOUS
<1>2. Joins(q \o f, q, f)
  BY DEF Joins
<1> QED BY <1>1, <1>2

(* What a copy to the host waits for are numbers of operations. *)
LEMMA D2HAfterType ==
    ASSUME StreamTypes, Recorded, NEW r \in Rank, NEW a \in Nat
    PROVE  D2HAfter(r, a) \in SUBSET (Engine \X Rank \X Nat)
<1>1. \A p \in Rank : host_large_read_done[p] \in Nat
  BY DEF StreamTypes, Recorded, Engine
<1> QED BY <1>1 DEF D2HAfter, Engine

(* The operations a call puts on the stream to the host. *)
ZeroHost(n, b, r, a) == Op("zero", call_count + 1, n, b, 0, 0, D2HAfter(r, a))
Push(n, b, r, a, k) == Op("d2h", call_count + 1, n, b, r, k, D2HAfter(r, a))

(* The stream to the host, q before a call and s after it. *)
D2HGrowth(q, s, n, b, i, r, a) ==
    LET z == IF i /\ ~b THEN 1 ELSE 0 IN
    /\ s \in Seq(OpType)
    /\ Len(s) = Len(q) + z + n
    /\ \A x \in 1 .. Len(q) : s[x] = q[x]
    /\ z = 1 => s[Len(q) + 1] = ZeroHost(n, b, r, a)
    /\ \A k \in 0 .. n - 1 : s[Len(s) - (n - 1) + k] = Push(n, b, r, a, k)

(* That is how it grows. *)
LEMMA D2HGrows ==
    ASSUME StreamTypes, Recorded, NEW n \in 1 .. MaxChunks, NEW b \in BOOLEAN,
           NEW idle \in SUBSET Rank, NEW r \in Rank, NEW a \in Nat, CopyImpl(n, b, idle),
           a = Len(Up(n, b, idle, r))
    PROVE  D2HGrowth(queue["d2h"][r], queue'["d2h"][r], n, b, r \in idle, r, a)
<1>1. PICK q \in Seq(OpType) : q = queue["d2h"][r]
  BY DEF StreamTypes, Engine
<1>2. NRanks \in Nat /\ MaxChunks \in Nat /\ 0 \in Rank /\ 0 \in Chunk /\ n \in 1 .. MaxChunks /\ n \in Nat
  BY CopyAssumption DEF Rank, Chunk
<1>3. call_count + 1 \in Nat /\ D2HAfter(r, a) \in SUBSET (Engine \X Rank \X Nat)
  BY D2HAfterType DEF StreamTypes
<1>4. PICK o \in OpType : o = ZeroHost(n, b, r, a)
  <2>1. ZeroHost(n, b, r, a) \in OpType
    BY <1>2, <1>3 DEF ZeroHost, Op, OpType
  <2> QED BY <2>1
<1>5. \A k \in 0 .. n - 1 : Push(n, b, r, a, k) \in OpType
  BY <1>2, <1>3 DEF Push, Op, OpType, Chunk
<1>6. PICK f \in Seq(OpType) : f = [k \in 1 .. n |-> Push(n, b, r, a, k - 1)]
  <2> DEFINE e(k) == Push(n, b, r, a, k - 1)
  <2>1. \A k \in 1 .. n : e(k) \in OpType
    BY <1>2, <1>5
  <2> HIDE DEF e
  <2>2. [k \in 1 .. n |-> e(k)] \in Seq(OpType)
    BY <1>2, <2>1
  <2> QED BY <2>2 DEF e
<1>7. Len(f) = n /\ \A k \in 1 .. n : f[k] = Push(n, b, r, a, k - 1)
  BY <1>2, <1>6
<1>8. PICK z \in Seq(OpType), e \in {0, 1} :
          /\ z = IF r \in idle /\ ~b THEN <<o>> ELSE <<>>
          /\ e = IF r \in idle /\ ~b THEN 1 ELSE 0
          /\ Len(z) = e /\ (e = 1 => z[1] = o)
  <2>1. CASE r \in idle /\ ~b
    <3>1. <<o>> \in Seq(OpType) /\ Len(<<o>>) = 1 /\ <<o>>[1] = o
      OBVIOUS
    <3> QED BY <2>1, <3>1
  <2>2. CASE ~ (r \in idle /\ ~b)
    <3>1. <<>> \in Seq(OpType) /\ Len(<<>>) = 0 /\ 0 # 1
      OBVIOUS
    <3>2. /\ <<>> = IF r \in idle /\ ~b THEN <<o>> ELSE <<>>
          /\ 0 = IF r \in idle /\ ~b THEN 1 ELSE 0
      BY <2>2
    <3> QED BY <3>1, <3>2
  <2> QED BY <2>1, <2>2
<1>9. queue'["d2h"][r] = q \o (z \o f)
  <2>1. queue'["d2h"][r] = D2H(n, b, idle, r)
    BY Enqueues
  <2>2. Stage1(r, call_count + 1, n, b, r \in idle, a) = z \o f
    BY <1>4, <1>6, <1>8 DEF Stage1, ZeroHost, Push
  <2> QED BY <1>1, <2>1, <2>2 DEF D2H
<1>10. PICK t \in Seq(OpType) : Joins(t, z, f)
  BY Appended
<1>11. /\ Len(t) = e + n
       /\ \A y \in 1 .. n : t[e + y] = f[y]
       /\ e = 1 => t[1] = o
  BY <1>7, <1>8, <1>10 DEF Joins
<1>12. PICK s \in Seq(OpType) : Joins(s, q, t)
  BY Appended
<1>14. queue'["d2h"][r] = s
  BY <1>9, <1>10, <1>12 DEF Joins
<1>15. /\ Len(q) \in Nat /\ Len(s) = Len(q) + e + n
       /\ \A x \in 1 .. Len(q) : s[x] = q[x]
       /\ \A y \in 1 .. Len(t) : s[Len(q) + y] = t[y]
  BY <1>2, <1>11, <1>12 DEF Joins
<1>17. ASSUME NEW k \in 0 .. n - 1 PROVE s[Len(s) - (n - 1) + k] = Push(n, b, r, a, k)
  <2>1. k + 1 \in 1 .. n /\ (k + 1) - 1 = k /\ e + (k + 1) \in 1 .. Len(t)
    BY <1>2, <1>11
  <2>2. Len(s) - (n - 1) + k = Len(q) + (e + (k + 1))
    BY <1>2, <1>15
  <2>3. s[Len(s) - (n - 1) + k] = t[e + (k + 1)]
    BY <1>15, <2>1, <2>2
  <2> QED BY <1>7, <1>11, <2>1, <2>3
<1>18. e = 1 => s[Len(q) + 1] = o
  BY <1>2, <1>11, <1>15
<1>19. D2HGrowth(q, s, n, b, r \in idle, r, a)
  BY <1>4, <1>8, <1>15, <1>17, <1>18 DEF D2HGrowth
<1> QED BY <1>1, <1>14, <1>19

(* The operation that pulls chunk k of p, when d operations are on the      *)
(* stream of p to the host.                                                 *)
Pull(n, b, r, k, p, d) ==
    Op("h2d", call_count + 1, n, b, p, k, H2DAfter(r) \cup {<<"d2h", p, d - (n - 1) + k>>})

(* The stream from the host, q before a call and s after it. *)
H2DGrowth(q, s, n, b, r, d) ==
    /\ s \in Seq(OpType)
    /\ Len(s) >= Len(q)
    /\ \A x \in 1 .. Len(q) : s[x] = q[x]
    /\ \A x \in Len(q) + 1 .. Len(s) :
          \E k \in 0 .. n - 1, p \in Rank \ {r} : s[x] = Pull(n, b, r, k, p, d[p])
    /\ \A k \in 0 .. n - 1, p \in Rank \ {r} :
          \E x \in Len(q) + 1 .. Len(s) : s[x] = Pull(n, b, r, k, p, d[p])

(* That is how it grows. *)
LEMMA H2DGrows ==
    ASSUME StreamTypes, Recorded, NEW n \in 1 .. MaxChunks, NEW b \in BOOLEAN,
           NEW idle \in SUBSET Rank, NEW r \in Rank, CopyImpl(n, b, idle),
           NEW d, \A p \in Rank : d[p] = Len(queue'["d2h"][p]) /\ d[p] \in Nat /\ d[p] >= n
    PROVE  H2DGrowth(queue["h2d"][r], queue'["h2d"][r], n, b, r, d)
<1>1. PICK q \in Seq(OpType) : q = queue["h2d"][r]
  BY DEF StreamTypes, Engine
<1>2. NRanks \in Nat /\ MaxChunks \in Nat /\ n \in 1 .. MaxChunks /\ n \in Nat /\ n >= 1
  BY CopyAssumption
<1>3. call_count + 1 \in Nat /\ H2DAfter(r) \in SUBSET (Engine \X Rank \X Nat)
  <2>1. dev_tmp_kernel_done[r] \in Nat
    BY DEF StreamTypes, Recorded, Engine
  <2> QED BY <2>1 DEF StreamTypes, H2DAfter, Engine
<1>4. ASSUME NEW k \in 0 .. n - 1, NEW p \in Rank \ {r} PROVE Pull(n, b, r, k, p, d[p]) \in OpType
  <2>1. d[p] - (n - 1) + k \in Nat
    BY <1>2
  <2>2. H2DAfter(r) \cup {<<"d2h", p, d[p] - (n - 1) + k>>} \in SUBSET (Engine \X Rank \X Nat)
    BY <1>3, <2>1 DEF Engine
  <2> QED BY <1>2, <1>3, <2>2 DEF Pull, Op, OpType, Chunk
<1>5. PICK m \in Nat \ {0} : m = NRanks - 1
  BY PeersAll
<1>6. n * m \in Nat
  OBVIOUS
<1> DEFINE e(x) == Pull(n, b, r, (x - 1) \div m, Peers(r)[((x - 1) % m) + 1],
                        d[Peers(r)[((x - 1) % m) + 1]])
<1>7. ASSUME NEW x \in 1 .. n * m
      PROVE  \E k \in 0 .. n - 1, p \in Rank \ {r} : e(x) = Pull(n, b, r, k, p, d[p])
  <2>1. x - 1 \in Nat /\ x - 1 < n * m
    BY <1>6
  <2>2. (x - 1) \div m \in 0 .. n - 1 /\ (x - 1) % m \in 0 .. m - 1
    BY <1>2, <2>1, DivBelow
  <2>3. ((x - 1) % m) + 1 \in 1 .. NRanks - 1
    BY <1>2, <1>5, <2>2
  <2>4. Peers(r)[((x - 1) % m) + 1] \in Rank \ {r}
    BY <2>3, PeersAll
  <2> QED BY <2>2, <2>4
<1>8. ASSUME NEW k \in 0 .. n - 1, NEW p \in Rank \ {r}
      PROVE  \E x \in 1 .. n * m : e(x) = Pull(n, b, r, k, p, d[p])
  <2>1. PICK j \in 0 .. NRanks - 2 : Peers(r)[j + 1] = p
    BY PeersAll
  <2>2. j \in 0 .. m - 1 /\ k \in Nat
    BY <1>2, <1>5
  <2>3. (k * m + j) \div m = k /\ (k * m + j) % m = j
    BY <2>2, DivIs
  <2>4. (k + 1) * m <= n * m
    BY <1>2, ProductMonotone
  <2>5. (k + 1) * m = k * m + m /\ k * m \in Nat
    BY <2>2
  <2>6. PICK x \in 1 .. n * m : x - 1 = k * m + j
    <3>1. k * m + j + 1 \in 1 .. n * m /\ (k * m + j + 1) - 1 = k * m + j
      BY <1>6, <2>2, <2>4, <2>5
    <3> QED BY <3>1
  <2> QED BY <2>1, <2>3, <2>6
<1>9. PICK f \in Seq(OpType) : f = [x \in 1 .. n * m |-> e(x)]
  <2>1. \A x \in 1 .. n * m : e(x) \in OpType
    BY <1>4, <1>7
  <2> HIDE DEF e
  <2>2. [x \in 1 .. n * m |-> e(x)] \in Seq(OpType)
    BY <1>6, <2>1
  <2> QED BY <2>2
<1>10. Len(f) = n * m /\ \A x \in 1 .. n * m : f[x] = e(x)
  <2> HIDE DEF e
  <2> QED BY <1>6, <1>9
<1>11. Stage2(r, call_count + 1, n, b, Cpy(n, b, idle)) = f
  <2>1. \A p \in Rank, k \in 0 .. n - 1 : Cpy(n, b, idle)[p][k] = d[p] - (n - 1) + k
    BY Enqueues DEF Cpy
  <2> DEFINE u(x) == Op("h2d", call_count + 1, n, b, Peers(r)[((x - 1) % m) + 1], (x - 1) \div m,
                        H2DAfter(r) \cup {<<"d2h", Peers(r)[((x - 1) % m) + 1],
                            Cpy(n, b, idle)[Peers(r)[((x - 1) % m) + 1]][(x - 1) \div m]>>})
  <2>2. Stage2(r, call_count + 1, n, b, Cpy(n, b, idle)) = [x \in 1 .. n * m |-> u(x)]
    BY <1>5 DEF Stage2
  <2>3. ASSUME NEW x \in 1 .. n * m PROVE u(x) = e(x)
    <3>1. x - 1 \in Nat /\ x - 1 < n * m
      BY <1>6
    <3>2. PICK k \in 0 .. n - 1, j \in 0 .. m - 1 : (x - 1) \div m = k /\ (x - 1) % m = j
      BY <1>2, <3>1, DivBelow
    <3>3. PICK p \in Rank \ {r} : p = Peers(r)[j + 1]
      <4>1. j + 1 \in 1 .. NRanks - 1
        BY <1>2, <1>5
      <4> QED BY <4>1, PeersAll
    <3>4. Cpy(n, b, idle)[p][k] = d[p] - (n - 1) + k
      BY <2>1
    <3> QED BY <3>2, <3>3, <3>4 DEF Pull
  <2> HIDE DEF u, e
  <2> QED BY <1>9, <2>2, <2>3
<1>12. queue'["h2d"][r] = q \o f
  <2>1. queue'["h2d"][r] = H2D(n, b, idle, r)
    BY Enqueues
  <2> QED BY <1>1, <1>11, <2>1 DEF H2D
<1>13. PICK s \in Seq(OpType) : Joins(s, q, f)
  BY Appended
<1>14. /\ Len(s) = Len(q) + n * m /\ Len(q) \in Nat /\ Len(s) >= Len(q)
       /\ \A x \in 1 .. Len(q) : s[x] = q[x]
       /\ \A x \in Len(q) + 1 .. Len(s) : s[x] = f[x - Len(q)]
       /\ \A y \in 1 .. n * m : s[Len(q) + y] = f[y]
  BY <1>6, <1>10, <1>13 DEF Joins
<1> HIDE DEF e
<1>15. ASSUME NEW x \in Len(q) + 1 .. Len(s)
       PROVE  \E k \in 0 .. n - 1, p \in Rank \ {r} : s[x] = Pull(n, b, r, k, p, d[p])
  <2>1. x - Len(q) \in 1 .. n * m
    BY <1>6, <1>14
  <2> QED BY <1>7, <1>10, <1>14, <2>1
<1>16. ASSUME NEW k \in 0 .. n - 1, NEW p \in Rank \ {r}
       PROVE  \E x \in Len(q) + 1 .. Len(s) : s[x] = Pull(n, b, r, k, p, d[p])
  <2>1. PICK y \in 1 .. n * m : e(y) = Pull(n, b, r, k, p, d[p])
    BY <1>8
  <2>2. Len(q) + y \in Len(q) + 1 .. Len(s) /\ s[Len(q) + y] = f[y]
    BY <1>6, <1>14
  <2> QED BY <1>10, <2>1, <2>2
<1>17. queue'["h2d"][r] = s
  BY <1>12, <1>13 DEF Joins
<1>18. H2DGrowth(q, s, n, b, r, d)
  BY <1>14, <1>15, <1>16 DEF H2DGrowth
<1> QED BY <1>1, <1>17, <1>18

-----------------------------------------------------------------------------
(* The operations of a call, whichever stream they are on.                  *)

(* An operation of the call that comes next, on n chunks with wire type b.  *)
OfCall(g, r, o, n, b) ==
    o.call = call_count + 1 /\ o.chunks = n /\ o.bf16 = b /\ Belongs(g, r, o)

(* Stream g of rank r, s, has grown from q by operations of the next call.  *)
Grown(g, r, q, s, n, b) ==
    /\ s \in Seq(OpType) /\ Len(q) <= Len(s)
    /\ \A x \in 1 .. Len(q) : s[x] = q[x]
    /\ \A x \in Len(q) + 1 .. Len(s) : OfCall(g, r, s[x], n, b)

(* A call of copy_impl, by the numbers. *)
Call(n, b, idle) ==
    n \in 1 .. MaxChunks /\ b \in BOOLEAN /\ idle \in SUBSET Rank /\ CopyImpl(n, b, idle)

(* The compute stream grows by an add, which comes last and waits for all   *)
(* copies, and by what comes before it, which is ready to be copied.        *)
CompAdds(q, s, n, b, i, r, h, d) ==
    /\ Grown("comp", r, q, s, n, b)
    /\ Len(s) = Len(q) + (IF b THEN 3 ELSE 2)
    /\ s[Len(q) + 1] = First(n, b, i)
    /\ b => s[Len(q) + 2] = Prepare(n, b, i)
    /\ \A x \in Len(q) + 1 .. Len(s) : s[x].kind = "add" <=> x = Len(s)
    /\ s[Len(s)] = Last_(n, b, r, h, d)

(* That is what a call adds. *)
LEMMA CompNew ==
    ASSUME StreamTypes, NEW n, NEW b, NEW idle, Call(n, b, idle), NEW r \in Rank,
           NEW h \in Nat, NEW d \in Nat, h = Len(queue'["h2d"][r]), d = Len(queue'["d2h"][r])
    PROVE  /\ CompAdds(queue["comp"][r], queue'["comp"][r], n, b, r \in idle, r, h, d)
           /\ Len(Up(n, b, idle, r)) = Len(queue'["comp"][r]) - 1
<1>1. PICK q \in Seq(OpType) : q = queue["comp"][r]
  BY DEF StreamTypes, Engine
<1>2. PICK s : s = queue'["comp"][r]
  OBVIOUS
<1>3. n \in 1 .. MaxChunks /\ b \in BOOLEAN /\ idle \in SUBSET Rank /\ CopyImpl(n, b, idle)
  BY DEF Call
<1>4. PICK t \in {2, 3} : t = IF b THEN 3 ELSE 2
  <2>1. (IF b THEN 3 ELSE 2) \in {2, 3}
    BY <1>3
  <2> QED BY <2>1
<1>5. /\ s \in Seq(OpType)
      /\ Len(s) = Len(q) + t
      /\ \A x \in 1 .. Len(q) : s[x] = q[x]
      /\ s[Len(q) + 1] = First(n, b, r \in idle)
      /\ b => s[Len(q) + 2] = Prepare(n, b, r \in idle)
      /\ s[Len(s)] = Last_(n, b, r, h, d)
  <2>1. CompGrowth(queue["comp"][r], queue'["comp"][r], n, b, r \in idle, r, h, d)
    BY <1>3, CompGrows
  <2>2. CompGrowth(q, s, n, b, r \in idle, r, h, d)
    BY <1>1, <1>2, <2>1
  <2> QED BY <1>4, <2>2 DEF CompGrowth
<1>6. /\ OfCall("comp", r, First(n, b, r \in idle), n, b)
      /\ First(n, b, r \in idle).kind # "add"
  BY <1>3 DEF OfCall, Belongs, First, Op
<1>7. b => /\ OfCall("comp", r, Prepare(n, b, r \in idle), n, b)
           /\ Prepare(n, b, r \in idle).kind # "add"
  BY <1>3 DEF OfCall, Belongs, Prepare, Op
<1>8. /\ OfCall("comp", r, Last_(n, b, r, h, d), n, b)
      /\ Last_(n, b, r, h, d).kind = "add"
  BY <1>3 DEF OfCall, Belongs, Last_, Op
<1>9. b <=> t = 3
  BY <1>3, <1>4
<1>10. Len(q) \in Nat
  OBVIOUS
<1>11. ASSUME NEW x \in Len(q) + 1 .. Len(s)
       PROVE  OfCall("comp", r, s[x], n, b) /\ (s[x].kind = "add" <=> x = Len(s))
  <2>1. x = Len(q) + 1 \/ (x = Len(q) + 2 /\ t = 3) \/ x = Len(s)
    BY <1>5, <1>10, <1>11
  <2>2. CASE x = Len(s)
    BY <1>5, <1>8, <2>2
  <2>3. CASE x = Len(q) + 1
    <3>1. x # Len(s)
      BY <1>5, <1>10, <2>3
    <3> QED BY <1>5, <1>6, <2>3, <3>1
  <2>4. CASE x = Len(q) + 2 /\ t = 3
    <3>1. x # Len(s)
      BY <1>5, <1>10, <2>4
    <3>2. s[x] = Prepare(n, b, r \in idle)
      BY <1>5, <1>9, <2>4
    <3> QED BY <1>7, <1>9, <2>4, <3>1, <3>2
  <2> QED BY <2>1, <2>2, <2>3, <2>4
<1>12. Len(q) <= Len(s)
  BY <1>5, <1>10
<1>13. Grown("comp", r, q, s, n, b)
  BY <1>5, <1>11, <1>12 DEF Grown
<1>14. CompAdds(q, s, n, b, r \in idle, r, h, d)
  BY <1>4, <1>5, <1>11, <1>13 DEF CompAdds
<1>15. Len(Up(n, b, idle, r)) = Len(queue'["comp"][r]) - 1
  BY <1>3, CompGrows
<1> QED BY <1>1, <1>2, <1>14, <1>15

(* The stream to the host grows by the chunks in their order, after the     *)
(* zeros of a rank that has none.                                           *)
D2HAdds(q, s, n, b, i, r, a) ==
    /\ Grown("d2h", r, q, s, n, b)
    /\ Len(s) >= Len(q) + n
    /\ \A x \in Len(q) + 1 .. Len(s) :
          \/ x = Len(q) + 1 /\ x = Len(s) - n /\ s[x] = ZeroHost(n, b, r, a) /\ i /\ ~b
          \/ \E k \in 0 .. n - 1 : x = Len(s) - (n - 1) + k /\ s[x] = Push(n, b, r, a, k)
    /\ \A k \in 0 .. n - 1 : s[Len(s) - (n - 1) + k] = Push(n, b, r, a, k)
    /\ i /\ ~b => Len(s) - n = Len(q) + 1 /\ s[Len(q) + 1] = ZeroHost(n, b, r, a)

(* That is what a call adds. *)
LEMMA D2HNew ==
    ASSUME StreamTypes, Recorded, NEW n, NEW b, NEW idle, Call(n, b, idle), NEW r \in Rank,
           NEW a \in Nat, a = Len(Up(n, b, idle, r))
    PROVE  D2HAdds(queue["d2h"][r], queue'["d2h"][r], n, b, r \in idle, r, a)
<1>1. PICK q \in Seq(OpType) : q = queue["d2h"][r]
  BY DEF StreamTypes, Engine
<1>2. PICK s : s = queue'["d2h"][r]
  OBVIOUS
<1>3. /\ n \in 1 .. MaxChunks /\ b \in BOOLEAN /\ idle \in SUBSET Rank /\ CopyImpl(n, b, idle)
      /\ MaxChunks \in Nat
  BY CopyAssumption DEF Call
<1>4. PICK z \in {0, 1} : z = IF r \in idle /\ ~b THEN 1 ELSE 0
  <2>1. (IF r \in idle /\ ~b THEN 1 ELSE 0) \in {0, 1}
    OBVIOUS
  <2> QED BY <2>1
<1>5. /\ s \in Seq(OpType)
      /\ Len(s) = Len(q) + z + n
      /\ \A x \in 1 .. Len(q) : s[x] = q[x]
      /\ z = 1 => s[Len(q) + 1] = ZeroHost(n, b, r, a)
      /\ \A k \in 0 .. n - 1 : s[Len(s) - (n - 1) + k] = Push(n, b, r, a, k)
  <2>1. D2HGrowth(queue["d2h"][r], queue'["d2h"][r], n, b, r \in idle, r, a)
    BY <1>3, D2HGrows
  <2>2. D2HGrowth(q, s, n, b, r \in idle, r, a)
    BY <1>1, <1>2, <2>1
  <2> QED BY <1>4, <2>2 DEF D2HGrowth
<1>6. Len(q) \in Nat /\ n \in Nat /\ n >= 1
  BY <1>3
<1>7. r \in idle /\ ~b <=> z = 1
  BY <1>4
<1>8. ASSUME z = 1
      PROVE  OfCall("d2h", r, ZeroHost(n, b, r, a), n, b)
  BY <1>3, <1>6, <1>7, <1>8 DEF OfCall, Belongs, ZeroHost, Op
<1>9. \A k \in 0 .. n - 1 : OfCall("d2h", r, Push(n, b, r, a, k), n, b)
  BY <1>6 DEF OfCall, Belongs, Push, Op
<1>10. ASSUME NEW x \in Len(q) + 1 .. Len(s)
       PROVE  \/ x = Len(q) + 1 /\ x = Len(s) - n /\ s[x] = ZeroHost(n, b, r, a) /\ z = 1
              \/ \E k \in 0 .. n - 1 : x = Len(s) - (n - 1) + k /\ s[x] = Push(n, b, r, a, k)
  <2>1. CASE x <= Len(q) + z
    <3>1. z = 1 /\ x = Len(q) + 1 /\ x = Len(s) - n
      BY <1>5, <1>6, <2>1
    <3> QED BY <1>5, <3>1
  <2>2. CASE x > Len(q) + z
    <3>1. x - (Len(s) - (n - 1)) \in 0 .. n - 1 /\ x = Len(s) - (n - 1) + (x - (Len(s) - (n - 1)))
      BY <1>5, <1>6, <2>2
    <3>2. PICK k \in 0 .. n - 1 : x = Len(s) - (n - 1) + k
      BY <3>1
    <3> QED BY <1>5, <3>2
  <2> QED BY <1>6, <2>1, <2>2
<1>11. \A x \in Len(q) + 1 .. Len(s) : OfCall("d2h", r, s[x], n, b)
  BY <1>8, <1>9, <1>10
<1>12. Len(q) <= Len(s) /\ Len(s) >= Len(q) + n
  BY <1>5, <1>6
<1>13. Grown("d2h", r, q, s, n, b)
  BY <1>5, <1>11, <1>12 DEF Grown
<1>14. z = 1 => Len(s) - n = Len(q) + 1 /\ s[Len(q) + 1] = ZeroHost(n, b, r, a)
  BY <1>5, <1>6
<1>15. D2HAdds(q, s, n, b, r \in idle, r, a)
  BY <1>5, <1>7, <1>10, <1>12, <1>13, <1>14 DEF D2HAdds
<1> QED BY <1>1, <1>2, <1>15

(* The stream from the host grows by every chunk of every peer. *)
H2DAdds(q, s, n, b, r, d) ==
    /\ Grown("h2d", r, q, s, n, b)
    /\ \A x \in Len(q) + 1 .. Len(s) :
          \E k \in 0 .. n - 1, p \in Rank \ {r} : s[x] = Pull(n, b, r, k, p, d[p])
    /\ \A k \in 0 .. n - 1, p \in Rank \ {r} :
          \E x \in Len(q) + 1 .. Len(s) : s[x] = Pull(n, b, r, k, p, d[p])

(* That is what a call adds. *)
LEMMA H2DNew ==
    ASSUME StreamTypes, Recorded, NEW n, NEW b, NEW idle, Call(n, b, idle), NEW r \in Rank,
           NEW d, \A p \in Rank : d[p] = Len(queue'["d2h"][p]) /\ d[p] \in Nat /\ d[p] >= n
    PROVE  H2DAdds(queue["h2d"][r], queue'["h2d"][r], n, b, r, d)
<1>1. PICK q \in Seq(OpType) : q = queue["h2d"][r]
  BY DEF StreamTypes, Engine
<1>2. PICK s : s = queue'["h2d"][r]
  OBVIOUS
<1>3. /\ n \in 1 .. MaxChunks /\ b \in BOOLEAN /\ idle \in SUBSET Rank /\ CopyImpl(n, b, idle)
      /\ MaxChunks \in Nat
  BY CopyAssumption DEF Call
<1>4. /\ s \in Seq(OpType)
      /\ Len(s) >= Len(q)
      /\ \A x \in 1 .. Len(q) : s[x] = q[x]
      /\ \A x \in Len(q) + 1 .. Len(s) :
            \E k \in 0 .. n - 1, p \in Rank \ {r} : s[x] = Pull(n, b, r, k, p, d[p])
      /\ \A k \in 0 .. n - 1, p \in Rank \ {r} :
            \E x \in Len(q) + 1 .. Len(s) : s[x] = Pull(n, b, r, k, p, d[p])
  <2>1. H2DGrowth(queue["h2d"][r], queue'["h2d"][r], n, b, r, d)
    BY <1>3, H2DGrows
  <2>2. H2DGrowth(q, s, n, b, r, d)
    BY <1>1, <1>2, <2>1
  <2> QED BY <2>2 DEF H2DGrowth
<1>5. \A k \in 0 .. n - 1, p \in Rank \ {r} : OfCall("h2d", r, Pull(n, b, r, k, p, d[p]), n, b)
  BY <1>3 DEF OfCall, Belongs, Pull, Op
<1>6. \A x \in Len(q) + 1 .. Len(s) : OfCall("h2d", r, s[x], n, b)
  BY <1>4, <1>5
<1>7. Len(q) <= Len(s)
  BY <1>4
<1>8. Grown("h2d", r, q, s, n, b)
  BY <1>4, <1>6, <1>7 DEF Grown
<1>9. H2DAdds(q, s, n, b, r, d)
  BY <1>4, <1>8 DEF H2DAdds
<1> QED BY <1>1, <1>2, <1>9

(* The compute stream before the hand-off has a length. *)
LEMMA UpLength ==
    ASSUME StreamTypes, NEW n, NEW b, NEW idle, Call(n, b, idle), NEW r \in Rank
    PROVE  Len(Up(n, b, idle, r)) \in Nat
<1>1. PICK q \in Seq(OpType) : q = queue["comp"][r]
  BY DEF StreamTypes, Engine
<1>2. /\ NRanks \in Nat /\ MaxChunks \in Nat /\ 0 \in Rank /\ 0 \in Chunk /\ n \in 1 .. MaxChunks
      /\ b \in BOOLEAN /\ call_count + 1 \in Nat
  BY CopyAssumption DEF Rank, Chunk, Call, StreamTypes
<1>3. PICK a \in OpType : a = First(n, b, r \in idle)
  <2>1. (IF r \in idle THEN "scratch" ELSE "produce") \in {"scratch", "produce"}
    OBVIOUS
  <2>2. First(n, b, r \in idle) \in OpType
    BY <1>2, <2>1 DEF First, Op, OpType
  <2> QED BY <2>2
<1>4. PICK e \in OpType : e = Prepare(n, b, r \in idle)
  <2>1. (IF r \in idle THEN "zero" ELSE "convert") \in {"zero", "convert"}
    OBVIOUS
  <2>2. Prepare(n, b, r \in idle) \in OpType
    BY <1>2, <2>1 DEF Prepare, Op, OpType
  <2> QED BY <2>2
<1>5. Up(n, b, idle, r) = q \o (<<a>> \o (IF b THEN <<e>> ELSE <<>>))
  BY <1>1, <1>3, <1>4 DEF Up, Upstream, First, Prepare
<1>6. (<<a>> \o <<e>>) \in Seq(OpType) /\ (<<a>> \o <<>>) \in Seq(OpType)
  OBVIOUS
<1>7. PICK f \in Seq(OpType) : f = <<a>> \o (IF b THEN <<e>> ELSE <<>>)
  <2>1. CASE b
    BY <1>6, <2>1
  <2>2. CASE ~b
    BY <1>6, <2>2
  <2> QED BY <2>1, <2>2
<1>8. PICK s \in Seq(OpType) : Joins(s, q, f)
  BY Appended
<1> QED BY <1>5, <1>7, <1>8 DEF Joins

Lengths(g) == [r \in Rank |-> Len(queue[g][r])]

(* What a call of copy_impl adds to the streams. *)
LEMMA CallAdds ==
    ASSUME StreamTypes, Recorded, NEW n, NEW b, NEW idle, Call(n, b, idle)
    PROVE  \A r \in Rank :
              /\ CompAdds(queue["comp"][r], queue'["comp"][r], n, b, r \in idle, r,
                          Len(queue'["h2d"][r]), Len(queue'["d2h"][r]))
              /\ D2HAdds(queue["d2h"][r], queue'["d2h"][r], n, b, r \in idle, r,
                         Len(queue'["comp"][r]) - 1)
              /\ H2DAdds(queue["h2d"][r], queue'["h2d"][r], n, b, r, Lengths("d2h")')
<1>1. n \in Nat /\ n >= 1
  BY CopyAssumption DEF Call
<1>2. ASSUME NEW r \in Rank
      PROVE  \E a \in Nat : /\ a = Len(Up(n, b, idle, r))
                            /\ D2HAdds(queue["d2h"][r], queue'["d2h"][r], n, b, r \in idle, r, a)
                            /\ Len(queue'["d2h"][r]) \in Nat
                            /\ Len(queue'["d2h"][r]) >= n
  <2>1. PICK a \in Nat : a = Len(Up(n, b, idle, r))
    BY UpLength
  <2>2. D2HAdds(queue["d2h"][r], queue'["d2h"][r], n, b, r \in idle, r, a)
    BY <2>1, D2HNew
  <2>3. PICK q \in Seq(OpType) : q = queue["d2h"][r]
    BY DEF StreamTypes, Engine
  <2>4. PICK s : s = queue'["d2h"][r]
    OBVIOUS
  <2>5. s \in Seq(OpType) /\ Len(s) >= Len(q) + n
    BY <2>2, <2>3, <2>4 DEF D2HAdds, Grown
  <2>6. Len(s) \in Nat /\ Len(q) \in Nat
    BY <2>5
  <2>7. Len(s) >= n
    BY <1>1, <2>5, <2>6
  <2> QED BY <2>1, <2>2, <2>4, <2>6, <2>7
<1>3. ASSUME NEW r \in Rank
      PROVE  H2DAdds(queue["h2d"][r], queue'["h2d"][r], n, b, r, Lengths("d2h")')
  <2>1. PICK d : d = Lengths("d2h")'
    OBVIOUS
  <2>2. \A p \in Rank : d[p] = Len(queue'["d2h"][p]) /\ d[p] \in Nat /\ d[p] >= n
    BY <1>2, <2>1 DEF Lengths
  <2>3. H2DAdds(queue["h2d"][r], queue'["h2d"][r], n, b, r, d)
    BY <2>2, H2DNew
  <2> QED BY <2>1, <2>3
<1>4. ASSUME NEW r \in Rank
      PROVE  /\ CompAdds(queue["comp"][r], queue'["comp"][r], n, b, r \in idle, r,
                         Len(queue'["h2d"][r]), Len(queue'["d2h"][r]))
             /\ Len(Up(n, b, idle, r)) = Len(queue'["comp"][r]) - 1
  <2>1. Len(queue'["h2d"][r]) \in Nat
    <3>1. PICK s : s = queue'["h2d"][r]
      OBVIOUS
    <3>2. s \in Seq(OpType)
      BY <1>3, <3>1 DEF H2DAdds, Grown
    <3> QED BY <3>1, <3>2
  <2>2. Len(queue'["d2h"][r]) \in Nat
    BY <1>2
  <2> QED BY <2>1, <2>2, CompNew
<1>5. ASSUME NEW r \in Rank
      PROVE  D2HAdds(queue["d2h"][r], queue'["d2h"][r], n, b, r \in idle, r,
                     Len(queue'["comp"][r]) - 1)
  BY <1>2, <1>4
<1> QED BY <1>3, <1>4, <1>5

-----------------------------------------------------------------------------
(* The order that the events impose.                                        *)

(* Operation q on stream h of p is done before o on stream g of r begins:   *)
(* the compute stream is ahead of the copies until the add, the copies to   *)
(* the host are not made while an earlier sum is pulled, nor copies from it *)
(* before the chunk is there or while an earlier sum is added.              *)
Precedes(h, p, q, g, r, o) ==
    \/ g = "comp" /\ h # "comp" /\ p = r /\ (q.call < o.call \/ (q.call = o.call /\ o.kind = "add"))
    \/ g = "d2h" /\ h = "comp" /\ p = r /\ (q.call < o.call \/ (q.call = o.call /\ q.kind # "add"))
    \/ g = "d2h" /\ h = "h2d" /\ p # r /\ q.call < o.call
    \/ g = "h2d" /\ h = "comp" /\ p = r /\ q.call < o.call
    \/ /\ g = "h2d" /\ h = "d2h" /\ p = o.peer
       /\ q.call < o.call \/ (q.call = o.call /\ (q.kind = "zero" \/ q.chunk <= o.chunk))

(* Operation x on stream g of r, or one before it there, waits for y on     *)
(* stream h of p.                                                           *)
Covered(g, r, x, h, p, y) ==
    \E z \in 1 .. x : \E n \in Nat : y <= n /\ <<h, p, n>> \in queue[g][r][z].after

Waits ==
    \A g, h \in Engine, r, p \in Rank : \A x \in Pos(g, r), y \in Pos(h, p) :
        Precedes(h, p, queue[h][p][y], g, r, queue[g][r][x]) => Covered(g, r, x, h, p, y)

(* The last operation on the compute stream is the add of the last call. *)
LastAdd ==
    call_count > 0 => \A r \in Rank : LET o == queue["comp"][r][Len(queue["comp"][r])] IN
                          /\ Len(queue["comp"][r]) > 0
                          /\ o.kind = "add" /\ o.call = call_count

(* What has run had what it waits for. *)
Kept ==
    \A g \in Engine, r \in Rank : \A x \in 1 .. ran[g][r] :
        \A w \in queue[g][r][x].after : ran[w[1]][w[2]] >= w[3]

Ordered == StreamTypes /\ Recorded /\ LastAdd /\ Waits /\ Kept

(* The streams are sequences of operations. *)
LEMMA StreamFacts ==
    ASSUME StreamTypes, NEW g \in Engine, NEW r \in Rank
    PROVE  /\ queue[g][r] \in Seq(OpType)
           /\ Len(queue[g][r]) \in Nat
           /\ ran[g][r] \in Nat /\ ran[g][r] <= Len(queue[g][r])
           /\ \A x \in Pos(g, r) : /\ queue[g][r][x] \in OpType
                                   /\ queue[g][r][x].call \in 1 .. call_count
                                   /\ Belongs(g, r, queue[g][r][x])
<1>1. queue[g][r] \in Seq(OpType)
  BY DEF StreamTypes
<1>2. PICK q \in Seq(OpType) : q = queue[g][r]
  BY <1>1
<1>3. Len(q) \in Nat /\ \A x \in 1 .. Len(q) : q[x] \in OpType
  OBVIOUS
<1> QED BY <1>1, <1>2, <1>3 DEF StreamTypes, Pos

(* In a call every stream grows. *)
LEMMA CallGrows ==
    ASSUME StreamTypes, Recorded, NEW n, NEW b, NEW idle, Call(n, b, idle)
    PROVE  \A g \in Engine, r \in Rank : Grown(g, r, queue[g][r], queue'[g][r], n, b)
<1>1. ASSUME NEW r \in Rank
      PROVE  /\ Grown("comp", r, queue["comp"][r], queue'["comp"][r], n, b)
             /\ Grown("d2h", r, queue["d2h"][r], queue'["d2h"][r], n, b)
             /\ Grown("h2d", r, queue["h2d"][r], queue'["h2d"][r], n, b)
  BY CallAdds DEF CompAdds, D2HAdds, H2DAdds
<1> QED BY <1>1 DEF Engine

(* Old and new operations of a stream in a call. *)
LEMMA CallPositions ==
    ASSUME StreamTypes, Recorded, NEW n, NEW b, NEW idle, Call(n, b, idle),
           NEW g \in Engine, NEW r \in Rank, NEW x \in Pos(g, r)'
    PROVE  /\ x \in Nat
           /\ x \in Pos(g, r) => queue'[g][r][x] = queue[g][r][x]
           /\ x \notin Pos(g, r) => /\ x \in Len(queue[g][r]) + 1 .. Len(queue'[g][r])
                                    /\ OfCall(g, r, queue'[g][r][x], n, b)
<1>1. PICK q \in Seq(OpType) : q = queue[g][r]
  BY StreamFacts
<1>2. PICK s : s = queue'[g][r]
  OBVIOUS
<1>3. Grown(g, r, q, s, n, b)
  BY <1>1, <1>2, CallGrows
<1>4. s \in Seq(OpType) /\ Len(s) \in Nat /\ Len(q) \in Nat /\ x \in 1 .. Len(s)
  BY <1>2, <1>3 DEF Grown, Pos
<1>5. x \in 1 .. Len(q) \/ x \in Len(q) + 1 .. Len(s)
  BY <1>4
<1> QED BY <1>1, <1>2, <1>3, <1>4, <1>5 DEF Grown, Pos

(* The streams are typed after a call. *)
LEMMA CallTypes ==
    ASSUME StreamTypes, Recorded, NEW n, NEW b, NEW idle, Call(n, b, idle)
    PROVE  StreamTypes' /\ Recorded'
<1>1. /\ call_count' = call_count + 1 /\ ran' = ran
      /\ queue' = [g \in Engine |-> [r \in Rank |-> queue'[g][r]]]
      /\ host_large_read_done' = [r \in Rank |-> Len(queue'["h2d"][r])]
      /\ dev_tmp_kernel_done' = [r \in Rank |-> Len(queue'["comp"][r])]
  BY Enqueues DEF Call
<1>2. \A g \in Engine, r \in Rank : queue'[g][r] \in Seq(OpType)
  BY CallGrows DEF Grown
<1>3. queue' \in [Engine -> [Rank -> Seq(OpType)]]
  <2>1. \A g \in Engine : [r \in Rank |-> queue'[g][r]] \in [Rank -> Seq(OpType)]
    BY <1>2
  <2> QED BY <1>1, <2>1
<1>4. call_count' \in Nat
  BY <1>1 DEF StreamTypes
<1>5. ASSUME NEW g \in Engine, NEW r \in Rank PROVE ran[g][r] <= Len(queue'[g][r])
  <2>1. Len(queue[g][r]) <= Len(queue'[g][r]) /\ queue'[g][r] \in Seq(OpType)
    BY CallGrows DEF Grown
  <2>2. Len(queue'[g][r]) \in Nat
    BY <2>1
  <2>3. ran[g][r] \in Nat /\ Len(queue[g][r]) \in Nat /\ ran[g][r] <= Len(queue[g][r])
    BY StreamFacts
  <2> QED BY <2>1, <2>2, <2>3
<1>6. ASSUME NEW g \in Engine, NEW r \in Rank, NEW x \in Pos(g, r)'
      PROVE  queue'[g][r][x].call \in 1 .. call_count' /\ Belongs(g, r, queue'[g][r][x])
  <2>1. call_count \in Nat
    BY DEF StreamTypes
  <2>2. CASE x \in Pos(g, r)
    <3>1. queue'[g][r][x] = queue[g][r][x]
      BY <2>2, CallPositions
    <3>2. queue[g][r][x].call \in 1 .. call_count /\ Belongs(g, r, queue[g][r][x])
      BY <2>2, StreamFacts
    <3> QED BY <1>1, <2>1, <3>1, <3>2
  <2>3. CASE x \notin Pos(g, r)
    <3>1. OfCall(g, r, queue'[g][r][x], n, b)
      BY <2>3, CallPositions
    <3> QED BY <1>1, <2>1, <3>1 DEF OfCall
  <2> QED BY <2>2, <2>3
<1>7. StreamTypes'
  BY <1>1, <1>3, <1>4, <1>5, <1>6 DEF StreamTypes
<1>8. Recorded'
  BY <1>1 DEF Recorded
<1> QED BY <1>7, <1>8

(* After a call the compute stream ends with its add. *)
LEMMA CallLastAdd ==
    ASSUME StreamTypes, Recorded, NEW n, NEW b, NEW idle, Call(n, b, idle), NEW r \in Rank
    PROVE  LET s == queue'["comp"][r] IN
           /\ Len(s) \in Nat /\ Len(s) > Len(queue["comp"][r])
           /\ s[Len(s)].kind = "add" /\ s[Len(s)].call = call_count + 1
           /\ s[Len(s)].after = AddAfter(r, Len(queue'["h2d"][r]), Len(queue'["d2h"][r]))
<1>1. PICK q \in Seq(OpType) : q = queue["comp"][r]
  BY StreamFacts DEF Engine
<1>2. PICK s : s = queue'["comp"][r]
  OBVIOUS
<1>3. PICK h, d : h = Len(queue'["h2d"][r]) /\ d = Len(queue'["d2h"][r])
  OBVIOUS
<1>4. CompAdds(q, s, n, b, r \in idle, r, h, d)
  BY <1>1, <1>2, <1>3, CallAdds
<1>5. PICK t \in {2, 3} : t = IF b THEN 3 ELSE 2
  <2>1. (IF b THEN 3 ELSE 2) \in {2, 3}
    BY DEF Call
  <2> QED BY <2>1
<1>6. s \in Seq(OpType) /\ Len(s) = Len(q) + t /\ s[Len(s)] = Last_(n, b, r, h, d)
  BY <1>4, <1>5 DEF CompAdds, Grown
<1>7. Len(s) \in Nat /\ Len(s) > Len(q)
  BY <1>6
<1>8. s[Len(s)].kind = "add" /\ s[Len(s)].call = call_count + 1 /\ s[Len(s)].after = AddAfter(r, h, d)
  BY <1>6 DEF Last_, Op
<1> QED BY <1>1, <1>2, <1>3, <1>7, <1>8

(* Nothing that has run is touched by a call. *)
LEMMA CallKept ==
    ASSUME StreamTypes, Recorded, Kept, NEW n, NEW b, NEW idle, Call(n, b, idle)
    PROVE  Kept' /\ LastAdd'
<1>1. call_count' = call_count + 1 /\ ran' = ran
  BY Enqueues DEF Call
<1>2. ASSUME NEW g \in Engine, NEW r \in Rank, NEW x \in 1 .. ran[g][r]
      PROVE  queue'[g][r][x] = queue[g][r][x]
  <2>1. x \in Pos(g, r)
    BY StreamFacts DEF Pos
  <2>2. Grown(g, r, queue[g][r], queue'[g][r], n, b)
    BY CallGrows
  <2> QED BY <2>1, <2>2 DEF Grown, Pos
<1>3. Kept'
  BY <1>1, <1>2 DEF Kept
<1>4. \A r \in Rank : Len(queue["comp"][r]) \in Nat
  BY StreamFacts DEF Engine
<1>5. ASSUME NEW r \in Rank
      PROVE  LET o == queue'["comp"][r][Len(queue'["comp"][r])] IN
             /\ Len(queue'["comp"][r]) > 0
             /\ o.kind = "add" /\ o.call = call_count'
  BY <1>1, <1>4, CallLastAdd
<1>6. LastAdd'
  BY <1>5 DEF LastAdd
<1> QED BY <1>3, <1>6

(* What is before an operation is of no later call. *)
LEMMA PrecedesCall ==
    ASSUME NEW h, NEW p, NEW q \in OpType, NEW g, NEW r, NEW o \in OpType, Precedes(h, p, q, g, r, o)
    PROVE  q.call <= o.call
BY DEF Precedes, OpType

(* A new operation on the compute stream waits for what precedes it: its    *)
(* add for all copies, the others through the add of the call before.       *)
LEMMA CompCovered ==
    ASSUME Ordered, NEW n, NEW b, NEW idle, Call(n, b, idle), StreamTypes',
           NEW h \in Engine, NEW r \in Rank, NEW p \in Rank,
           NEW x \in Pos("comp", r)', x \notin Pos("comp", r), NEW y \in Pos(h, p)',
           Precedes(h, p, queue'[h][p][y], "comp", r, queue'["comp"][r][x])
    PROVE  Covered("comp", r, x, h, p, y)'
<1> USE DEF Ordered
<1>1. "comp" \in Engine /\ h \in {"d2h", "h2d"} /\ p = r
  BY DEF Precedes, Engine
<1>2. /\ x \in Nat /\ x \in Len(queue["comp"][r]) + 1 .. Len(queue'["comp"][r])
      /\ queue'["comp"][r][x].call = call_count + 1
  BY <1>1, CallPositions DEF OfCall
<1>3. y \in Nat /\ y \in 1 .. Len(queue'[h][r]) /\ Len(queue'[h][r]) \in Nat
  <2>1. y \in Nat
    BY <1>1, CallPositions
  <2>2. queue'[h][r] \in Seq(OpType)
    BY <1>1, CallGrows DEF Grown
  <2>3. Len(queue'[h][r]) \in Nat
    BY <2>2
  <2> QED BY <1>1, <2>1, <2>3 DEF Pos
<1>4. CASE x = Len(queue'["comp"][r])
  <2>1. <<h, r, Len(queue'[h][r])>> \in queue'["comp"][r][x].after
    BY <1>1, <1>4, CallLastAdd DEF AddAfter
  <2>2. x \in 1 .. x
    BY <1>2, StreamFacts, <1>1
  <2>3. PICK l \in Nat : l = Len(queue'[h][r])
    BY <1>3
  <2>4. y <= l /\ <<h, p, l>> \in queue'["comp"][r][x].after
    BY <1>1, <1>3, <2>1, <2>3
  <2> QED BY <2>2, <2>4 DEF Covered
<1>5. CASE x # Len(queue'["comp"][r])
  <2>1. queue'["comp"][r][x].kind # "add"
    <3>1. PICK q : q = queue["comp"][r]
      OBVIOUS
    <3>2. PICK s : s = queue'["comp"][r]
      OBVIOUS
    <3>3. PICK e, d : CompAdds(q, s, n, b, r \in idle, r, e, d)
      BY <3>1, <3>2, CallAdds
    <3> QED BY <1>2, <1>5, <3>1, <3>2, <3>3 DEF CompAdds
  <2>2. queue'[h][r][y].call < call_count + 1
    BY <1>1, <1>2, <2>1 DEF Precedes
  <2>3. y \in Pos(h, r) /\ queue'[h][r][y] = queue[h][r][y]
    <3>1. ASSUME y \notin Pos(h, r) PROVE FALSE
      <4>1. queue'[h][r][y].call = call_count + 1
        BY <1>1, <3>1, CallPositions DEF OfCall
      <4> QED BY <2>2, <4>1 DEF StreamTypes
    <3> QED BY <1>1, <3>1, CallPositions
  <2>4. call_count \in Nat /\ queue[h][r][y].call \in 1 .. call_count
    BY <1>1, <2>3, StreamFacts DEF StreamTypes
  <2>5. PICK l \in Nat : l = Len(queue["comp"][r]) /\ l > 0 /\ l \in Pos("comp", r)
    <3>1. Len(queue["comp"][r]) \in Nat /\ Len(queue["comp"][r]) > 0
      BY <1>1, <2>4, StreamFacts DEF LastAdd
    <3> QED BY <3>1 DEF Pos
  <2>6. queue["comp"][r][l].kind = "add" /\ queue["comp"][r][l].call = call_count
    BY <2>4, <2>5 DEF LastAdd
  <2>7. Precedes(h, r, queue[h][r][y], "comp", r, queue["comp"][r][l])
    BY <1>1, <2>4, <2>6 DEF Precedes
  <2>8. Covered("comp", r, l, h, r, y)
    BY <1>1, <2>3, <2>5, <2>7 DEF Waits
  <2>9. PICK z \in 1 .. l, k \in Nat : y <= k /\ <<h, r, k>> \in queue["comp"][r][z].after
    BY <2>8 DEF Covered
  <2>10. z \in 1 .. x /\ z \in Pos("comp", r)
    BY <1>2, <2>5 DEF Pos
  <2>11. queue'["comp"][r][z] = queue["comp"][r][z]
    <3>1. Grown("comp", r, queue["comp"][r], queue'["comp"][r], n, b)
      BY <1>1, CallGrows
    <3> QED BY <2>10, <3>1 DEF Grown, Pos
  <2> QED BY <1>1, <2>9, <2>10, <2>11 DEF Covered
<1> QED BY <1>4, <1>5

(* What precedes a new operation is as old as it, or was there before. *)
LEMMA PrecedesOld ==
    ASSUME Ordered, NEW n, NEW b, NEW idle, Call(n, b, idle),
           NEW h \in Engine, NEW p \in Rank, NEW y \in Pos(h, p)', queue'[h][p][y].call # call_count + 1
    PROVE  /\ y \in Pos(h, p) /\ queue'[h][p][y] = queue[h][p][y]
           /\ y <= Len(queue[h][p]) /\ Len(queue[h][p]) \in Nat /\ y \in Nat
<1> USE DEF Ordered
<1>1. y \in Pos(h, p)
  <2>1. ASSUME y \notin Pos(h, p) PROVE FALSE
    BY <2>1, CallPositions DEF OfCall
  <2> QED BY <2>1
<1>2. queue'[h][p][y] = queue[h][p][y] /\ y \in Nat
  BY <1>1, CallPositions
<1>3. Len(queue[h][p]) \in Nat
  BY StreamFacts
<1> QED BY <1>1, <1>2, <1>3 DEF Pos

(* One number that is waited for covers what is not beyond it. *)
LEMMA CoveredBy ==
    ASSUME NEW g, NEW r, NEW x \in Nat \ {0}, NEW h, NEW p, NEW y \in Nat, NEW l \in Nat, y <= l,
           <<h, p, l>> \in queue'[g][r][x].after
    PROVE  Covered(g, r, x, h, p, y)'
<1>1. x \in 1 .. x
  OBVIOUS
<1> QED BY <1>1 DEF Covered

(* A new copy to the host waits for what precedes it. *)
LEMMA D2HCovered ==
    ASSUME Ordered, NEW n, NEW b, NEW idle, Call(n, b, idle), StreamTypes',
           NEW h \in Engine, NEW r \in Rank, NEW p \in Rank,
           NEW x \in Pos("d2h", r)', x \notin Pos("d2h", r), NEW y \in Pos(h, p)',
           Precedes(h, p, queue'[h][p][y], "d2h", r, queue'["d2h"][r][x])
    PROVE  Covered("d2h", r, x, h, p, y)'
<1> USE DEF Ordered
<1>1. "d2h" \in Engine /\ "comp" \in Engine /\ "h2d" \in Engine
  BY DEF Engine
<1>2. /\ x \in Nat \ {0} /\ x \in Len(queue["d2h"][r]) + 1 .. Len(queue'["d2h"][r])
      /\ queue'["d2h"][r][x].call = call_count + 1
  BY <1>1, CallPositions DEF OfCall, Pos
<1>3. PICK l \in Nat : l = Len(queue'["comp"][r]) - 1 /\ Len(queue'["comp"][r]) = l + 1
  <2>1. Len(queue'["comp"][r]) \in Nat /\ Len(queue'["comp"][r]) > Len(queue["comp"][r])
    BY CallLastAdd
  <2>2. Len(queue["comp"][r]) \in Nat
    BY <1>1, StreamFacts
  <2>3. Len(queue'["comp"][r]) - 1 \in Nat /\ Len(queue'["comp"][r]) = (Len(queue'["comp"][r]) - 1) + 1
    BY <2>1, <2>2
  <2> QED BY <2>3
<1>4. queue'["d2h"][r][x].after = D2HAfter(r, l)
  <2>1. PICK q : q = queue["d2h"][r]
    OBVIOUS
  <2>2. PICK s : s = queue'["d2h"][r]
    OBVIOUS
  <2>3. D2HAdds(q, s, n, b, r \in idle, r, l)
    BY <1>3, <2>1, <2>2, CallAdds
  <2>4. s[x] = ZeroHost(n, b, r, l) \/ \E k \in 0 .. n - 1 : s[x] = Push(n, b, r, l, k)
    BY <1>2, <2>1, <2>2, <2>3 DEF D2HAdds
  <2>5. /\ ZeroHost(n, b, r, l).after = D2HAfter(r, l)
        /\ \A k \in 0 .. n - 1 : Push(n, b, r, l, k).after = D2HAfter(r, l)
    BY DEF ZeroHost, Push, Op
  <2>6. s[x].after = D2HAfter(r, l)
    BY <2>4, <2>5
  <2> QED BY <2>2, <2>6
<1>5. CASE h = "comp" /\ p = r
  <2>1. y # l + 1
    <3>1. ASSUME y = l + 1 PROVE FALSE
      <4>1. queue'["comp"][r][y].kind = "add" /\ queue'["comp"][r][y].call = call_count + 1
        BY <1>3, <3>1, CallLastAdd
      <4>2. call_count + 1 \in Nat
        BY DEF StreamTypes
      <4> QED BY <1>2, <1>5, <4>1, <4>2 DEF Precedes
    <3> QED BY <3>1
  <2>2. y \in Nat /\ y <= l
    <3>1. y \in 1 .. l + 1
      BY <1>3, <1>5 DEF Pos
    <3> QED BY <2>1, <3>1
  <2>3. <<"comp", r, l>> \in queue'["d2h"][r][x].after
    BY <1>4 DEF D2HAfter
  <2> QED BY <1>2, <1>5, <2>2, <2>3, CoveredBy
<1>6. CASE h = "h2d" /\ p # r /\ queue'["h2d"][p][y].call < call_count + 1
  <2>1. queue'["h2d"][p][y].call # call_count + 1
    BY <1>6 DEF StreamTypes
  <2>2. /\ y <= Len(queue["h2d"][p]) /\ Len(queue["h2d"][p]) \in Nat /\ y \in Nat
    BY <1>1, <1>6, <2>1, PrecedesOld
  <2>3. <<"h2d", p, Len(queue["h2d"][p])>> \in queue'["d2h"][r][x].after
    BY <1>4, <1>6 DEF D2HAfter, Recorded
  <2> QED BY <1>2, <1>6, <2>2, <2>3, CoveredBy
<1> QED BY <1>2, <1>5, <1>6 DEF Precedes

(* A new copy from the host waits for what precedes it. *)
LEMMA H2DCovered ==
    ASSUME Ordered, NEW n, NEW b, NEW idle, Call(n, b, idle), StreamTypes',
           NEW h \in Engine, NEW r \in Rank, NEW p \in Rank,
           NEW x \in Pos("h2d", r)', x \notin Pos("h2d", r), NEW y \in Pos(h, p)',
           Precedes(h, p, queue'[h][p][y], "h2d", r, queue'["h2d"][r][x])
    PROVE  Covered("h2d", r, x, h, p, y)'
<1> USE DEF Ordered
<1>1. "d2h" \in Engine /\ "comp" \in Engine /\ "h2d" \in Engine
  BY DEF Engine
<1>2. /\ x \in Nat \ {0} /\ x \in Len(queue["h2d"][r]) + 1 .. Len(queue'["h2d"][r])
      /\ queue'["h2d"][r][x].call = call_count + 1
  BY <1>1, CallPositions DEF OfCall, Pos
<1>3. PICK d : d = Lengths("d2h")'
  OBVIOUS
<1>4. PICK k \in 0 .. n - 1, e \in Rank \ {r} : queue'["h2d"][r][x] = Pull(n, b, r, k, e, d[e])
  <2>1. PICK q : q = queue["h2d"][r]
    OBVIOUS
  <2>2. PICK s : s = queue'["h2d"][r]
    OBVIOUS
  <2>3. H2DAdds(q, s, n, b, r, d)
    BY <1>3, <2>1, <2>2, CallAdds
  <2> QED BY <1>2, <2>1, <2>2, <2>3 DEF H2DAdds
<1>5. /\ queue'["h2d"][r][x].after = H2DAfter(r) \cup {<<"d2h", e, d[e] - (n - 1) + k>>}
      /\ queue'["h2d"][r][x].peer = e /\ queue'["h2d"][r][x].chunk = k
  BY <1>4 DEF Pull, Op
<1>6. CASE h = "comp" /\ p = r /\ queue'["comp"][r][y].call < call_count + 1
  <2>1. queue'["comp"][r][y].call # call_count + 1
    BY <1>6 DEF StreamTypes
  <2>2. /\ y <= Len(queue["comp"][r]) /\ Len(queue["comp"][r]) \in Nat /\ y \in Nat
    BY <1>1, <1>6, <2>1, PrecedesOld
  <2>3. <<"comp", r, Len(queue["comp"][r])>> \in queue'["h2d"][r][x].after
    BY <1>5 DEF H2DAfter, Recorded
  <2> QED BY <1>2, <1>6, <2>2, <2>3, CoveredBy
<1>7. CASE /\ h = "d2h" /\ p = e
           /\ \/ queue'["d2h"][e][y].call < call_count + 1
              \/ /\ queue'["d2h"][e][y].call = call_count + 1
                 /\ queue'["d2h"][e][y].kind = "zero" \/ queue'["d2h"][e][y].chunk <= k
  <2>1. PICK q \in Seq(OpType) : q = queue["d2h"][e]
    BY <1>1, StreamFacts
  <2>2. PICK s : s = queue'["d2h"][e]
    OBVIOUS
  <2>3. PICK a : D2HAdds(q, s, n, b, e \in idle, e, a)
    BY <2>1, <2>2, CallAdds
  <2>4. /\ s \in Seq(OpType) /\ Len(s) \in Nat /\ Len(q) \in Nat /\ Len(s) >= Len(q) + n
        /\ n \in Nat /\ n >= 1
    <3>1. s \in Seq(OpType)
      BY <2>3 DEF D2HAdds, Grown
    <3>2. n \in Nat /\ n >= 1
      BY CopyAssumption DEF Call
    <3> QED BY <2>3, <3>1, <3>2 DEF D2HAdds
  <2>5. PICK l \in Nat : l = Len(s) - (n - 1) + k /\ l >= Len(q) + 1
    <3>1. Len(s) - (n - 1) + k \in Nat /\ Len(s) - (n - 1) + k >= Len(q) + 1
      BY <2>4
    <3> QED BY <3>1
  <2>6. y \in Nat /\ y \in 1 .. Len(s)
    BY <1>7, <2>2, <2>4 DEF Pos
  <2>7. y <= l
    <3>1. CASE y <= Len(q)
      BY <2>4, <2>5, <2>6, <3>1
    <3>2. CASE y > Len(q)
      <4>1. y \in Len(q) + 1 .. Len(s)
        BY <2>4, <2>6, <3>2
      <4>2. y = Len(q) + 1 \/ \E j \in 0 .. n - 1 : y = Len(s) - (n - 1) + j /\ s[y] = Push(n, b, e, a, j)
        BY <2>3, <4>1 DEF D2HAdds
      <4>3. CASE y = Len(q) + 1
        BY <2>5, <4>3
      <4>4. ASSUME NEW j \in 0 .. n - 1, y = Len(s) - (n - 1) + j, s[y] = Push(n, b, e, a, j)
            PROVE  y <= l
        <5>1. s[y].kind = "d2h" /\ s[y].chunk = j /\ s[y].call = call_count + 1
          BY <4>4 DEF Push, Op
        <5>2. j <= k
          BY <1>7, <2>2, <5>1 DEF StreamTypes
        <5> QED BY <2>4, <2>5, <4>4, <5>2
      <4> QED BY <4>2, <4>3, <4>4
    <3> QED BY <2>4, <2>6, <3>1, <3>2
  <2>8. <<"d2h", e, l>> \in queue'["h2d"][r][x].after
    BY <1>3, <1>5, <2>2, <2>5 DEF Lengths
  <2> QED BY <1>2, <1>7, <2>6, <2>7, <2>8, CoveredBy
<1> QED BY <1>2, <1>5, <1>6, <1>7 DEF Precedes

(* After a call every operation waits for what precedes it. *)
LEMMA CallWaits ==
    ASSUME Ordered, NEW n, NEW b, NEW idle, Call(n, b, idle), StreamTypes'
    PROVE  Waits'
<1> USE DEF Ordered
<1> SUFFICES ASSUME NEW g \in Engine, NEW h \in Engine, NEW r \in Rank, NEW p \in Rank,
                    NEW x \in Pos(g, r)', NEW y \in Pos(h, p)',
                    Precedes(h, p, queue'[h][p][y], g, r, queue'[g][r][x])
             PROVE  Covered(g, r, x, h, p, y)'
  BY DEF Waits
<1>1. CASE x \in Pos(g, r)
  <2>1. queue'[g][r][x] = queue[g][r][x] /\ x \in Nat
    BY <1>1, CallPositions
  <2>2. queue[g][r][x].call \in 1 .. call_count /\ call_count \in Nat
    BY <1>1, StreamFacts DEF StreamTypes
  <2>3. y \in Pos(h, p) /\ queue'[h][p][y] = queue[h][p][y]
    <3>1. queue'[h][p][y] \in OpType /\ queue'[g][r][x] \in OpType
      <4>1. queue'[g][r] \in Seq(OpType) /\ queue'[h][p] \in Seq(OpType)
        BY CallGrows DEF Grown
      <4>2. PICK s, u \in Seq(OpType) : s = queue'[g][r] /\ u = queue'[h][p]
        BY <4>1
      <4>3. x \in 1 .. Len(s) /\ y \in 1 .. Len(u)
        BY <4>2 DEF Pos
      <4>4. s[x] \in OpType /\ u[y] \in OpType
        BY <4>3
      <4> QED BY <4>2, <4>4
    <3>2. queue'[h][p][y].call <= queue'[g][r][x].call
      BY <3>1, PrecedesCall
    <3>3. queue'[h][p][y].call # call_count + 1
      BY <2>1, <2>2, <3>2
    <3> QED BY <3>3, PrecedesOld
  <2>4. Covered(g, r, x, h, p, y)
    BY <1>1, <2>1, <2>3 DEF Waits
  <2>5. PICK z \in 1 .. x, k \in Nat : y <= k /\ <<h, p, k>> \in queue[g][r][z].after
    BY <2>4 DEF Covered
  <2>6. z \in Pos(g, r) /\ z \in 1 .. Len(queue[g][r])
    BY <1>1, <2>1, StreamFacts DEF Pos
  <2>7. queue'[g][r][z] = queue[g][r][z]
    <3>1. Grown(g, r, queue[g][r], queue'[g][r], n, b)
      BY CallGrows
    <3> QED BY <2>6, <3>1 DEF Grown
  <2> QED BY <2>5, <2>7 DEF Covered
<1>2. CASE x \notin Pos(g, r)
  <2>1. CASE g = "comp"
    BY <1>2, <2>1, CompCovered
  <2>2. CASE g = "d2h"
    BY <1>2, <2>2, D2HCovered
  <2>3. CASE g = "h2d"
    BY <1>2, <2>3, H2DCovered
  <2> QED BY <2>1, <2>2, <2>3 DEF Engine
<1> QED BY <1>1, <1>2

-----------------------------------------------------------------------------
(* The order holds throughout.                                              *)

(* Nothing is enqueued at first. *)
LEMMA InitOrdered == Init => Ordered
<1> SUFFICES ASSUME Init PROVE Ordered
  OBVIOUS
<1>1. call_count = 0
  BY DEF Init
<1>2. \A g \in Engine, r \in Rank : queue[g][r] = <<>> /\ ran[g][r] = 0
  BY DEF Init
<1>3. Len(<<>>) = 0 /\ <<>> \in Seq(OpType)
  OBVIOUS
<1>4. queue \in [Engine -> [Rank -> Seq(OpType)]] /\ ran \in [Engine -> [Rank -> Nat]]
  BY <1>3 DEF Init
<1>5. \A g \in Engine, r \in Rank : Pos(g, r) = {} /\ Len(queue[g][r]) = 0
  BY <1>2, <1>3 DEF Pos
<1>6. StreamTypes
  BY <1>1, <1>2, <1>4, <1>5 DEF StreamTypes
<1>7. Recorded
  <2>1. \A g \in Engine : [r \in Rank |-> Len(queue[g][r])] = [r \in Rank |-> 0]
    BY <1>5
  <2> QED BY <2>1 DEF Recorded, Init, Engine
<1>8. LastAdd /\ Waits /\ Kept
  BY <1>1, <1>2, <1>5 DEF LastAdd, Waits, Kept
<1> QED BY <1>6, <1>7, <1>8 DEF Ordered

(* The head of stream g of r completes, nothing else does. *)
Completed(g, r) ==
    /\ Ready(g, r)
    /\ ran' = [ran EXCEPT ![g][r] = @ + 1]
    /\ UNCHANGED <<events, queue>>

(* Of the head of a ready stream, all that it waits for has run. *)
LEMMA ReadyHead ==
    ASSUME StreamTypes, NEW g \in Engine, NEW r \in Rank, Ready(g, r)
    PROVE  /\ ran[g][r] \in Nat
           /\ ran[g][r] + 1 \in Pos(g, r)
           /\ Head_(g, r) = queue[g][r][ran[g][r] + 1]
           /\ \A w \in queue[g][r][ran[g][r] + 1].after : ran[w[1]][w[2]] >= w[3]
<1>1. ran[g][r] \in Nat /\ Len(queue[g][r]) \in Nat
  BY StreamFacts
<1> QED BY <1>1 DEF Ready, Pending, Head_, Pos

(* When an operation completes the others stay where they were. *)
LEMMA CompletedRan ==
    ASSUME StreamTypes, NEW g \in Engine, NEW r \in Rank, Completed(g, r)
    PROVE  /\ ran' \in [Engine -> [Rank -> Nat]]
           /\ ran'[g][r] = ran[g][r] + 1
           /\ \A h \in Engine, p \in Rank : <<h, p>> # <<g, r>> => ran'[h][p] = ran[h][p]
           /\ \A h \in Engine, p \in Rank : ran'[h][p] >= ran[h][p]
<1>1. ran \in [Engine -> [Rank -> Nat]]
  BY DEF StreamTypes
<1>2. ran' = [ran EXCEPT ![g] = [ran[g] EXCEPT ![r] = ran[g][r] + 1]]
  BY DEF Completed
<1>3. ran[g] \in [Rank -> Nat] /\ ran[g][r] + 1 \in Nat
  BY <1>1
<1>4. [ran[g] EXCEPT ![r] = ran[g][r] + 1] \in [Rank -> Nat]
  BY <1>3
<1>5. ran' \in [Engine -> [Rank -> Nat]]
  BY <1>1, <1>2, <1>4
<1>6. ran'[g][r] = ran[g][r] + 1
  BY <1>1, <1>2, <1>3
<1>7. \A h \in Engine, p \in Rank : <<h, p>> # <<g, r>> => ran'[h][p] = ran[h][p]
  BY <1>1, <1>2, <1>3
<1>8. \A h \in Engine, p \in Rank : ran[h][p] \in Nat
  BY <1>1
<1>9. \A h \in Engine, p \in Rank : ran'[h][p] >= ran[h][p]
  BY <1>6, <1>7, <1>8
<1> QED BY <1>5, <1>6, <1>7, <1>9

(* The order does not depend on which operation completes next. *)
LEMMA CompletedOrdered ==
    ASSUME Ordered, NEW g \in Engine, NEW r \in Rank, Completed(g, r)
    PROVE  Ordered'
<1> USE DEF Ordered
<1>1. /\ call_count' = call_count /\ queue' = queue
      /\ host_large_read_done' = host_large_read_done /\ dev_tmp_kernel_done' = dev_tmp_kernel_done
  BY DEF Completed, events
<1>2. \A h \in Engine, p \in Rank : Pos(h, p)' = Pos(h, p)
  BY <1>1 DEF Pos
<1>3. Recorded' /\ LastAdd'
  BY <1>1 DEF Recorded, LastAdd
<1>4. Waits'
  BY <1>1, <1>2 DEF Waits, Covered
<1>5. ASSUME NEW h \in Engine, NEW p \in Rank PROVE ran'[h][p] <= Len(queue[h][p])
  <2>1. ran[g][r] + 1 <= Len(queue[g][r])
    <3>1. ran[g][r] + 1 \in Pos(g, r) /\ Len(queue[g][r]) \in Nat
      BY ReadyHead, StreamFacts DEF Completed
    <3> QED BY <3>1 DEF Pos
  <2>2. ran[h][p] <= Len(queue[h][p])
    BY StreamFacts
  <2>3. CASE <<h, p>> = <<g, r>>
    <3>1. ran'[g][r] = ran[g][r] + 1
      BY CompletedRan
    <3> QED BY <2>1, <2>3, <3>1
  <2>4. CASE <<h, p>> # <<g, r>>
    <3>1. ran'[h][p] = ran[h][p]
      BY <2>4, CompletedRan
    <3> QED BY <2>2, <3>1
  <2> QED BY <2>3, <2>4
<1>6. StreamTypes'
  BY <1>1, <1>2, <1>5, CompletedRan DEF StreamTypes
<1>7. \A h \in Engine, p \in Rank : \A x \in Pos(h, p) :
          queue[h][p][x].after \in SUBSET (Engine \X Rank \X Nat)
  BY StreamFacts DEF OpType
<1>8. ASSUME NEW h \in Engine, NEW p \in Rank, NEW x \in 1 .. ran'[h][p], NEW w \in queue[h][p][x].after
      PROVE  ran'[w[1]][w[2]] >= w[3]
  <2>1. ran[h][p] \in Nat /\ Len(queue[h][p]) \in Nat /\ ran[h][p] <= Len(queue[h][p])
    BY StreamFacts
  <2>2. x \in 1 .. ran[h][p] \/ (<<h, p>> = <<g, r>> /\ x = ran[g][r] + 1)
    <3>1. CASE <<h, p>> = <<g, r>>
      BY <2>1, <3>1, CompletedRan
    <3>2. CASE <<h, p>> # <<g, r>>
      BY <3>2, CompletedRan
    <3> QED BY <3>1, <3>2
  <2>3. x \in Pos(h, p)
    <3>1. CASE x \in 1 .. ran[h][p]
      BY <2>1, <3>1 DEF Pos
    <3>2. CASE <<h, p>> = <<g, r>> /\ x = ran[g][r] + 1
      BY <3>2, ReadyHead DEF Completed
    <3> QED BY <2>2, <3>1, <3>2
  <2>4. ran[w[1]][w[2]] >= w[3]
    <3>1. CASE x \in 1 .. ran[h][p]
      BY <3>1 DEF Kept
    <3>2. CASE <<h, p>> = <<g, r>> /\ x = ran[g][r] + 1
      BY <3>2, ReadyHead DEF Completed
    <3> QED BY <2>2, <3>1, <3>2
  <2>5. w \in Engine \X Rank \X Nat
    BY <1>7, <2>3
  <2>6. w[1] \in Engine /\ w[2] \in Rank /\ w[3] \in Nat
    BY <2>5
  <2>7. ran[w[1]][w[2]] \in Nat /\ ran'[w[1]][w[2]] \in Nat /\ ran'[w[1]][w[2]] >= ran[w[1]][w[2]]
    BY <2>6, CompletedRan, StreamFacts
  <2> QED BY <2>4, <2>6, <2>7
<1>9. Kept'
  BY <1>1, <1>8 DEF Kept
<1> QED BY <1>3, <1>4, <1>6, <1>9

(* A step is a call, the completion of an operation, or changes nothing. *)
LEMMA Steps ==
    ASSUME [Next]_vars
    PROVE  \/ \E n \in 1 .. MaxChunks, b \in BOOLEAN, idle \in SUBSET Rank : Call(n, b, idle)
           \/ \E r \in Rank : \/ CompStep(r) /\ Completed("comp", r)
                              \/ D2HStep(r) /\ Completed("d2h", r)
                              \/ CopyH2D(r) /\ Completed("h2d", r)
           \/ UNCHANGED vars
<1>1. CASE UNCHANGED vars
  BY <1>1
<1>2. CASE Terminated
  BY <1>2 DEF Terminated
<1>3. ASSUME NEW n \in 1 .. MaxChunks, NEW b \in Bf16, NEW idle \in Inactive, CopyImpl(n, b, idle)
      PROVE  b \in BOOLEAN /\ idle \in SUBSET Rank /\ Call(n, b, idle)
  BY <1>3, CopyAssumption DEF Call
<1>4. ASSUME NEW r \in Rank, CompStep(r) PROVE Completed("comp", r)
  BY <1>4 DEF CompStep, Produce, Scratch, Convert, Zero, Add, Retire, Completed
<1>5. ASSUME NEW r \in Rank, D2HStep(r) PROVE Completed("d2h", r)
  BY <1>5 DEF D2HStep, Zero, CopyD2H, Retire, Completed
<1>6. ASSUME NEW r \in Rank, CopyH2D(r) PROVE Completed("h2d", r)
  BY <1>6 DEF CopyH2D, Retire, Completed
<1> QED BY <1>1, <1>2, <1>3, <1>4, <1>5, <1>6 DEF Next

(* The streams stay in order. *)
LEMMA NextOrdered == Ordered /\ [Next]_vars => Ordered'
<1> SUFFICES ASSUME Ordered, [Next]_vars PROVE Ordered'
  OBVIOUS
<1>1. CASE UNCHANGED vars
  <2>1. /\ call_count' = call_count /\ queue' = queue /\ ran' = ran
        /\ host_large_read_done' = host_large_read_done /\ dev_tmp_kernel_done' = dev_tmp_kernel_done
    BY <1>1 DEF vars, events
  <2>2. StreamTypes'
    BY <2>1 DEF Ordered, StreamTypes, Pos
  <2>3. Recorded' /\ LastAdd'
    BY <2>1 DEF Ordered, Recorded, LastAdd
  <2>4. Waits'
    <3>1. \A h \in Engine, p \in Rank : Pos(h, p)' = Pos(h, p)
      BY <2>1 DEF Pos
    <3>2. Waits
      BY DEF Ordered
    <3> QED BY <2>1, <3>1, <3>2 DEF Waits, Covered
  <2>5. Kept'
    BY <2>1 DEF Ordered, Kept
  <2> QED BY <2>2, <2>3, <2>4, <2>5 DEF Ordered
<1>2. ASSUME NEW n, NEW b, NEW idle, Call(n, b, idle) PROVE Ordered'
  <2>1. StreamTypes' /\ Recorded' /\ Kept' /\ LastAdd'
    BY <1>2, CallTypes, CallKept DEF Ordered
  <2>2. Waits'
    BY <1>2, <2>1, CallWaits
  <2> QED BY <2>1, <2>2 DEF Ordered
<1>3. ASSUME NEW g \in Engine, NEW r \in Rank, Completed(g, r) PROVE Ordered'
  BY <1>3, CompletedOrdered
<1> QED BY <1>1, <1>2, <1>3, Steps DEF Engine

(* THEOREM.  However the GPUs interleave, the streams are well-formed and   *)
(* every operation that has run had what its events made it wait for.       *)
THEOREM AlwaysOrdered == Spec => []Ordered
BY InitOrdered, NextOrdered, PTL DEF Spec

(* What precedes an operation that has run, or is ready to, has run. *)
LEMMA Done ==
    ASSUME Ordered, NEW g \in Engine, NEW r \in Rank, NEW h \in Engine, NEW p \in Rank,
           NEW x \in Pos(g, r), NEW y \in Pos(h, p),
           x <= ran[g][r] \/ (x = ran[g][r] + 1 /\ Ready(g, r)),
           Precedes(h, p, queue[h][p][y], g, r, queue[g][r][x])
    PROVE  y <= ran[h][p]
<1> USE DEF Ordered
<1>1. Covered(g, r, x, h, p, y)
  BY DEF Waits
<1>2. PICK z \in 1 .. x, n \in Nat : y <= n /\ <<h, p, n>> \in queue[g][r][z].after
  BY <1>1 DEF Covered
<1>3. ran[g][r] \in Nat /\ ran[h][p] \in Nat
  BY StreamFacts
<1>4. z \in 1 .. ran[g][r] \/ (z = ran[g][r] + 1 /\ Ready(g, r))
  BY <1>2, <1>3 DEF Pos
<1>5. ran[h][p] >= n
  <2> DEFINE w == <<h, p, n>>
  <2>1. w[1] = h /\ w[2] = p /\ w[3] = n /\ w \in queue[g][r][z].after
    BY <1>2
  <2> HIDE DEF w
  <2>2. CASE z \in 1 .. ran[g][r]
    BY <2>1, <2>2 DEF Kept
  <2>3. CASE z = ran[g][r] + 1 /\ Ready(g, r)
    BY <2>1, <2>3, ReadyHead
  <2> QED BY <1>4, <2>2, <2>3
<1>6. y \in Nat
  BY DEF Pos
<1> QED BY <1>2, <1>3, <1>5, <1>6

-----------------------------------------------------------------------------
(* No two operations that touch the same memory, one writing, are free to   *)
(* run at the same time.                                                    *)

(* The memory an operation o on stream g of r may touch.                    *)
Touches(g, r, o, cell) ==
    \/ /\ g \in {"comp", "d2h"} /\ cell[1] \in {"data", "bf16_tmp"} /\ cell[2] = r
    \/ /\ g = "comp" /\ cell[1] = "dev_tmp" /\ cell[2] = r /\ o.kind = "add"
    \/ /\ g = "d2h" /\ cell[1] = "host_large" /\ cell[2] = r /\ cell[4] = o.chunk
       /\ o.kind = "d2h"
    \/ /\ g = "h2d" /\ cell[1] = "dev_tmp" /\ cell[2] = r
    \/ /\ g = "h2d" /\ cell[1] = "host_large" /\ cell[2] = o.peer /\ cell[4] = o.chunk

(* A cell of buffer f of r. *)
LEMMA CellParts ==
    ASSUME NEW f, NEW r, NEW p, NEW n, NEW cell \in Cells(f, r, p, n)
    PROVE  cell[1] = f /\ cell[2] = r /\ cell[3] = p
BY DEF Cells

(* What is written is touched, and staging memory only by copies to it. *)
LEMMA WritesTouch ==
    ASSUME NEW g \in Engine, NEW r, NEW o, Belongs(g, r, o), NEW cell \in Writes(o, r)
    PROVE  Touches(g, r, o, cell) /\ (cell[1] = "host_large" => g = "d2h")
<1>1. CASE o.kind \in {"produce", "scratch"}
  <2>1. cell \in Cells("data", r, r, o.chunks) \cup Cells("bf16_tmp", r, r, MaxChunks)
    BY <1>1 DEF Writes
  <2>2. cell[1] \in {"data", "bf16_tmp"} /\ cell[2] = r
    BY <2>1, CellParts
  <2> QED BY <1>1, <2>2 DEF Touches, Belongs, Engine
<1>2. CASE o.kind = "convert"
  <2>1. cell \in Cells("bf16_tmp", r, r, o.chunks)
    BY <1>2 DEF Writes
  <2>2. cell[1] \in {"data", "bf16_tmp"} /\ cell[2] = r
    BY <2>1, CellParts
  <2> QED BY <1>2, <2>2 DEF Touches, Belongs, Engine
<1>3. CASE o.kind = "zero"
  <2>1. cell \in Cells("data", r, r, o.chunks) \cup Cells(Source(o), r, r, o.chunks)
    BY <1>3 DEF Writes
  <2>2. Source(o) \in {"data", "bf16_tmp"}
    BY DEF Source
  <2>3. cell[1] \in {"data", "bf16_tmp"} /\ cell[2] = r
    BY <2>1, <2>2, CellParts
  <2> QED BY <1>3, <2>3 DEF Touches, Belongs, Engine
<1>4. CASE o.kind = "d2h"
  <2>1. cell = <<"host_large", r, r, o.chunk>>
    BY <1>4 DEF Writes
  <2> QED BY <1>4, <2>1 DEF Touches, Belongs, Engine
<1>5. CASE o.kind = "h2d"
  <2>1. cell = <<"dev_tmp", r, o.peer, o.chunk>>
    BY <1>5 DEF Writes
  <2> QED BY <1>5, <2>1 DEF Touches, Belongs, Engine
<1>6. CASE o.kind = "add"
  <2>1. cell \in Cells("data", r, r, o.chunks)
    BY <1>6 DEF Writes
  <2>2. cell[1] = "data" /\ cell[2] = r
    BY <2>1, CellParts
  <2> QED BY <1>6, <2>2 DEF Touches, Belongs, Engine
<1> QED BY <1>1, <1>2, <1>3, <1>4, <1>5, <1>6 DEF Belongs, Engine

(* So is what is read. *)
LEMMA ReadsTouch ==
    ASSUME NEW g \in Engine, NEW r, NEW o, Belongs(g, r, o), NEW cell \in Reads(o, r)
    PROVE  Touches(g, r, o, cell)
<1>1. CASE o.kind = "convert"
  <2>1. cell \in Cells("data", r, r, o.chunks)
    BY <1>1 DEF Reads
  <2>2. cell[1] = "data" /\ cell[2] = r
    BY <2>1, CellParts
  <2> QED BY <1>1, <2>2 DEF Touches, Belongs, Engine
<1>2. CASE o.kind = "d2h"
  <2>1. cell = <<Source(o), r, r, o.chunk>>
    BY <1>2 DEF Reads
  <2>2. Source(o) \in {"data", "bf16_tmp"}
    BY DEF Source
  <2>3. cell[1] \in {"data", "bf16_tmp"} /\ cell[2] = r
    BY <2>1, <2>2
  <2> QED BY <1>2, <2>3 DEF Touches, Belongs, Engine
<1>3. CASE o.kind = "h2d"
  <2>1. cell = <<"host_large", o.peer, o.peer, o.chunk>>
    BY <1>3 DEF Reads
  <2> QED BY <1>3, <2>1 DEF Touches, Belongs, Engine
<1>4. CASE o.kind = "add"
  <2>1. cell \in Cells("data", r, r, o.chunks) \cup
                 UNION {Cells("dev_tmp", r, p, o.chunks) : p \in Rank \ {r}}
    BY <1>4 DEF Reads
  <2>2. CASE cell \in Cells("data", r, r, o.chunks)
    <3>1. cell[1] = "data" /\ cell[2] = r
      BY <2>2, CellParts
    <3> QED BY <1>4, <3>1 DEF Touches, Belongs, Engine
  <2>3. ASSUME NEW p \in Rank \ {r}, cell \in Cells("dev_tmp", r, p, o.chunks)
        PROVE  Touches(g, r, o, cell)
    <3>1. cell[1] = "dev_tmp" /\ cell[2] = r
      BY <2>3, CellParts
    <3> QED BY <1>4, <3>1 DEF Touches, Belongs, Engine
  <2> QED BY <2>1, <2>2, <2>3
<1>5. CASE o.kind \notin {"convert", "d2h", "h2d", "add"}
  BY <1>5 DEF Reads
<1> QED BY <1>1, <1>2, <1>3, <1>4, <1>5

(* Of two operations on different streams that touch the same cell, other   *)
(* than two reads of staging memory, one precedes the other.                *)
LEMMA Conflict ==
    ASSUME NEW g \in Engine, NEW h \in Engine, NEW r, NEW p, <<g, r>> # <<h, p>>,
           NEW o \in OpType, NEW q \in OpType, Belongs(g, r, o), Belongs(h, p, q), NEW cell,
           Touches(g, r, o, cell), Touches(h, p, q, cell),
           cell[1] = "host_large" => g = "d2h"
    PROVE  Precedes(h, p, q, g, r, o) \/ Precedes(g, r, o, h, p, q)
<1>1. o.call \in Nat /\ q.call \in Nat /\ o.chunk \in Nat /\ q.chunk \in Nat
  BY CopyAssumption DEF OpType, Chunk
<1>2. g \in {"comp", "d2h", "h2d"} /\ h \in {"comp", "d2h", "h2d"}
  BY DEF Engine
<1>3. CASE g = h
  BY <1>2, <1>3 DEF Touches
<1>4. CASE g = "comp" /\ h = "d2h"
  <2>1. p = r
    BY <1>4 DEF Touches
  <2> QED BY <1>1, <1>4, <2>1 DEF Precedes
<1>5. CASE g = "d2h" /\ h = "comp"
  <2>1. p = r
    BY <1>5 DEF Touches
  <2> QED BY <1>1, <1>5, <2>1 DEF Precedes
<1>6. CASE g = "comp" /\ h = "h2d"
  <2>1. p = r /\ o.kind = "add"
    BY <1>6 DEF Touches
  <2> QED BY <1>1, <1>6, <2>1 DEF Precedes
<1>7. CASE g = "h2d" /\ h = "comp"
  <2>1. p = r /\ q.kind = "add"
    BY <1>7 DEF Touches
  <2> QED BY <1>1, <1>7, <2>1 DEF Precedes
<1>8. CASE g = "d2h" /\ h = "h2d"
  <2>1. r = q.peer /\ o.chunk = q.chunk /\ q.peer # p
    BY <1>8 DEF Touches, Belongs
  <2> QED BY <1>1, <1>8, <2>1 DEF Precedes
<1>9. CASE g = "h2d" /\ h = "d2h"
  BY <1>9 DEF Touches
<1> QED BY <1>2, <1>3, <1>4, <1>5, <1>6, <1>7, <1>8, <1>9

(* The streams in order, no data race. *)
LEMMA OrderedNoRace == Ordered => NoDataRace
<1> SUFFICES ASSUME Ordered, NEW g \in Engine, NEW h \in Engine, NEW r \in Rank, NEW p \in Rank,
                    <<g, r>> # <<h, p>>, Ready(g, r), Ready(h, p),
                    NEW cell \in Writes(Head_(g, r), r),
                    cell \in Writes(Head_(h, p), p) \cup Reads(Head_(h, p), p)
             PROVE  FALSE
  BY DEF NoDataRace
<1> USE DEF Ordered
<1>1. /\ ran[g][r] \in Nat /\ ran[g][r] + 1 \in Pos(g, r)
      /\ Head_(g, r) = queue[g][r][ran[g][r] + 1]
      /\ ran[h][p] \in Nat /\ ran[h][p] + 1 \in Pos(h, p)
      /\ Head_(h, p) = queue[h][p][ran[h][p] + 1]
  BY ReadyHead
<1>2. PICK o \in OpType : o = Head_(g, r) /\ Belongs(g, r, o)
  BY <1>1, StreamFacts
<1>3. PICK q \in OpType : q = Head_(h, p) /\ Belongs(h, p, q)
  BY <1>1, StreamFacts
<1>4. Touches(g, r, o, cell) /\ (cell[1] = "host_large" => g = "d2h")
  BY <1>2, WritesTouch
<1>5. Touches(h, p, q, cell)
  BY <1>3, WritesTouch, ReadsTouch
<1>6. Precedes(h, p, q, g, r, o) \/ Precedes(g, r, o, h, p, q)
  BY <1>2, <1>3, <1>4, <1>5, Conflict
<1>7. ASSUME Precedes(h, p, q, g, r, o) PROVE FALSE
  <2>1. ran[h][p] + 1 <= ran[h][p]
    BY <1>1, <1>2, <1>3, <1>7, Done
  <2> QED BY <1>1, <2>1
<1>8. ASSUME Precedes(g, r, o, h, p, q) PROVE FALSE
  <2>1. ran[g][r] + 1 <= ran[g][r]
    BY <1>1, <1>2, <1>3, <1>8, Done
  <2> QED BY <1>1, <2>1
<1> QED BY <1>6, <1>7, <1>8

(* THEOREM.  Two operations of copy_impl that can run at the same time, on  *)
(* any streams of any GPUs, never touch the same memory, one of them        *)
(* writing.  It uses the events only: acquire_slot plays no part.           *)
THEOREM NoRace == Spec => []NoDataRace
BY AlwaysOrdered, OrderedNoRace, PTL

-----------------------------------------------------------------------------
(* Which operations stand with which in the streams.                        *)

SameCall(o, q) == o.call = q.call /\ o.chunks = q.chunks /\ o.bf16 = q.bf16

(* The zeros of r for call c are among the operations X of its stream to    *)
(* the host.                                                                *)
ZeroAmong(r, c, X) == \E z \in X : queue["d2h"][r][z].kind = "zero" /\ queue["d2h"][r][z].call = c

(* Before the add at x, the operation that readies the contribution of r,   *)
(* and all the copies of the call.                                          *)
AddShape(r, x) ==
    LET o == queue["comp"][r][x]
        w == queue["comp"][r][x - 1]
    IN  /\ x - 1 \in Pos("comp", r) /\ SameCall(w, o)
        /\ w.kind \in IF o.bf16 THEN {"convert", "zero"} ELSE {"produce", "scratch"}
        /\ w.kind = "scratch" => ZeroAmong(r, o.call, Pos("d2h", r))
        /\ \A k \in 0 .. o.chunks - 1, p \in Rank \ {r} : \E y \in Pos("h2d", r) :
              LET q == queue["h2d"][r][y] IN q.call = o.call /\ q.peer = p /\ q.chunk = k

(* Before the conversion at x, the caller's kernels. *)
ConvertShape(r, x) ==
    /\ x - 1 \in Pos("comp", r)
    /\ SameCall(queue["comp"][r][x - 1], queue["comp"][r][x])
    /\ queue["comp"][r][x - 1].kind = "produce"

(* For the operation at x on the stream to the host, the add of its call    *)
(* at y; a rank with nothing to contribute copies zeros.                    *)
D2HShape(r, x, y) ==
    LET o == queue["d2h"][r][x]
        a == queue["comp"][r][y]
    IN  /\ a.kind = "add" /\ SameCall(a, o)
        /\ o.kind = "zero" => queue["comp"][r][y - 1].kind = "scratch"
        /\ o.kind = "d2h" /\ queue["comp"][r][y - 1].kind = "scratch" => ZeroAmong(r, o.call, 1 .. x - 1)

(* For the operation at x on the stream from the host, the copy of the same *)
(* chunk by the peer.                                                       *)
H2DShape(r, x) ==
    LET o == queue["h2d"][r][x] IN
    \E y \in Pos("d2h", o.peer) :
        LET q == queue["d2h"][o.peer][y] IN q.kind = "d2h" /\ q.call = o.call /\ q.chunk = o.chunk

Shape ==
    /\ \A r \in Rank :
          /\ \A x \in Pos("comp", r) : /\ queue["comp"][r][x].kind = "add" => AddShape(r, x)
                                       /\ queue["comp"][r][x].kind = "convert" => ConvertShape(r, x)
          /\ \A x \in Pos("d2h", r) : \E y \in Pos("comp", r) : D2HShape(r, x, y)
          /\ \A x \in Pos("h2d", r) : H2DShape(r, x)
    /\ \A g \in Engine, r \in Rank : \A x, y \in Pos(g, r) :
          x <= y => queue[g][r][x].call <= queue[g][r][y].call

-----------------------------------------------------------------------------
(* What the buffers hold.                                                   *)

Own(r, c) == <<<<r, c>>>>
SumOf(c)  == [p \in 1 .. NRanks |-> <<p - 1, c>>]

(* The tensor and its converted copy, by the last operation that ran on the *)
(* compute stream.                                                          *)
TensorHolds(r) ==
    LET n == ran["comp"][r]
        o == queue["comp"][r][n]
    IN  n > 0 => \A k \in 0 .. o.chunks - 1 :
            /\ o.kind = "produce" => data[r][k] = Own(r, o.call)
            /\ o.kind \in {"convert", "zero"} => /\ data[r][k] = Own(r, o.call)
                                                 /\ bf16_tmp[r][k] = Own(r, o.call)
            /\ o.kind = "scratch" /\ ZeroAmong(r, o.call, 1 .. ran["d2h"][r]) =>
                   data[r][k] = Own(r, o.call)
            /\ o.kind = "add" => data[r][k] = SumOf(o.call) /\ recv[r][k] = SumOf(o.call)

(* Chunk k of the staging memory, by the call of a copy to it that ran and  *)
(* none of a later call did.                                                *)
Staged(r, k, c) ==
    /\ \E x \in 1 .. ran["d2h"][r] :
          LET o == queue["d2h"][r][x] IN o.kind = "d2h" /\ o.chunk = k /\ o.call = c
    /\ \A x \in 1 .. ran["d2h"][r] :
          LET o == queue["d2h"][r][x] IN o.kind = "d2h" /\ o.chunk = k => o.call <= c

StagingHolds(r) == \A k \in Chunk, c \in Nat :
                       Staged(r, k, c) => host_large[r][k] = Own(r, c)

(* The same of what r pulled from its peers. *)
Pulled(r, p, k, c) ==
    /\ \E x \in 1 .. ran["h2d"][r] :
          LET o == queue["h2d"][r][x] IN o.peer = p /\ o.chunk = k /\ o.call = c
    /\ \A x \in 1 .. ran["h2d"][r] :
          LET o == queue["h2d"][r][x] IN o.peer = p /\ o.chunk = k => o.call <= c

PulledHolds(r) == \A p \in Rank, k \in Chunk, c \in Nat :
                      Pulled(r, p, k, c) => dev_tmp[r][p][k] = Own(p, c)

MemoryTypes ==
    /\ DOMAIN data = Rank /\ DOMAIN bf16_tmp = Rank /\ DOMAIN recv = Rank
    /\ DOMAIN host_large = Rank /\ \A r \in Rank : DOMAIN host_large[r] = Chunk
    /\ DOMAIN dev_tmp = Rank
    /\ \A r \in Rank : /\ DOMAIN dev_tmp[r] = Rank
                       /\ \A p \in Rank : DOMAIN dev_tmp[r][p] = Chunk

Held == /\ MemoryTypes
        /\ \A r \in Rank : TensorHolds(r) /\ StagingHolds(r) /\ PulledHolds(r)

-----------------------------------------------------------------------------
(* The shape of the streams.                                                *)

(* A call leaves the operations in the streams where they are. *)
LEMMA OldOps ==
    ASSUME Ordered, NEW n, NEW b, NEW idle, Call(n, b, idle), NEW g \in Engine, NEW r \in Rank
    PROVE  \A x \in Pos(g, r) : x \in Pos(g, r)' /\ queue'[g][r][x] = queue[g][r][x]
<1>1. Grown(g, r, queue[g][r], queue'[g][r], n, b)
  BY CallGrows DEF Ordered
<1>2. Len(queue[g][r]) \in Nat
  BY StreamFacts DEF Ordered
<1>3. queue'[g][r] \in Seq(OpType)
  BY <1>1 DEF Grown
<1>4. Len(queue'[g][r]) \in Nat
  BY <1>3
<1> QED BY <1>1, <1>2, <1>4 DEF Grown, Pos

(* The end of the compute stream s after call c, q before it: the add is at *)
(* l, and what readies the contribution before it.                          *)
CompTail(q, s, c, n, b, i, l) ==
    /\ l \in Nat /\ l = Len(s) /\ l - 1 \in Len(q) + 1 .. l
    /\ \A x \in Len(q) + 1 .. l : s[x].call = c /\ s[x].chunks = n /\ s[x].bf16 = b
    /\ s[l].kind = "add"
    /\ s[l - 1].kind = IF b THEN (IF i THEN "zero" ELSE "convert")
                            ELSE (IF i THEN "scratch" ELSE "produce")
    /\ b => l - 2 \in Len(q) + 1 .. l /\ s[l - 2].kind = IF i THEN "scratch" ELSE "produce"
    /\ \A x \in Len(q) + 1 .. l : /\ s[x].kind = "add" => x = l
                                  /\ s[x].kind = "convert" => x = l - 1 /\ b /\ ~i

(* That is the end of it. *)
LEMMA NewTail ==
    ASSUME Ordered, NEW n, NEW b, NEW idle, Call(n, b, idle), NEW r \in Rank
    PROVE  \E l \in Nat : CompTail(queue["comp"][r], queue'["comp"][r], call_count + 1, n, b, r \in idle, l)
<1>1. PICK q \in Seq(OpType) : q = queue["comp"][r]
  BY StreamFacts DEF Engine, Ordered
<1>2. PICK s : s = queue'["comp"][r]
  OBVIOUS
<1>3. PICK h, d : CompAdds(q, s, n, b, r \in idle, r, h, d)
  BY <1>1, <1>2, CallAdds DEF Ordered
<1>4. PICK i : i = (r \in idle)
  OBVIOUS
<1>5. b \in BOOLEAN
  BY DEF Call
<1>6. PICK t \in {2, 3} : t = (IF b THEN 3 ELSE 2) /\ (b <=> t = 3)
  <2>1. (IF b THEN 3 ELSE 2) \in {2, 3} /\ (b <=> (IF b THEN 3 ELSE 2) = 3)
    BY <1>5
  <2> QED BY <2>1
<1>7. /\ s \in Seq(OpType) /\ Len(s) = Len(q) + t
      /\ \A x \in Len(q) + 1 .. Len(s) : OfCall("comp", r, s[x], n, b)
      /\ s[Len(q) + 1] = First(n, b, i)
      /\ b => s[Len(q) + 2] = Prepare(n, b, i)
      /\ \A x \in Len(q) + 1 .. Len(s) : s[x].kind = "add" <=> x = Len(s)
  BY <1>3, <1>4, <1>6 DEF CompAdds, Grown
<1>8. PICK l \in Nat : l = Len(s) /\ l = Len(q) + t
  BY <1>7
<1>9. Len(q) \in Nat
  OBVIOUS
<1>10. l - 1 \in Len(q) + 1 .. l /\ l \in Len(q) + 1 .. l /\ (t = 3 => l - 2 \in Len(q) + 1 .. l)
  BY <1>8, <1>9
<1>11. First(n, b, i).kind = IF i THEN "scratch" ELSE "produce"
  BY DEF First, Op
<1>12. Prepare(n, b, i).kind = IF i THEN "zero" ELSE "convert"
  BY DEF Prepare, Op
<1>13. /\ t = 2 => l - 1 = Len(q) + 1
       /\ t = 3 => l - 1 = Len(q) + 2 /\ l - 2 = Len(q) + 1
  BY <1>8, <1>9
<1>14. s[l - 1].kind = IF b THEN (IF i THEN "zero" ELSE "convert")
                            ELSE (IF i THEN "scratch" ELSE "produce")
  <2>1. CASE b
    <3>1. s[l - 1].kind = IF i THEN "zero" ELSE "convert"
      BY <1>6, <1>7, <1>12, <1>13, <2>1
    <3> QED BY <2>1, <3>1
  <2>2. CASE ~b
    <3>1. s[l - 1].kind = IF i THEN "scratch" ELSE "produce"
      BY <1>6, <1>7, <1>11, <1>13, <2>2
    <3> QED BY <2>2, <3>1
  <2> QED BY <2>1, <2>2
<1>15. b => l - 2 \in Len(q) + 1 .. l /\ s[l - 2].kind = IF i THEN "scratch" ELSE "produce"
  BY <1>6, <1>7, <1>10, <1>11, <1>13
<1>16. ASSUME NEW x \in Len(q) + 1 .. l, s[x].kind = "convert" PROVE x = l - 1 /\ b /\ ~i
  <2>1. x # l
    BY <1>7, <1>8, <1>16
  <2>2. x = Len(q) + 1 \/ (x = Len(q) + 2 /\ t = 3)
    BY <1>8, <1>9, <2>1
  <2>3. x # Len(q) + 1
    <3>1. (IF i THEN "scratch" ELSE "produce") # "convert"
      OBVIOUS
    <3> QED BY <1>7, <1>11, <1>16, <3>1
  <2>4. x = l - 1 /\ t = 3
    BY <1>13, <2>2, <2>3
  <2>5. ~i
    <3>1. (IF i THEN "zero" ELSE "convert") = "convert"
      BY <1>6, <1>14, <1>16, <2>4
    <3> QED BY <3>1
  <2> QED BY <1>6, <2>4, <2>5
<1>17. \A x \in Len(q) + 1 .. l : s[x].call = call_count + 1 /\ s[x].chunks = n /\ s[x].bf16 = b
  BY <1>7, <1>8 DEF OfCall
<1>18. s[l].kind = "add" /\ \A x \in Len(q) + 1 .. l : s[x].kind = "add" => x = l
  BY <1>7, <1>8, <1>10
<1>19. CompTail(q, s, call_count + 1, n, b, i, l)
  BY <1>8, <1>10, <1>14, <1>15, <1>16, <1>17, <1>18 DEF CompTail
<1> QED BY <1>1, <1>2, <1>4, <1>19

(* On the stream to the host, the copies of a call, after the zeros of a    *)
(* rank that has none to give.                                              *)
D2HTail(q, s, c, n, b, i) ==
    /\ Len(q) \in Nat /\ Len(s) \in Nat
    /\ \A x \in Len(q) + 1 .. Len(s) :
          /\ s[x].call = c /\ s[x].chunks = n /\ s[x].bf16 = b
          /\ s[x].kind = "zero" => i /\ ~b
          /\ i /\ ~b => /\ Len(q) + 1 \in 1 .. x
                        /\ s[Len(q) + 1].kind = "zero" /\ s[Len(q) + 1].call = c
                        /\ s[x].kind = "d2h" => Len(q) + 1 \in 1 .. x - 1
    /\ i /\ ~b => Len(q) + 1 \in 1 .. Len(s) /\ s[Len(q) + 1].kind = "zero" /\ s[Len(q) + 1].call = c
    /\ \A k \in 0 .. n - 1 : \E y \in 1 .. Len(s) :
          s[y].kind = "d2h" /\ s[y].call = c /\ s[y].chunk = k

(* That is the end of it. *)
LEMMA NewD2H ==
    ASSUME Ordered, NEW n, NEW b, NEW idle, Call(n, b, idle), NEW r \in Rank
    PROVE  D2HTail(queue["d2h"][r], queue'["d2h"][r], call_count + 1, n, b, r \in idle)
<1>1. PICK q \in Seq(OpType) : q = queue["d2h"][r]
  BY StreamFacts DEF Engine, Ordered
<1>2. PICK s : s = queue'["d2h"][r]
  OBVIOUS
<1>3. PICK a : D2HAdds(q, s, n, b, r \in idle, r, a)
  BY <1>1, <1>2, CallAdds DEF Ordered
<1>4. PICK i : i = (r \in idle)
  OBVIOUS
<1>5. /\ s \in Seq(OpType) /\ Len(s) >= Len(q) + n
      /\ \A x \in Len(q) + 1 .. Len(s) : OfCall("d2h", r, s[x], n, b)
      /\ \A x \in Len(q) + 1 .. Len(s) :
            \/ x = Len(q) + 1 /\ x = Len(s) - n /\ s[x] = ZeroHost(n, b, r, a) /\ i /\ ~b
            \/ \E k \in 0 .. n - 1 : x = Len(s) - (n - 1) + k /\ s[x] = Push(n, b, r, a, k)
      /\ \A k \in 0 .. n - 1 : s[Len(s) - (n - 1) + k] = Push(n, b, r, a, k)
      /\ i /\ ~b => Len(s) - n = Len(q) + 1 /\ s[Len(q) + 1] = ZeroHost(n, b, r, a)
  BY <1>3, <1>4 DEF D2HAdds, Grown
<1>6. Len(s) \in Nat /\ Len(q) \in Nat /\ n \in Nat /\ n >= 1
  <2>1. n \in Nat /\ n >= 1
    BY CopyAssumption DEF Call
  <2> QED BY <1>5, <2>1
<1>7. ZeroHost(n, b, r, a).kind = "zero" /\ ZeroHost(n, b, r, a).call = call_count + 1
  BY DEF ZeroHost, Op
<1>8. \A k : /\ Push(n, b, r, a, k).kind = "d2h" /\ Push(n, b, r, a, k).call = call_count + 1
             /\ Push(n, b, r, a, k).chunk = k
  BY DEF Push, Op
<1>9. \A x \in Len(q) + 1 .. Len(s) : s[x].call = call_count + 1 /\ s[x].chunks = n /\ s[x].bf16 = b
  BY <1>5 DEF OfCall
<1>10. ASSUME NEW x \in Len(q) + 1 .. Len(s), s[x].kind = "zero" PROVE i /\ ~b
  BY <1>5, <1>8, <1>10
<1>11. ASSUME NEW x \in Len(q) + 1 .. Len(s), i /\ ~b, s[x].kind = "d2h"
       PROVE  Len(q) + 1 \in 1 .. x - 1
  <2>1. x # Len(q) + 1
    BY <1>5, <1>7, <1>11
  <2> QED BY <1>6, <2>1
<1>12. i /\ ~b => /\ Len(q) + 1 \in 1 .. Len(s)
                  /\ s[Len(q) + 1].kind = "zero" /\ s[Len(q) + 1].call = call_count + 1
  BY <1>5, <1>6, <1>7
<1>13. \A x \in Len(q) + 1 .. Len(s) : Len(q) + 1 \in 1 .. x
  BY <1>6
<1>14. ASSUME NEW k \in 0 .. n - 1
       PROVE  \E y \in 1 .. Len(s) : s[y].kind = "d2h" /\ s[y].call = call_count + 1 /\ s[y].chunk = k
  <2>1. Len(s) - (n - 1) + k \in 1 .. Len(s)
    BY <1>5, <1>6
  <2> QED BY <1>5, <1>8, <2>1
<1>15. D2HTail(q, s, call_count + 1, n, b, i)
  BY <1>6, <1>9, <1>10, <1>11, <1>12, <1>13, <1>14 DEF D2HTail
<1> QED BY <1>1, <1>2, <1>4, <1>15

(* On the stream from the host, every chunk of every peer. *)
H2DTail(q, s, c, n, r) ==
    /\ Len(q) \in Nat /\ Len(s) \in Nat
    /\ \A x \in Len(q) + 1 .. Len(s) :
          s[x].call = c /\ s[x].peer \in Rank \ {r} /\ s[x].chunk \in 0 .. n - 1
    /\ \A k \in 0 .. n - 1, p \in Rank \ {r} : \E x \in 1 .. Len(s) :
          s[x].call = c /\ s[x].peer = p /\ s[x].chunk = k

(* That is the end of it. *)
LEMMA NewH2D ==
    ASSUME Ordered, NEW n, NEW b, NEW idle, Call(n, b, idle), NEW r \in Rank
    PROVE  H2DTail(queue["h2d"][r], queue'["h2d"][r], call_count + 1, n, r)
<1>1. PICK q \in Seq(OpType) : q = queue["h2d"][r]
  BY StreamFacts DEF Engine, Ordered
<1>2. PICK s : s = queue'["h2d"][r]
  OBVIOUS
<1>3. PICK d : H2DAdds(q, s, n, b, r, d)
  BY <1>1, <1>2, CallAdds DEF Ordered
<1>4. /\ s \in Seq(OpType) /\ Len(q) <= Len(s)
      /\ \A x \in Len(q) + 1 .. Len(s) :
            \E k \in 0 .. n - 1, p \in Rank \ {r} : s[x] = Pull(n, b, r, k, p, d[p])
      /\ \A k \in 0 .. n - 1, p \in Rank \ {r} :
            \E x \in Len(q) + 1 .. Len(s) : s[x] = Pull(n, b, r, k, p, d[p])
  BY <1>3 DEF H2DAdds, Grown
<1>5. Len(s) \in Nat /\ Len(q) \in Nat
  BY <1>4
<1>7. ASSUME NEW x \in Len(q) + 1 .. Len(s)
      PROVE  s[x].call = call_count + 1 /\ s[x].peer \in Rank \ {r} /\ s[x].chunk \in 0 .. n - 1
  <2>1. PICK k \in 0 .. n - 1, p \in Rank \ {r} : s[x] = Pull(n, b, r, k, p, d[p])
    BY <1>4
  <2>2. s[x].call = call_count + 1 /\ s[x].peer = p /\ s[x].chunk = k
    BY <2>1 DEF Pull, Op
  <2> QED BY <2>2
<1>8. \A x \in Len(q) + 1 .. Len(s) : x \in 1 .. Len(s)
  BY <1>5
<1>9. ASSUME NEW k \in 0 .. n - 1, NEW p \in Rank \ {r}
      PROVE  \E x \in 1 .. Len(s) : s[x].call = call_count + 1 /\ s[x].peer = p /\ s[x].chunk = k
  <2>1. PICK x \in Len(q) + 1 .. Len(s) : s[x] = Pull(n, b, r, k, p, d[p])
    BY <1>4
  <2>2. s[x].call = call_count + 1 /\ s[x].peer = p /\ s[x].chunk = k
    BY <2>1 DEF Pull, Op
  <2> QED BY <1>8, <2>2
<1>10. H2DTail(q, s, call_count + 1, n, r)
  BY <1>5, <1>7, <1>9 DEF H2DTail
<1> QED BY <1>1, <1>2, <1>10

(* Nothing is enqueued, nothing stands anywhere. *)
LEMMA InitShape == Init => Shape
<1> SUFFICES ASSUME Init PROVE Shape
  OBVIOUS
<1>1. Len(<<>>) = 0
  OBVIOUS
<1>2. \A g \in Engine, r \in Rank : Pos(g, r) = {}
  BY <1>1 DEF Init, Pos
<1>3. "comp" \in Engine /\ "d2h" \in Engine /\ "h2d" \in Engine
  BY DEF Engine
<1> QED BY <1>2, <1>3 DEF Shape

(* A new add has before it what it needs. *)
LEMMA NewAddShape ==
    ASSUME Ordered, NEW n, NEW b, NEW idle, Call(n, b, idle), StreamTypes', NEW r \in Rank,
           NEW x \in Pos("comp", r)', x \notin Pos("comp", r), queue'["comp"][r][x].kind = "add"
    PROVE  AddShape(r, x)'
<1>1. "comp" \in Engine /\ "d2h" \in Engine /\ "h2d" \in Engine
  BY DEF Engine
<1>2. PICK q : q = queue["comp"][r]
  OBVIOUS
<1>3. PICK s : s = queue'["comp"][r]
  OBVIOUS
<1>4. PICK c : c = call_count + 1
  OBVIOUS
<1>5. PICK i : i = (r \in idle)
  OBVIOUS
<1>6. PICK l \in Nat : CompTail(q, s, c, n, b, i, l)
  BY <1>2, <1>3, <1>4, <1>5, NewTail
<1>7. x \in Len(q) + 1 .. Len(s)
  BY <1>1, <1>2, <1>3, CallPositions DEF Ordered
<1>8. x = l /\ x - 1 \in Len(q) + 1 .. l /\ x \in Len(q) + 1 .. l
  BY <1>3, <1>6, <1>7 DEF CompTail
<1>9. /\ s[x].call = c /\ s[x].chunks = n /\ s[x].bf16 = b
      /\ s[x - 1].call = c /\ s[x - 1].chunks = n /\ s[x - 1].bf16 = b
  BY <1>6, <1>8 DEF CompTail
<1>10. s[x - 1].kind = IF b THEN (IF i THEN "zero" ELSE "convert")
                            ELSE (IF i THEN "scratch" ELSE "produce")
  BY <1>6, <1>8 DEF CompTail
<1>11. Len(q) \in Nat
  BY <1>1, <1>2, StreamFacts DEF Ordered
<1>12. x - 1 \in Pos("comp", r)'
  BY <1>3, <1>6, <1>8, <1>11 DEF CompTail, Pos
<1>13. s[x - 1].kind \in IF b THEN {"convert", "zero"} ELSE {"produce", "scratch"}
  <2>1. CASE b
    <3>1. s[x - 1].kind = IF i THEN "zero" ELSE "convert"
      BY <1>10, <2>1
    <3>2. s[x - 1].kind \in {"convert", "zero"}
      BY <3>1
    <3> QED BY <2>1, <3>2
  <2>2. CASE ~b
    <3>1. s[x - 1].kind = IF i THEN "scratch" ELSE "produce"
      BY <1>10, <2>2
    <3>2. s[x - 1].kind \in {"produce", "scratch"}
      BY <3>1
    <3> QED BY <2>2, <3>2
  <2> QED BY <2>1, <2>2
<1>14. ASSUME s[x - 1].kind = "scratch" PROVE ZeroAmong(r, c, Pos("d2h", r))'
  <2>1. ~b
    <3>1. ASSUME b PROVE FALSE
      <4>1. s[x - 1].kind = IF i THEN "zero" ELSE "convert"
        BY <1>10, <3>1
      <4> QED BY <1>14, <4>1
    <3> QED BY <3>1
  <2>2. i
    <3>1. ASSUME ~i PROVE FALSE
      <4>1. s[x - 1].kind = "produce"
        BY <1>10, <2>1, <3>1
      <4> QED BY <1>14, <4>1
    <3> QED BY <3>1
  <2>3. PICK u : u = queue["d2h"][r]
    OBVIOUS
  <2>4. PICK v : v = queue'["d2h"][r]
    OBVIOUS
  <2>5. D2HTail(u, v, c, n, b, i)
    BY <1>4, <1>5, <2>3, <2>4, NewD2H
  <2>6. PICK y : y \in 1 .. Len(v) /\ v[y].kind = "zero" /\ v[y].call = c
    BY <2>1, <2>2, <2>5 DEF D2HTail
  <2> QED BY <2>4, <2>6 DEF ZeroAmong, Pos
<1>15. ASSUME NEW k \in 0 .. n - 1, NEW p \in Rank \ {r}
       PROVE  \E y \in Pos("h2d", r)' : LET o == queue'["h2d"][r][y] IN
                                        o.call = c /\ o.peer = p /\ o.chunk = k
  <2>1. PICK u : u = queue["h2d"][r]
    OBVIOUS
  <2>2. PICK v : v = queue'["h2d"][r]
    OBVIOUS
  <2>3. H2DTail(u, v, c, n, r)
    BY <1>4, <2>1, <2>2, NewH2D
  <2>4. PICK y : y \in 1 .. Len(v) /\ v[y].call = c /\ v[y].peer = p /\ v[y].chunk = k
    BY <2>3 DEF H2DTail
  <2> QED BY <2>2, <2>4 DEF Pos
<1> QED BY <1>3, <1>9, <1>12, <1>13, <1>14, <1>15 DEF AddShape, SameCall

(* A new conversion has before it what it needs. *)
LEMMA NewConvertShape ==
    ASSUME Ordered, NEW n, NEW b, NEW idle, Call(n, b, idle), StreamTypes', NEW r \in Rank,
           NEW x \in Pos("comp", r)', x \notin Pos("comp", r), queue'["comp"][r][x].kind = "convert"
    PROVE  ConvertShape(r, x)'
<1>1. "comp" \in Engine
  BY DEF Engine
<1>2. PICK q : q = queue["comp"][r]
  OBVIOUS
<1>3. PICK s : s = queue'["comp"][r]
  OBVIOUS
<1>4. PICK c : c = call_count + 1
  OBVIOUS
<1>5. PICK i : i = (r \in idle)
  OBVIOUS
<1>6. PICK l \in Nat : CompTail(q, s, c, n, b, i, l)
  BY <1>2, <1>3, <1>4, <1>5, NewTail
<1>7. x \in Len(q) + 1 .. Len(s)
  BY <1>1, <1>2, <1>3, CallPositions DEF Ordered
<1>8. x \in Len(q) + 1 .. l /\ l = Len(s)
  BY <1>6, <1>7 DEF CompTail
<1>9. x = l - 1 /\ b /\ ~i
  BY <1>3, <1>6, <1>8 DEF CompTail
<1>10. l - 2 \in Len(q) + 1 .. l /\ s[l - 2].kind = "produce"
  BY <1>6, <1>9 DEF CompTail
<1>11. x - 1 = l - 2
  BY <1>9
<1>12. /\ s[x].call = c /\ s[x].chunks = n /\ s[x].bf16 = b
       /\ s[x - 1].call = c /\ s[x - 1].chunks = n /\ s[x - 1].bf16 = b
  BY <1>6, <1>8, <1>10, <1>11 DEF CompTail
<1>13. Len(q) \in Nat
  BY <1>1, <1>2, StreamFacts DEF Ordered
<1>14. x - 1 \in Pos("comp", r)'
  BY <1>3, <1>8, <1>10, <1>11, <1>13 DEF Pos
<1> QED BY <1>3, <1>10, <1>11, <1>12, <1>14 DEF ConvertShape, SameCall

(* A new operation to the host has the add of its call. *)
LEMMA NewD2HShape ==
    ASSUME Ordered, NEW n, NEW b, NEW idle, Call(n, b, idle), StreamTypes', NEW r \in Rank,
           NEW x \in Pos("d2h", r)', x \notin Pos("d2h", r)
    PROVE  \E y \in Pos("comp", r)' : D2HShape(r, x, y)'
<1>1. "comp" \in Engine /\ "d2h" \in Engine
  BY DEF Engine
<1>2. PICK q : q = queue["comp"][r]
  OBVIOUS
<1>3. PICK s : s = queue'["comp"][r]
  OBVIOUS
<1>4. PICK c : c = call_count + 1
  OBVIOUS
<1>5. PICK i : i = (r \in idle)
  OBVIOUS
<1>6. PICK l \in Nat : CompTail(q, s, c, n, b, i, l)
  BY <1>2, <1>3, <1>4, <1>5, NewTail
<1>7. PICK u : u = queue["d2h"][r]
  OBVIOUS
<1>8. PICK v : v = queue'["d2h"][r]
  OBVIOUS
<1>9. D2HTail(u, v, c, n, b, i)
  BY <1>4, <1>5, <1>7, <1>8, NewD2H
<1>10. x \in Len(u) + 1 .. Len(v)
  BY <1>1, <1>7, <1>8, CallPositions DEF Ordered
<1>11. Len(q) \in Nat
  BY <1>1, <1>2, StreamFacts DEF Ordered
<1>12. l \in Len(q) + 1 .. l /\ l \in 1 .. Len(s)
  BY <1>6, <1>11 DEF CompTail
<1>13. /\ s[l].kind = "add" /\ s[l].call = c /\ s[l].chunks = n /\ s[l].bf16 = b
       /\ s[l - 1].kind = IF b THEN (IF i THEN "zero" ELSE "convert")
                               ELSE (IF i THEN "scratch" ELSE "produce")
  BY <1>6, <1>12 DEF CompTail
<1>14. /\ v[x].call = c /\ v[x].chunks = n /\ v[x].bf16 = b
       /\ v[x].kind = "zero" => i /\ ~b
  BY <1>9, <1>10 DEF D2HTail
<1>15. ASSUME v[x].kind = "zero" PROVE s[l - 1].kind = "scratch"
  BY <1>13, <1>14, <1>15
<1>16. ASSUME v[x].kind = "d2h", s[l - 1].kind = "scratch" PROVE ZeroAmong(r, c, 1 .. x - 1)'
  <2>1. ~b
    <3>1. ASSUME b PROVE FALSE
      <4>1. s[l - 1].kind = IF i THEN "zero" ELSE "convert"
        BY <1>13, <3>1
      <4> QED BY <1>16, <4>1
    <3> QED BY <3>1
  <2>2. i
    <3>1. ASSUME ~i PROVE FALSE
      <4>1. s[l - 1].kind = "produce"
        BY <1>13, <2>1, <3>1
      <4> QED BY <1>16, <4>1
    <3> QED BY <3>1
  <2>3. PICK z : z \in 1 .. x - 1 /\ v[z].kind = "zero" /\ v[z].call = c
    BY <1>9, <1>10, <1>16, <2>1, <2>2 DEF D2HTail
  <2> QED BY <1>8, <2>3 DEF ZeroAmong
<1>17. l \in Pos("comp", r)'
  BY <1>3, <1>12 DEF Pos
<1>18. D2HShape(r, x, l)'
  BY <1>3, <1>8, <1>13, <1>14, <1>15, <1>16 DEF D2HShape, SameCall
<1> QED BY <1>17, <1>18

(* A new operation from the host has the copy to it. *)
LEMMA NewH2DShape ==
    ASSUME Ordered, NEW n, NEW b, NEW idle, Call(n, b, idle), NEW r \in Rank,
           NEW x \in Pos("h2d", r)', x \notin Pos("h2d", r)
    PROVE  H2DShape(r, x)'
<1>1. "h2d" \in Engine
  BY DEF Engine
<1>2. PICK u : u = queue["h2d"][r]
  OBVIOUS
<1>3. PICK v : v = queue'["h2d"][r]
  OBVIOUS
<1>4. PICK c : c = call_count + 1
  OBVIOUS
<1>5. H2DTail(u, v, c, n, r)
  BY <1>2, <1>3, <1>4, NewH2D
<1>6. x \in Len(u) + 1 .. Len(v)
  BY <1>1, <1>2, <1>3, CallPositions DEF Ordered
<1>7. v[x].call = c /\ v[x].peer \in Rank /\ v[x].chunk \in 0 .. n - 1
  BY <1>5, <1>6 DEF H2DTail
<1>8. PICK p \in Rank : p = v[x].peer
  BY <1>7
<1>9. PICK i : i = (p \in idle)
  OBVIOUS
<1>10. PICK e : e = queue["d2h"][p]
  OBVIOUS
<1>11. PICK f : f = queue'["d2h"][p]
  OBVIOUS
<1>12. D2HTail(e, f, c, n, b, i)
  BY <1>4, <1>9, <1>10, <1>11, NewD2H
<1>13. PICK y : y \in 1 .. Len(f) /\ f[y].kind = "d2h" /\ f[y].call = c /\ f[y].chunk = v[x].chunk
  BY <1>7, <1>12 DEF D2HTail
<1>14. y \in Pos("d2h", p)'
  BY <1>11, <1>13 DEF Pos
<1> QED BY <1>3, <1>7, <1>8, <1>11, <1>13, <1>14 DEF H2DShape

(* What stood with an operation still does when more is enqueued. *)
LEMMA ShapesKept ==
    ASSUME Ordered, Shape, NEW n, NEW b, NEW idle, Call(n, b, idle), NEW r \in Rank
    PROVE  /\ \A x \in Pos("comp", r) :
                 /\ queue["comp"][r][x].kind = "add" => AddShape(r, x)'
                 /\ queue["comp"][r][x].kind = "convert" => ConvertShape(r, x)'
           /\ \A x \in Pos("d2h", r) : \E y \in Pos("comp", r)' : D2HShape(r, x, y)'
           /\ \A x \in Pos("h2d", r) : H2DShape(r, x)'
<1>1. "comp" \in Engine /\ "d2h" \in Engine /\ "h2d" \in Engine
  BY DEF Engine
<1>2. /\ \A x \in Pos("comp", r) : x \in Pos("comp", r)' /\ queue'["comp"][r][x] = queue["comp"][r][x]
      /\ \A x \in Pos("h2d", r) : x \in Pos("h2d", r)' /\ queue'["h2d"][r][x] = queue["h2d"][r][x]
      /\ \A p \in Rank : \A x \in Pos("d2h", p) :
            x \in Pos("d2h", p)' /\ queue'["d2h"][p][x] = queue["d2h"][p][x]
  BY <1>1, OldOps
<1>3. ASSUME NEW c, NEW X \in SUBSET Pos("d2h", r), NEW Y, X \subseteq Y, ZeroAmong(r, c, X)
      PROVE  \E z \in Y : queue'["d2h"][r][z].kind = "zero" /\ queue'["d2h"][r][z].call = c
  BY <1>2, <1>3 DEF ZeroAmong
<1>4. ASSUME NEW x \in Pos("comp", r), queue["comp"][r][x].kind = "add" PROVE AddShape(r, x)'
  <2>1. AddShape(r, x)
    BY <1>4 DEF Shape
  <2>2. x - 1 \in Pos("comp", r)
    BY <2>1 DEF AddShape
  <2>3. queue'["comp"][r][x] = queue["comp"][r][x] /\ queue'["comp"][r][x - 1] = queue["comp"][r][x - 1]
    BY <1>2, <2>2
  <2>4. x - 1 \in Pos("comp", r)'
    BY <1>2, <2>2
  <2>5. Pos("d2h", r) \subseteq Pos("d2h", r)'
    BY <1>2
  <2>6. ASSUME queue["comp"][r][x - 1].kind = "scratch"
        PROVE  \E z \in Pos("d2h", r)' : /\ queue'["d2h"][r][z].kind = "zero"
                                         /\ queue'["d2h"][r][z].call = queue["comp"][r][x].call
    <3>1. ZeroAmong(r, queue["comp"][r][x].call, Pos("d2h", r))
      BY <2>1, <2>6 DEF AddShape
    <3> QED BY <1>3, <2>5, <3>1
  <2>7. ASSUME NEW k \in 0 .. queue["comp"][r][x].chunks - 1, NEW p \in Rank \ {r}
        PROVE  \E y \in Pos("h2d", r)' : LET q == queue'["h2d"][r][y] IN
                   q.call = queue["comp"][r][x].call /\ q.peer = p /\ q.chunk = k
    <3>1. PICK y \in Pos("h2d", r) : LET q == queue["h2d"][r][y] IN
                   q.call = queue["comp"][r][x].call /\ q.peer = p /\ q.chunk = k
      BY <2>1 DEF AddShape
    <3> QED BY <1>2, <3>1
  <2>8. PICK o : o = queue["comp"][r][x]
    OBVIOUS
  <2>9. PICK w : w = queue["comp"][r][x - 1]
    OBVIOUS
  <2>10. SameCall(w, o) /\ w.kind \in IF o.bf16 THEN {"convert", "zero"} ELSE {"produce", "scratch"}
    BY <2>1, <2>8, <2>9 DEF AddShape
  <2>11. queue'["comp"][r][x] = o /\ queue'["comp"][r][x - 1] = w
    BY <2>3, <2>8, <2>9
  <2>12. w.kind = "scratch" => ZeroAmong(r, o.call, Pos("d2h", r))'
    BY <2>6, <2>8, <2>9 DEF ZeroAmong
  <2>13. \A k \in 0 .. o.chunks - 1, p \in Rank \ {r} : \E y \in Pos("h2d", r)' :
            LET q == queue'["h2d"][r][y] IN q.call = o.call /\ q.peer = p /\ q.chunk = k
    BY <2>7, <2>8
  <2> QED BY <2>4, <2>10, <2>11, <2>12, <2>13 DEF AddShape
<1>5. ASSUME NEW x \in Pos("comp", r), queue["comp"][r][x].kind = "convert" PROVE ConvertShape(r, x)'
  <2>1. ConvertShape(r, x)
    BY <1>5 DEF Shape
  <2>2. x - 1 \in Pos("comp", r)
    BY <2>1 DEF ConvertShape
  <2> QED BY <1>2, <2>1, <2>2 DEF ConvertShape
<1>6. ASSUME NEW x \in Pos("d2h", r) PROVE \E y \in Pos("comp", r)' : D2HShape(r, x, y)'
  <2>1. PICK y \in Pos("comp", r) : D2HShape(r, x, y)
    BY DEF Shape
  <2>2. y - 1 \in Pos("comp", r)
    <3>1. AddShape(r, y)
      BY <2>1 DEF D2HShape, Shape
    <3> QED BY <3>1 DEF AddShape
  <2>3. /\ queue'["d2h"][r][x] = queue["d2h"][r][x]
        /\ queue'["comp"][r][y] = queue["comp"][r][y]
        /\ queue'["comp"][r][y - 1] = queue["comp"][r][y - 1]
        /\ y \in Pos("comp", r)'
    BY <1>2, <2>2
  <2>4. 1 .. x - 1 \subseteq Pos("d2h", r)
    <3>1. Len(queue["d2h"][r]) \in Nat
      BY <1>1, StreamFacts DEF Ordered
    <3> QED BY <3>1 DEF Pos
  <2>5. ASSUME queue["d2h"][r][x].kind = "d2h", queue["comp"][r][y - 1].kind = "scratch"
        PROVE  \E z \in 1 .. x - 1 : /\ queue'["d2h"][r][z].kind = "zero"
                                     /\ queue'["d2h"][r][z].call = queue["d2h"][r][x].call
    <3>1. ZeroAmong(r, queue["d2h"][r][x].call, 1 .. x - 1)
      BY <2>1, <2>5 DEF D2HShape
    <3> QED BY <1>3, <2>4, <3>1
  <2>6. D2HShape(r, x, y)'
    BY <2>1, <2>3, <2>5 DEF D2HShape, ZeroAmong
  <2> QED BY <2>3, <2>6
<1>7. ASSUME NEW x \in Pos("h2d", r) PROVE H2DShape(r, x)'
  <2>1. H2DShape(r, x)
    BY DEF Shape
  <2>2. queue["h2d"][r][x].peer \in Rank
    BY <1>1, StreamFacts DEF Ordered, OpType
  <2>3. PICK o : o = queue["h2d"][r][x]
    OBVIOUS
  <2>4. PICK y \in Pos("d2h", o.peer) : LET q == queue["d2h"][o.peer][y] IN
                                        q.kind = "d2h" /\ q.call = o.call /\ q.chunk = o.chunk
    BY <2>1, <2>3 DEF H2DShape
  <2>5. y \in Pos("d2h", o.peer)' /\ queue'["d2h"][o.peer][y] = queue["d2h"][o.peer][y]
    BY <1>2, <2>2, <2>3
  <2>6. queue'["h2d"][r][x] = o
    BY <1>2, <2>3
  <2> QED BY <2>4, <2>5, <2>6 DEF H2DShape
<1> QED BY <1>4, <1>5, <1>6, <1>7

(* The streams keep their shape. *)
LEMMA CallShape ==
    ASSUME Ordered, Shape, NEW n, NEW b, NEW idle, Call(n, b, idle), StreamTypes'
    PROVE  Shape'
<1>1. "comp" \in Engine /\ "d2h" \in Engine /\ "h2d" \in Engine
  BY DEF Engine
<1>2. ASSUME NEW r \in Rank, NEW x \in Pos("comp", r)'
      PROVE  /\ queue'["comp"][r][x].kind = "add" => AddShape(r, x)'
             /\ queue'["comp"][r][x].kind = "convert" => ConvertShape(r, x)'
  <2>1. CASE x \in Pos("comp", r)
    <3>1. queue'["comp"][r][x] = queue["comp"][r][x]
      BY <1>1, <2>1, OldOps
    <3> QED BY <2>1, <3>1, ShapesKept
  <2>2. CASE x \notin Pos("comp", r)
    BY <2>2, NewAddShape, NewConvertShape
  <2> QED BY <2>1, <2>2
<1>3. ASSUME NEW r \in Rank, NEW x \in Pos("d2h", r)'
      PROVE  \E y \in Pos("comp", r)' : D2HShape(r, x, y)'
  BY ShapesKept, NewD2HShape
<1>4. ASSUME NEW r \in Rank, NEW x \in Pos("h2d", r)' PROVE H2DShape(r, x)'
  BY ShapesKept, NewH2DShape
<1>5. ASSUME NEW g \in Engine, NEW r \in Rank, NEW x \in Pos(g, r)', NEW y \in Pos(g, r)', x <= y
      PROVE  queue'[g][r][x].call <= queue'[g][r][y].call
  <2>1. call_count \in Nat /\ x \in Nat /\ y \in Nat /\ Len(queue[g][r]) \in Nat
    BY CallPositions, StreamFacts DEF Ordered, StreamTypes
  <2>2. ASSUME NEW z \in Pos(g, r)', z \notin Pos(g, r)
        PROVE  queue'[g][r][z].call = call_count + 1 /\ z \in Len(queue[g][r]) + 1 .. Len(queue'[g][r])
    BY <2>2, CallPositions DEF OfCall, Ordered
  <2>3. ASSUME NEW z \in Pos(g, r)
        PROVE  queue'[g][r][z] = queue[g][r][z] /\ queue[g][r][z].call \in 1 .. call_count
    BY OldOps, StreamFacts DEF Ordered
  <2>4. CASE y \in Pos(g, r)
    <3>1. x \in Pos(g, r)
      <4>1. ASSUME x \notin Pos(g, r) PROVE FALSE
        BY <1>5, <2>1, <2>2, <2>4, <4>1 DEF Pos
      <4> QED BY <4>1
    <3> QED BY <1>5, <2>3, <2>4, <3>1 DEF Shape
  <2>5. CASE y \notin Pos(g, r)
    <3>1. queue'[g][r][y].call = call_count + 1
      BY <2>2, <2>5
    <3>2. queue'[g][r][x].call = call_count + 1 \/ queue'[g][r][x].call \in 1 .. call_count
      BY <2>2, <2>3
    <3> QED BY <2>1, <3>1, <3>2
  <2> QED BY <2>4, <2>5
<1> QED BY <1>2, <1>3, <1>4, <1>5 DEF Shape

(* Nor does running what was enqueued change it. *)
LEMMA NextShape == Ordered /\ Shape /\ [Next]_vars => Shape'
<1> SUFFICES ASSUME Ordered, Shape, [Next]_vars PROVE Shape'
  OBVIOUS
<1>1. ASSUME queue' = queue PROVE Shape'
  <2>1. \A g, r : Pos(g, r)' = Pos(g, r)
    BY <1>1 DEF Pos
  <2>2. \A r, c, X : ZeroAmong(r, c, X)' <=> ZeroAmong(r, c, X)
    BY <1>1 DEF ZeroAmong
  <2>3. \A r, x : AddShape(r, x)' <=> AddShape(r, x)
    BY <1>1, <2>1, <2>2 DEF AddShape
  <2>4. \A r, x : ConvertShape(r, x)' <=> ConvertShape(r, x)
    BY <1>1, <2>1 DEF ConvertShape
  <2>5. \A r, x, y : D2HShape(r, x, y)' <=> D2HShape(r, x, y)
    BY <1>1, <2>2 DEF D2HShape
  <2>6. \A r, x : H2DShape(r, x)' <=> H2DShape(r, x)
    BY <1>1, <2>1 DEF H2DShape
  <2> QED BY <1>1, <2>1, <2>3, <2>4, <2>5, <2>6 DEF Shape
<1>2. ASSUME NEW n, NEW b, NEW idle, Call(n, b, idle) PROVE Shape'
  BY <1>2, NextOrdered, CallShape DEF Ordered
<1> QED BY <1>1, <1>2, Steps DEF Completed, vars

-----------------------------------------------------------------------------
(* The sum, in rank order.                                                  *)

(* g[i] joins the first i of the n sequences s. *)
Joined(g, s, n) == g = [i \in 1 .. n |-> IF i = 1 THEN s[i] ELSE g[i - 1] \o s[i]]

(* What a sequence and one element more is. *)
LEMMA Extended ==
    ASSUME NEW T, NEW a \in Seq(T), NEW x \in T
    PROVE  LET s == a \o <<x>>
           IN  /\ s \in Seq(T) /\ Len(s) = Len(a) + 1
               /\ \A p \in 1 .. Len(a) : s[p] = a[p]
               /\ s[Len(a) + 1] = x
OBVIOUS

(* A sequence and one more. *)
LEMMA OneMore ==
    ASSUME NEW T, NEW n \in Nat \ {0}, NEW f \in [1 .. n -> T], NEW i \in 2 .. n
    PROVE  [p \in 1 .. i - 1 |-> f[p]] \o <<f[i]>> = [p \in 1 .. i |-> f[p]]
<1>1. i \in Nat /\ i - 1 \in Nat /\ i \in 1 .. n
  OBVIOUS
<1>2. PICK a \in Seq(T) : a = [p \in 1 .. i - 1 |-> f[p]]
  <2>1. \A p \in 1 .. i - 1 : f[p] \in T
    BY <1>1
  <2>2. [p \in 1 .. i - 1 |-> f[p]] \in Seq(T)
    BY <1>1, <2>1
  <2> QED BY <2>2
<1>3. PICK d \in Seq(T) : d = [p \in 1 .. i |-> f[p]]
  <2>1. \A p \in 1 .. i : f[p] \in T
    BY <1>1
  <2>2. [p \in 1 .. i |-> f[p]] \in Seq(T)
    BY <1>1, <2>1
  <2> QED BY <2>2
<1>4. Len(a) = i - 1 /\ Len(d) = i
  BY <1>1, <1>2, <1>3
<1>5. \A p \in 1 .. i - 1 : a[p] = f[p]
  BY <1>2
<1>6. \A p \in 1 .. i : d[p] = f[p]
  BY <1>3
<1>7. PICK s : s = a \o <<f[i]>>
  OBVIOUS
<1>8. /\ s \in Seq(T) /\ Len(s) = Len(a) + 1
      /\ \A p \in 1 .. Len(a) : s[p] = a[p]
      /\ s[Len(a) + 1] = f[i]
  <2>1. f[i] \in T
    BY <1>1
  <2>2. PICK x \in T : x = f[i]
    BY <2>1
  <2>3. a \in Seq(T)
    BY <1>2
  <2>4. LET z == a \o <<x>>
        IN  /\ z \in Seq(T) /\ Len(z) = Len(a) + 1
            /\ \A p \in 1 .. Len(a) : z[p] = a[p]
            /\ z[Len(a) + 1] = x
    BY <2>2, <2>3, Extended
  <2> QED BY <1>7, <2>2, <2>4
<1>9. Len(s) = i /\ (\A p \in 1 .. i - 1 : s[p] = a[p]) /\ s[i] = f[i]
  <2>1. Len(a) + 1 = i
    BY <1>1, <1>4
  <2> QED BY <1>4, <1>8, <2>1
<1>10. \A p \in 1 .. i : s[p] = d[p]
  <2> TAKE p \in 1 .. i
  <2>1. CASE p = i
    BY <1>6, <1>9, <2>1
  <2>2. CASE p # i
    <3>1. p \in 1 .. i - 1
      BY <1>1, <2>2
    <3> QED BY <1>5, <1>6, <1>9, <3>1
  <2> QED BY <2>1, <2>2
<1>11. s = d
  BY <1>4, <1>8, <1>9, <1>10
<1> QED BY <1>2, <1>3, <1>7, <1>11

(* s is made of sequences of one element, those of f. *)
Ones(s, f, n, T) ==
    /\ n \in Nat \ {0} /\ f \in [1 .. n -> T]
    /\ Len(s) = n /\ \A i \in 1 .. n : s[i] = <<f[i]>>

(* Joining sequences of one element gives the sequence of the elements. *)
LEMMA FlattenOnes ==
    ASSUME NEW T, NEW n, NEW f, NEW s, Ones(s, f, n, T)
    PROVE  FlattenSeq(s) = f
<1> DEFINE h == [i \in 1 .. n |-> [p \in 1 .. i |-> f[p]]]
           g == CHOOSE g : g = [i \in 1 .. Len(s) |-> IF i = 1 THEN s[i] ELSE g[i - 1] \o s[i]]
<1>1. Len(s) = n /\ n \in Nat \ {0} /\ f \in [1 .. n -> T] /\ \A i \in 1 .. n : s[i] = <<f[i]>>
  BY DEF Ones
<1>2. /\ \A i \in 1 .. n : h[i] = [p \in 1 .. i |-> f[p]]
      /\ h = [i \in 1 .. n |-> h[i]]
  OBVIOUS
<1> HIDE DEF h
<1>3. h[1] = s[1]
  <2>1. 1 \in 1 .. n
    BY <1>1
  <2>2. [p \in 1 .. 1 |-> f[p]] = <<f[1]>>
    BY <2>1
  <2>3. h[1] = [p \in 1 .. 1 |-> f[p]]
    BY <1>2, <2>1
  <2> QED BY <1>1, <2>1, <2>2, <2>3
<1>4. ASSUME NEW i \in 1 .. n, i # 1 PROVE h[i] = h[i - 1] \o s[i]
  <2>1. i \in 2 .. n /\ i - 1 \in 1 .. n
    BY <1>1, <1>4
  <2>2. [p \in 1 .. i - 1 |-> f[p]] \o <<f[i]>> = [p \in 1 .. i |-> f[p]]
    BY <1>1, <2>1, OneMore
  <2>3. h[i - 1] = [p \in 1 .. i - 1 |-> f[p]] /\ h[i] = [p \in 1 .. i |-> f[p]] /\ s[i] = <<f[i]>>
    BY <1>1, <1>2, <2>1
  <2> QED BY <2>2, <2>3
<1>5. Joined(h, s, n)
  <2>1. \A i \in 1 .. n : h[i] = IF i = 1 THEN s[i] ELSE h[i - 1] \o s[i]
    BY <1>3, <1>4
  <2> QED BY <1>2, <2>1 DEF Joined
<1>6. Joined(g, s, n)
  <2>1. Joined(h, s, Len(s))
    BY <1>1, <1>5
  <2>2. Joined(g, s, Len(s))
    BY <2>1 DEF Joined
  <2> QED BY <1>1, <2>2
<1>7. FlattenSeq(s) = g[n]
  BY <1>1 DEF FlattenSeq
<1> HIDE DEF g
<1>8. \A i \in 1 .. n : g[i] = IF i = 1 THEN s[i] ELSE g[i - 1] \o s[i]
  <2> DEFINE step(i) == IF i = 1 THEN s[i] ELSE g[i - 1] \o s[i]
  <2>1. g = [i \in 1 .. n |-> step(i)]
    BY <1>6 DEF Joined
  <2> HIDE DEF step
  <2>2. \A i \in 1 .. n : g[i] = step(i)
    BY <2>1
  <2> QED BY <2>2 DEF step
<1> DEFINE S == {k \in Nat : k < n => g[k + 1] = h[k + 1]}
<1>9. 0 \in S
  BY <1>1, <1>3, <1>8
<1>10. ASSUME NEW k \in Nat, k \in S PROVE k + 1 \in S
  <2> SUFFICES ASSUME k + 1 < n PROVE g[k + 2] = h[k + 2]
    OBVIOUS
  <2>1. k + 2 \in 1 .. n /\ k + 2 # 1 /\ (k + 2) - 1 = k + 1 /\ k < n
    BY <1>1
  <2>2. g[k + 1] = h[k + 1]
    BY <1>10, <2>1
  <2>3. g[k + 2] = g[k + 1] \o s[k + 2]
    BY <1>8, <2>1
  <2>4. h[k + 2] = h[k + 1] \o s[k + 2]
    BY <1>4, <2>1
  <2> QED BY <2>2, <2>3, <2>4
<1> HIDE DEF S
<1>11. Nat \subseteq S
  BY <1>9, <1>10, Induction
<1>12. n - 1 \in Nat /\ (n - 1) + 1 = n /\ n - 1 < n
  BY <1>1
<1>13. g[n] = h[n]
  BY <1>11, <1>12 DEF S
<1>14. h[n] = f
  BY <1>1, <1>2
<1> QED BY <1>7, <1>13, <1>14

(* What r sums when it has its own and every peer's contribution. *)
LEMMA Contributed ==
    ASSUME NEW r \in Rank, NEW k \in Chunk, NEW c, data[r][k] = Own(r, c),
           \A p \in Rank \ {r} : dev_tmp[r][p][k] = Own(p, c)
    PROVE  Contributions(r, k) = SumOf(c)
<1>1. NRanks \in Nat \ {0}
  BY CopyAssumption
<1> DEFINE s == [p \in 1 .. NRanks |-> IF p - 1 = r THEN data[r][k] ELSE dev_tmp[r][p - 1][k]]
           f == SumOf(c)
<1>2. f \in [1 .. NRanks -> Rank \X {c}]
  <2>1. \A p \in 1 .. NRanks : <<p - 1, c>> \in Rank \X {c}
    BY <1>1 DEF Rank
  <2> QED BY <2>1 DEF SumOf
<1>3. \A p \in 1 .. NRanks : f[p] = <<p - 1, c>>
  BY DEF SumOf
<1>4. \A p \in 1 .. NRanks : (IF p - 1 = r THEN data[r][k] ELSE dev_tmp[r][p - 1][k]) = <<f[p]>>
  <2> TAKE p \in 1 .. NRanks
  <2>1. p - 1 \in Rank
    BY <1>1 DEF Rank
  <2>2. CASE p - 1 = r
    BY <1>3, <2>2 DEF Own
  <2>3. CASE p - 1 # r
    <3>1. dev_tmp[r][p - 1][k] = Own(p - 1, c)
      BY <2>1, <2>3
    <3> QED BY <1>3, <2>3, <3>1 DEF Own
  <2> QED BY <2>2, <2>3
<1> HIDE DEF f
<1>5. s = [p \in 1 .. NRanks |-> <<f[p]>>]
  BY <1>4
<1> HIDE DEF s
<1>6. FlattenSeq(s) = f
  <2>1. PICK T : T = Rank \X {c}
    OBVIOUS
  <2>2. f \in [1 .. NRanks -> T]
    BY <1>2, <2>1
  <2> DEFINE e(p) == <<f[p]>>
  <2>3. PICK U : U = Seq(T)
    OBVIOUS
  <2>4. \A p \in 1 .. NRanks : e(p) \in U
    BY <2>2, <2>3
  <2>5. s = [p \in 1 .. NRanks |-> e(p)]
    BY <1>5
  <2> HIDE DEF e
  <2>6. s \in Seq(U) /\ Len(s) = NRanks /\ \A p \in 1 .. NRanks : s[p] = e(p)
    BY <1>1, <2>4, <2>5
  <2>7. Ones(s, f, NRanks, T)
    BY <1>1, <2>2, <2>6 DEF Ones, e
  <2> QED BY <2>7, FlattenOnes
<1> QED BY <1>6 DEF Contributions, s, f

-----------------------------------------------------------------------------
(* What has run when an operation does.                                     *)

(* When r copies to the host, its compute stream has come to just before    *)
(* the add of the same call.                                                *)
LEMMA AtCopy ==
    ASSUME Ordered, Shape, NEW r \in Rank, Ready("d2h", r)
    PROVE  \E y \in Pos("comp", r) : /\ D2HShape(r, ran["d2h"][r] + 1, y)
                                     /\ AddShape(r, y)
                                     /\ ran["comp"][r] = y - 1
<1> USE DEF Ordered
<1>1. "comp" \in Engine /\ "d2h" \in Engine
  BY DEF Engine
<1>2. PICK x \in Pos("d2h", r) : x = ran["d2h"][r] + 1 /\ ran["d2h"][r] \in Nat
  BY <1>1, ReadyHead
<1>3. PICK y \in Pos("comp", r) : D2HShape(r, x, y)
  BY DEF Shape
<1>4. AddShape(r, y) /\ y - 1 \in Pos("comp", r)
  <2>1. AddShape(r, y)
    BY <1>3 DEF D2HShape, Shape
  <2> QED BY <2>1 DEF AddShape
<1>5. PICK o : o = queue["d2h"][r][x]
  OBVIOUS
<1>6. PICK a : a = queue["comp"][r][y]
  OBVIOUS
<1>7. PICK w : w = queue["comp"][r][y - 1]
  OBVIOUS
<1>8. a.kind = "add" /\ a.call = o.call /\ w.call = o.call /\ w.kind # "add"
  <2>1. w.kind \in {"convert", "zero"} \/ w.kind \in {"produce", "scratch"}
    BY <1>4, <1>6, <1>7 DEF AddShape
  <2> QED BY <1>3, <1>4, <1>5, <1>6, <1>7, <2>1 DEF AddShape, D2HShape, SameCall
<1>9. Precedes("comp", r, w, "d2h", r, o)
  BY <1>8 DEF Precedes
<1>10. y - 1 <= ran["comp"][r]
  BY <1>1, <1>2, <1>4, <1>5, <1>7, <1>9, Done
<1>11. ran["comp"][r] \in Nat /\ y \in Nat
  BY <1>1, StreamFacts DEF Pos
<1>12. ASSUME y <= ran["comp"][r] PROVE FALSE
  <2>1. Precedes("d2h", r, o, "comp", r, a)
    BY <1>8 DEF Precedes
  <2>2. x <= ran["d2h"][r]
    BY <1>1, <1>5, <1>6, <1>12, <2>1, Done
  <2> QED BY <1>2, <2>2
<1>13. ran["comp"][r] = y - 1
  BY <1>10, <1>11, <1>12
<1> QED BY <1>2, <1>3, <1>4, <1>13

(* When r adds, the copies of the call have run, and none of a later call.  *)
LEMMA AtAdd ==
    ASSUME Ordered, Shape, NEW r \in Rank, Ready("comp", r), NEW x, x = ran["comp"][r] + 1,
           queue["comp"][r][x].kind = "add"
    PROVE  /\ AddShape(r, x)
           /\ queue["comp"][r][x - 1].kind = "scratch" =>
                  ZeroAmong(r, queue["comp"][r][x].call, 1 .. ran["d2h"][r])
           /\ \A k \in 0 .. queue["comp"][r][x].chunks - 1, p \in Rank \ {r} :
                  Pulled(r, p, k, queue["comp"][r][x].call)
<1> USE DEF Ordered
<1>1. "comp" \in Engine /\ "d2h" \in Engine /\ "h2d" \in Engine
  BY DEF Engine
<1>2. x \in Pos("comp", r) /\ ran["comp"][r] \in Nat
  BY <1>1, ReadyHead
<1>3. AddShape(r, x)
  BY <1>2 DEF Shape
<1>4. PICK o : o = queue["comp"][r][x]
  OBVIOUS
<1>5. /\ ran["h2d"][r] \in Nat /\ ran["h2d"][r] <= Len(queue["h2d"][r]) /\ Len(queue["h2d"][r]) \in Nat
      /\ ran["d2h"][r] \in Nat
  BY <1>1, StreamFacts
<1>6. ASSUME queue["comp"][r][x - 1].kind = "scratch" PROVE ZeroAmong(r, o.call, 1 .. ran["d2h"][r])
  <2>1. ZeroAmong(r, o.call, Pos("d2h", r))
    BY <1>3, <1>4, <1>6 DEF AddShape
  <2>2. PICK z \in Pos("d2h", r) : queue["d2h"][r][z].kind = "zero" /\ queue["d2h"][r][z].call = o.call
    BY <2>1 DEF ZeroAmong
  <2>3. Precedes("d2h", r, queue["d2h"][r][z], "comp", r, o)
    BY <1>4, <2>2 DEF Precedes
  <2>4. z <= ran["d2h"][r]
    BY <1>1, <1>2, <1>4, <2>3, Done
  <2>5. z \in 1 .. ran["d2h"][r]
    BY <1>5, <2>4 DEF Pos
  <2> QED BY <2>2, <2>5 DEF ZeroAmong
<1>7. ASSUME NEW k \in 0 .. o.chunks - 1, NEW p \in Rank \ {r} PROVE Pulled(r, p, k, o.call)
  <2>0. k \in 0 .. queue["comp"][r][x].chunks - 1
    BY <1>4
  <2>1. PICK y \in Pos("h2d", r) : LET q == queue["h2d"][r][y] IN
            q.call = queue["comp"][r][x].call /\ q.peer = p /\ q.chunk = k
    BY <1>3, <2>0 DEF AddShape
  <2>2. queue["h2d"][r][y].call = o.call /\ Precedes("h2d", r, queue["h2d"][r][y], "comp", r, o)
    BY <1>4, <2>1 DEF Precedes
  <2>3. y <= ran["h2d"][r]
    BY <1>1, <1>2, <1>4, <2>2, Done
  <2>4. y \in 1 .. ran["h2d"][r]
    BY <1>5, <2>3 DEF Pos
  <2>5. ASSUME NEW z \in 1 .. ran["h2d"][r] PROVE queue["h2d"][r][z].call <= o.call
    <3>1. z \in Pos("h2d", r)
      BY <1>5 DEF Pos
    <3>2. queue["h2d"][r][z].call \in Nat /\ o.call \in Nat
      BY <1>1, <1>2, <1>4, <3>1, StreamFacts DEF OpType
    <3>3. ASSUME o.call < queue["h2d"][r][z].call PROVE FALSE
      <4>1. Precedes("comp", r, o, "h2d", r, queue["h2d"][r][z])
        BY <3>3 DEF Precedes
      <4>2. x <= ran["comp"][r]
        BY <1>1, <1>2, <1>4, <3>1, <4>1, Done
      <4> QED BY <1>2, <4>2
    <3> QED BY <3>2, <3>3
  <2> QED BY <2>1, <2>2, <2>4, <2>5 DEF Pulled
<1> QED BY <1>3, <1>4, <1>6, <1>7

(* When r pulls a chunk, its peer has staged it and nothing later.          *)
LEMMA AtPull ==
    ASSUME Ordered, Shape, NEW r \in Rank, Ready("h2d", r), NEW o, o = Head_("h2d", r)
    PROVE  o \in OpType /\ o.peer \in Rank \ {r} /\ Staged(o.peer, o.chunk, o.call)
<1> USE DEF Ordered
<1>1. "d2h" \in Engine /\ "h2d" \in Engine
  BY DEF Engine
<1>2. PICK x \in Pos("h2d", r) : /\ x = ran["h2d"][r] + 1 /\ ran["h2d"][r] \in Nat
                                 /\ o = queue["h2d"][r][x]
  BY <1>1, ReadyHead
<1>3. o \in OpType /\ o.peer \in Rank \ {r}
  <2>1. o \in OpType /\ Belongs("h2d", r, o)
    BY <1>1, <1>2, StreamFacts
  <2>2. o.peer \in Rank
    BY <2>1 DEF OpType
  <2>3. o.peer # r
    BY <2>1 DEF Belongs
  <2> QED BY <2>1, <2>2, <2>3
<1>4. PICK p \in Rank : p = o.peer /\ p # r
  BY <1>3
<1>5. ran["d2h"][p] \in Nat /\ ran["d2h"][p] <= Len(queue["d2h"][p]) /\ Len(queue["d2h"][p]) \in Nat
  BY <1>1, StreamFacts
<1>6. PICK y \in Pos("d2h", p) : LET q == queue["d2h"][p][y] IN
          q.kind = "d2h" /\ q.call = o.call /\ q.chunk = o.chunk
  <2>1. H2DShape(r, x)
    BY DEF Shape
  <2> QED BY <1>2, <1>4, <2>1 DEF H2DShape
<1>7. o.chunk \in Nat
  BY <1>3, CopyAssumption DEF OpType, Chunk
<1>8. Precedes("d2h", p, queue["d2h"][p][y], "h2d", r, o)
  BY <1>4, <1>6, <1>7 DEF Precedes
<1>9. y <= ran["d2h"][p]
  BY <1>1, <1>2, <1>8, Done
<1>10. y \in 1 .. ran["d2h"][p]
  BY <1>5, <1>9 DEF Pos
<1>11. ASSUME NEW z \in 1 .. ran["d2h"][p] PROVE queue["d2h"][p][z].call <= o.call
  <2>1. z \in Pos("d2h", p)
    BY <1>5 DEF Pos
  <2>2. queue["d2h"][p][z].call \in Nat /\ o.call \in Nat
    BY <1>1, <1>3, <2>1, StreamFacts DEF OpType
  <2>3. ASSUME o.call < queue["d2h"][p][z].call PROVE FALSE
    <3>1. Precedes("h2d", r, o, "d2h", p, queue["d2h"][p][z])
      BY <1>4, <2>3 DEF Precedes
    <3>2. x <= ran["h2d"][r]
      BY <1>1, <1>2, <2>1, <3>1, Done
    <3> QED BY <1>2, <3>2
  <2> QED BY <2>2, <2>3
<1>12. Staged(p, o.chunk, o.call)
  BY <1>6, <1>10, <1>11 DEF Staged
<1> QED BY <1>3, <1>4, <1>12

-----------------------------------------------------------------------------
(* What the buffers hold, step by step.                                     *)

(* Nothing has run at first. *)
LEMMA InitHeld == Init => Held
<1> SUFFICES ASSUME Init PROVE Held
  OBVIOUS
<1>1. \A r \in Rank : ran["comp"][r] = 0 /\ ran["d2h"][r] = 0 /\ ran["h2d"][r] = 0
  BY DEF Init, Engine
<1>2. MemoryTypes
  BY DEF Init, MemoryTypes
<1>3. \A r \in Rank : TensorHolds(r)
  BY <1>1 DEF TensorHolds
<1>4. \A r \in Rank : StagingHolds(r) /\ PulledHolds(r)
  BY <1>1 DEF StagingHolds, PulledHolds, Staged, Pulled
<1> QED BY <1>2, <1>3, <1>4 DEF Held

(* The tensor of r is as it was when nothing of r ran but a copy. *)
LEMMA TensorSame ==
    ASSUME NEW r \in Rank, TensorHolds(r), UNCHANGED <<queue, data, bf16_tmp, recv>>,
           ran'["comp"][r] = ran["comp"][r],
           \A c : ZeroAmong(r, c, 1 .. ran["d2h"][r])' => ZeroAmong(r, c, 1 .. ran["d2h"][r])
    PROVE  TensorHolds(r)'
<1>1. PICK n : n = ran["comp"][r]
  OBVIOUS
<1>2. PICK o : o = queue["comp"][r][n]
  OBVIOUS
<1>3. n = ran'["comp"][r] /\ o = queue'["comp"][r][n]
  BY <1>1, <1>2
<1> SUFFICES ASSUME n > 0, NEW k \in 0 .. o.chunks - 1
             PROVE  /\ o.kind = "produce" => data'[r][k] = Own(r, o.call)
                    /\ o.kind \in {"convert", "zero"} => /\ data'[r][k] = Own(r, o.call)
                                                         /\ bf16_tmp'[r][k] = Own(r, o.call)
                    /\ o.kind = "scratch" /\ ZeroAmong(r, o.call, 1 .. ran["d2h"][r])' =>
                           data'[r][k] = Own(r, o.call)
                    /\ o.kind = "add" => data'[r][k] = SumOf(o.call) /\ recv'[r][k] = SumOf(o.call)
  BY <1>1, <1>2, <1>3 DEF TensorHolds
<1>4. /\ o.kind = "produce" => data[r][k] = Own(r, o.call)
      /\ o.kind \in {"convert", "zero"} => /\ data[r][k] = Own(r, o.call)
                                           /\ bf16_tmp[r][k] = Own(r, o.call)
      /\ o.kind = "scratch" /\ ZeroAmong(r, o.call, 1 .. ran["d2h"][r]) =>
             data[r][k] = Own(r, o.call)
      /\ o.kind = "add" => data[r][k] = SumOf(o.call) /\ recv[r][k] = SumOf(o.call)
  BY <1>1, <1>2 DEF TensorHolds
<1> QED BY <1>4

(* So is that of a rank none of whose memory is written. *)
LEMMA TensorOther ==
    ASSUME NEW r \in Rank, TensorHolds(r), queue' = queue,
           data'[r] = data[r], bf16_tmp'[r] = bf16_tmp[r], recv'[r] = recv[r],
           ran'["comp"][r] = ran["comp"][r], ran'["d2h"][r] = ran["d2h"][r]
    PROVE  TensorHolds(r)'
<1>1. \A c : ZeroAmong(r, c, 1 .. ran["d2h"][r])' <=> ZeroAmong(r, c, 1 .. ran["d2h"][r])
  BY DEF ZeroAmong
<1> QED BY <1>1 DEF TensorHolds

(* And the staging memory of a rank that copies nothing to it. *)
LEMMA StagingSame ==
    ASSUME NEW r \in Rank, StagingHolds(r), queue' = queue, host_large'[r] = host_large[r],
           ran'["d2h"][r] = ran["d2h"][r]
    PROVE  StagingHolds(r)'
<1>1. \A k, c : Staged(r, k, c)' <=> Staged(r, k, c)
  BY DEF Staged
<1> QED BY <1>1 DEF StagingHolds

(* And what was pulled by a rank that does not pull. *)
LEMMA PulledSame ==
    ASSUME NEW r \in Rank, PulledHolds(r), queue' = queue, dev_tmp'[r] = dev_tmp[r],
           ran'["h2d"][r] = ran["h2d"][r]
    PROVE  PulledHolds(r)'
<1>1. \A p, k, c : Pulled(r, p, k, c)' <=> Pulled(r, p, k, c)
  BY DEF Pulled
<1> QED BY <1>1 DEF PulledHolds

(* A call touches no memory. *)
LEMMA CallHeld ==
    ASSUME Ordered, Held, NEW n, NEW b, NEW idle, Call(n, b, idle)
    PROVE  Held'
<1>1. UNCHANGED <<ran, data, bf16_tmp, host_large, dev_tmp, recv>>
  BY Enqueues DEF Call, memory
<1>2. "comp" \in Engine /\ "d2h" \in Engine /\ "h2d" \in Engine
  BY DEF Engine
<1>3. \A g \in Engine, r \in Rank : \A x \in 1 .. ran[g][r] : queue'[g][r][x] = queue[g][r][x]
  <2> TAKE g \in Engine, r \in Rank
  <2>1. \A x \in 1 .. ran[g][r] : x \in Pos(g, r)
    BY StreamFacts DEF Ordered, Pos
  <2> QED BY <2>1, OldOps
<1>4. MemoryTypes'
  BY <1>1 DEF Held, MemoryTypes
<1>5. ASSUME NEW r \in Rank PROVE StagingHolds(r)'
  <2>1. \A k, c : Staged(r, k, c)' <=> Staged(r, k, c)
    BY <1>1, <1>2, <1>3 DEF Staged
  <2>2. StagingHolds(r)
    BY DEF Held
  <2> QED BY <1>1, <2>1, <2>2 DEF StagingHolds
<1>6. ASSUME NEW r \in Rank PROVE PulledHolds(r)'
  <2>1. \A p, k, c : Pulled(r, p, k, c)' <=> Pulled(r, p, k, c)
    BY <1>1, <1>2, <1>3 DEF Pulled
  <2>2. PulledHolds(r)
    BY DEF Held
  <2> QED BY <1>1, <2>1, <2>2 DEF PulledHolds
<1>7. ASSUME NEW r \in Rank PROVE TensorHolds(r)'
  <2>1. \A c : ZeroAmong(r, c, 1 .. ran["d2h"][r])' <=> ZeroAmong(r, c, 1 .. ran["d2h"][r])
    BY <1>1, <1>2, <1>3 DEF ZeroAmong
  <2>2. TensorHolds(r)
    BY DEF Held
  <2>3. PICK m \in Nat : m = ran["comp"][r]
    BY <1>2, StreamFacts DEF Ordered
  <2>4. CASE m = 0
    BY <1>1, <2>3, <2>4 DEF TensorHolds
  <2>5. CASE m > 0
    <3>1. queue'["comp"][r][m] = queue["comp"][r][m]
      BY <1>2, <1>3, <2>3, <2>5
    <3> QED BY <1>1, <2>1, <2>2, <2>3, <3>1 DEF TensorHolds
  <2> QED BY <2>4, <2>5
<1> QED BY <1>4, <1>5, <1>6, <1>7 DEF Held

(* The chunks of an operation are chunks of the buffers. *)
LEMMA ChunksIn ==
    ASSUME NEW o \in OpType, NEW k \in 0 .. o.chunks - 1
    PROVE  k \in Chunk /\ k < o.chunks
BY CopyAssumption DEF OpType, Chunk

(* What is written to the chunks of an operation is read from them.         *)
LEMMA Written ==
    ASSUME Held, NEW r \in Rank, NEW o \in OpType, NEW k \in 0 .. o.chunks - 1
    PROVE  /\ [bf16_tmp EXCEPT ![r] = Fill(@, o, LAMBDA j : data[r][j])][r][k] = data[r][k]
           /\ [data EXCEPT ![r] = Fill(@, o, LAMBDA j : Contributions(r, j))][r][k] = Contributions(r, k)
           /\ [recv EXCEPT ![r] = Fill(@, o, LAMBDA j : Contributions(r, j))][r][k] = Contributions(r, k)
<1>1. DOMAIN data = Rank /\ DOMAIN bf16_tmp = Rank /\ DOMAIN recv = Rank
  BY DEF Held, MemoryTypes
<1>2. k \in Chunk /\ k < o.chunks
  BY ChunksIn
<1> QED BY <1>1, <1>2 DEF Fill

(* After r's compute stream has run its head, the tensor is what that made. *)
LEMMA CompTensor ==
    ASSUME Ordered, Shape, Held, NEW r \in Rank, CompStep(r), Completed("comp", r)
    PROVE  TensorHolds(r)'
<1> USE DEF Ordered
<1>1. "comp" \in Engine /\ "d2h" \in Engine /\ "h2d" \in Engine
  BY DEF Engine
<1>2. Ready("comp", r) /\ queue' = queue
  BY DEF Completed
<1>3. PICK x \in Pos("comp", r) : x = ran["comp"][r] + 1 /\ ran["comp"][r] \in Nat
  BY <1>1, <1>2, ReadyHead
<1>4. PICK o \in OpType : o = queue["comp"][r][x] /\ Belongs("comp", r, o)
  BY <1>1, <1>3, StreamFacts
<1>5. Head_("comp", r) = o
  BY <1>1, <1>2, <1>3, <1>4, ReadyHead
<1>6. /\ ran'["comp"][r] = x
      /\ ran'["d2h"][r] = ran["d2h"][r]
  <2>1. <<"d2h", r>> # <<"comp", r>>
    OBVIOUS
  <2> QED BY <1>1, <1>3, <2>1, CompletedRan
<1>7. queue'["comp"][r][x] = o
  BY <1>2, <1>4
<1> SUFFICES ASSUME NEW k \in 0 .. o.chunks - 1
             PROVE  /\ o.kind = "produce" => data'[r][k] = Own(r, o.call)
                    /\ o.kind \in {"convert", "zero"} => /\ data'[r][k] = Own(r, o.call)
                                                         /\ bf16_tmp'[r][k] = Own(r, o.call)
                    /\ o.kind = "scratch" /\ ZeroAmong(r, o.call, 1 .. ran["d2h"][r])' =>
                           data'[r][k] = Own(r, o.call)
                    /\ o.kind = "add" => data'[r][k] = SumOf(o.call) /\ recv'[r][k] = SumOf(o.call)
  BY <1>6, <1>7 DEF TensorHolds
<1>8. k \in Chunk /\ k < o.chunks
  BY ChunksIn
<1>9. CASE Produce(r)
  <2>1. o.kind = "produce"
    BY <1>5, <1>9 DEF Produce, Retire
  <2>2. data'[r][k] = Own(r, o.call)
    BY <1>5, <1>8, <1>9 DEF Produce, Fill, Own, Held, MemoryTypes
  <2> QED BY <2>1, <2>2
<1>10. CASE Scratch(r)
  <2>1. o.kind = "scratch"
    BY <1>5, <1>10 DEF Scratch, Retire
  <2>2. ASSUME ZeroAmong(r, o.call, 1 .. ran["d2h"][r])' PROVE FALSE
    <3>1. PICK z \in 1 .. ran["d2h"][r] : queue["d2h"][r][z].kind = "zero" /\ queue["d2h"][r][z].call = o.call
      BY <1>2, <1>6, <2>2 DEF ZeroAmong
    <3>2. z \in Pos("d2h", r) /\ z <= ran["d2h"][r]
      BY <1>1, StreamFacts DEF Pos
    <3>3. Precedes("comp", r, o, "d2h", r, queue["d2h"][r][z])
      BY <2>1, <3>1 DEF Precedes
    <3>4. x <= ran["comp"][r]
      BY <1>1, <1>3, <1>4, <3>2, <3>3, Done
    <3> QED BY <1>3, <3>4
  <2> QED BY <2>1, <2>2
<1>11. CASE Convert(r)
  <2>1. /\ o.kind = "convert" /\ data' = data
        /\ bf16_tmp' = [bf16_tmp EXCEPT ![r] = Fill(@, o, LAMBDA j : data[r][j])]
    BY <1>5, <1>11 DEF Convert, Retire
  <2>2. ConvertShape(r, x)
    BY <1>4, <2>1 DEF Shape
  <2>3. PICK w : w = queue["comp"][r][x - 1]
    OBVIOUS
  <2>4. w.kind = "produce" /\ w.call = o.call /\ w.chunks = o.chunks /\ x - 1 \in Pos("comp", r)
    BY <1>4, <2>2, <2>3 DEF ConvertShape, SameCall
  <2>5. x - 1 = ran["comp"][r] /\ x - 1 > 0
    BY <1>3, <2>4 DEF Pos
  <2>6. TensorHolds(r)
    BY DEF Held
  <2>7. data[r][k] = Own(r, o.call)
    BY <2>3, <2>4, <2>5, <2>6 DEF TensorHolds
  <2>8. bf16_tmp'[r][k] = data[r][k]
    BY <2>1, Written
  <2> QED BY <2>1, <2>7, <2>8
<1>12. CASE Zero("comp", r)
  <2>1. o.kind = "zero" /\ o.bf16
    BY <1>4, <1>5, <1>12 DEF Zero, Retire, Belongs
  <2>2. data'[r][k] = Own(r, o.call)
    BY <1>5, <1>8, <1>12 DEF Zero, Fill, Own, Held, MemoryTypes
  <2>3. bf16_tmp'[r][k] = Own(r, o.call)
    BY <1>5, <1>8, <1>12, <2>1 DEF Zero, Fill, Own, Held, MemoryTypes
  <2> QED BY <2>1, <2>2, <2>3
<1>13. CASE Add(r)
  <2>1. /\ o.kind = "add"
        /\ data' = [data EXCEPT ![r] = Fill(@, o, LAMBDA j : Contributions(r, j))]
        /\ recv' = [recv EXCEPT ![r] = Fill(@, o, LAMBDA j : Contributions(r, j))]
    BY <1>5, <1>13 DEF Add, Retire
  <2>2. Contributions(r, k) = SumOf(o.call)
    <3>1. AddShape(r, x)
      BY <1>2, <1>3, <1>4, <2>1, AtAdd
    <3>2. PICK w : w = queue["comp"][r][x - 1]
      OBVIOUS
    <3>3. /\ w.call = o.call /\ w.chunks = o.chunks /\ x - 1 \in Pos("comp", r)
          /\ w.kind \in {"convert", "zero"} \/ w.kind \in {"produce", "scratch"}
      BY <1>4, <3>1, <3>2 DEF AddShape, SameCall
    <3>4. x - 1 = ran["comp"][r] /\ x - 1 > 0
      BY <1>3, <3>3 DEF Pos
    <3>5. w.kind = "scratch" => ZeroAmong(r, o.call, 1 .. ran["d2h"][r])
      BY <1>2, <1>3, <1>4, <2>1, <3>2, AtAdd
    <3>6. TensorHolds(r) /\ PulledHolds(r)
      BY DEF Held
    <3>7. data[r][k] = Own(r, o.call)
      BY <3>2, <3>3, <3>4, <3>5, <3>6 DEF TensorHolds
    <3>8. ASSUME NEW p \in Rank \ {r} PROVE dev_tmp[r][p][k] = Own(p, o.call)
      <4>1. \A j \in 0 .. queue["comp"][r][x].chunks - 1, e \in Rank \ {r} :
                Pulled(r, e, j, queue["comp"][r][x].call)
        BY <1>2, <1>3, <1>4, <2>1, AtAdd
      <4>2. Pulled(r, p, k, o.call)
        BY <1>4, <4>1
      <4>3. o.call \in Nat
        BY DEF OpType
      <4> QED BY <1>8, <3>6, <4>2, <4>3 DEF PulledHolds
    <3> QED BY <1>8, <3>7, <3>8, Contributed
  <2>3. data'[r][k] = SumOf(o.call)
    BY <2>1, <2>2, Written
  <2>4. recv'[r][k] = SumOf(o.call)
    BY <2>1, <2>2, Written
  <2> QED BY <2>1, <2>3, <2>4
<1> QED BY <1>9, <1>10, <1>11, <1>12, <1>13 DEF CompStep

(* A contribution is what is copied to the host. *)
LEMMA HostValue ==
    ASSUME Ordered, Shape, Held, NEW r \in Rank, Ready("d2h", r), NEW o, o = Head_("d2h", r),
           o.kind = "d2h"
    PROVE  (IF o.bf16 THEN bf16_tmp ELSE data)[r][o.chunk] = Own(r, o.call)
<1> USE DEF Ordered
<1>1. "comp" \in Engine /\ "d2h" \in Engine
  BY DEF Engine
<1>2. PICK x \in Pos("d2h", r) : x = ran["d2h"][r] + 1 /\ ran["d2h"][r] \in Nat /\ o = queue["d2h"][r][x]
  BY <1>1, ReadyHead
<1>3. o \in OpType /\ Belongs("d2h", r, o)
  BY <1>1, <1>2, StreamFacts
<1>4. o.chunk \in 0 .. o.chunks - 1
  <2>1. o.chunk \in Nat /\ o.chunks \in Nat
    BY <1>3, CopyAssumption DEF OpType, Chunk
  <2>2. o.chunk < o.chunks
    BY <1>3 DEF Belongs
  <2> QED BY <2>1, <2>2
<1>5. PICK y \in Pos("comp", r) : D2HShape(r, x, y) /\ AddShape(r, y) /\ ran["comp"][r] = y - 1
  BY <1>2, AtCopy
<1>6. PICK a : a = queue["comp"][r][y]
  OBVIOUS
<1>7. PICK w : w = queue["comp"][r][y - 1]
  OBVIOUS
<1>8. /\ a.call = o.call /\ a.chunks = o.chunks /\ a.bf16 = o.bf16
      /\ w.kind = "scratch" => ZeroAmong(r, o.call, 1 .. x - 1)
  BY <1>2, <1>5, <1>6, <1>7 DEF D2HShape, SameCall
<1>9. /\ w.call = o.call /\ w.chunks = o.chunks
      /\ w.kind \in IF a.bf16 THEN {"convert", "zero"} ELSE {"produce", "scratch"}
      /\ y - 1 > 0
  BY <1>5, <1>6, <1>7, <1>8 DEF AddShape, SameCall, Pos
<1>10. w.kind = "scratch" => ZeroAmong(r, o.call, 1 .. ran["d2h"][r])
  <2>1. x - 1 = ran["d2h"][r]
    BY <1>2
  <2> QED BY <1>8, <2>1
<1>11. TensorHolds(r)
  BY DEF Held
<1>12. CASE o.bf16
  <2>1. w.kind \in {"convert", "zero"}
    BY <1>8, <1>9, <1>12
  <2>2. bf16_tmp[r][o.chunk] = Own(r, o.call)
    BY <1>4, <1>5, <1>7, <1>9, <1>11, <2>1 DEF TensorHolds
  <2> QED BY <1>12, <2>2
<1>13. CASE ~o.bf16
  <2>1. w.kind \in {"produce", "scratch"}
    BY <1>8, <1>9, <1>13
  <2>2. data[r][o.chunk] = Own(r, o.call)
    BY <1>4, <1>5, <1>7, <1>9, <1>10, <1>11, <2>1 DEF TensorHolds
  <2> QED BY <1>13, <2>2
<1> QED BY <1>12, <1>13

(* After r's stream to the host has run its head, its tensor is as before,  *)
(* or zeros.                                                                *)
LEMMA D2HTensor ==
    ASSUME Ordered, Shape, Held, NEW r \in Rank, D2HStep(r), Completed("d2h", r)
    PROVE  TensorHolds(r)'
<1> USE DEF Ordered
<1>1. "comp" \in Engine /\ "d2h" \in Engine
  BY DEF Engine
<1>2. Ready("d2h", r) /\ queue' = queue
  BY DEF Completed
<1>3. PICK x \in Pos("d2h", r) : x = ran["d2h"][r] + 1 /\ ran["d2h"][r] \in Nat
  BY <1>1, <1>2, ReadyHead
<1>4. PICK o \in OpType : o = queue["d2h"][r][x] /\ Belongs("d2h", r, o) /\ Head_("d2h", r) = o
  BY <1>1, <1>2, <1>3, StreamFacts, ReadyHead
<1>5. ran'["d2h"][r] = x /\ ran'["comp"][r] = ran["comp"][r]
  <2>1. <<"d2h", r>> # <<"comp", r>>
    OBVIOUS
  <2> QED BY <1>1, <1>3, <2>1, CompletedRan
<1>6. CASE CopyD2H(r)
  <2>1. o.kind = "d2h" /\ UNCHANGED <<data, bf16_tmp, recv>>
    BY <1>4, <1>6 DEF CopyD2H, Retire
  <2>2. ASSUME NEW c, ZeroAmong(r, c, 1 .. ran["d2h"][r])' PROVE ZeroAmong(r, c, 1 .. ran["d2h"][r])
    <3>1. PICK z \in 1 .. x : queue["d2h"][r][z].kind = "zero" /\ queue["d2h"][r][z].call = c
      BY <1>2, <1>5, <2>2 DEF ZeroAmong
    <3>2. z # x
      BY <1>4, <2>1, <3>1
    <3>3. z \in 1 .. ran["d2h"][r]
      BY <1>3, <3>2
    <3> QED BY <3>1, <3>3 DEF ZeroAmong
  <2>3. TensorHolds(r)
    BY DEF Held
  <2> QED BY <1>2, <1>5, <2>1, <2>2, <2>3, TensorSame
<1>7. CASE Zero("d2h", r)
  <2>1. o.kind = "zero"
    BY <1>4, <1>7 DEF Zero, Retire
  <2>2. PICK y \in Pos("comp", r) : D2HShape(r, x, y) /\ AddShape(r, y) /\ ran["comp"][r] = y - 1
    BY <1>2, <1>3, AtCopy
  <2>3. PICK w : w = queue["comp"][r][y - 1]
    OBVIOUS
  <2>4. w.kind = "scratch" /\ w.call = o.call /\ w.chunks = o.chunks
    BY <1>4, <2>1, <2>2, <2>3 DEF D2HShape, AddShape, SameCall
  <2>5. ASSUME NEW k \in 0 .. o.chunks - 1 PROVE data'[r][k] = Own(r, o.call)
    <3>1. k \in Chunk /\ k < o.chunks
      BY ChunksIn
    <3> QED BY <1>4, <1>7, <3>1 DEF Zero, Fill, Own, Held, MemoryTypes
  <2>6. queue'["comp"][r][ran'["comp"][r]] = w
    BY <1>2, <1>5, <2>2, <2>3
  <2> QED BY <2>4, <2>5, <2>6 DEF TensorHolds
<1> QED BY <1>6, <1>7 DEF D2HStep

(* And what its staging memory holds is the last contribution copied there. *)
LEMMA D2HStaging ==
    ASSUME Ordered, Shape, Held, NEW r \in Rank, D2HStep(r), Completed("d2h", r)
    PROVE  StagingHolds(r)'
<1> USE DEF Ordered
<1>1. "comp" \in Engine /\ "d2h" \in Engine
  BY DEF Engine
<1>2. Ready("d2h", r) /\ queue' = queue
  BY DEF Completed
<1>3. PICK x \in Pos("d2h", r) : x = ran["d2h"][r] + 1 /\ ran["d2h"][r] \in Nat
  BY <1>1, <1>2, ReadyHead
<1>4. PICK o \in OpType : o = queue["d2h"][r][x] /\ Head_("d2h", r) = o
  BY <1>1, <1>2, <1>3, StreamFacts, ReadyHead
<1>5. ran'["d2h"][r] = x
  BY <1>1, <1>3, CompletedRan
<1> SUFFICES ASSUME NEW k \in Chunk, NEW c \in Nat, Staged(r, k, c)'
             PROVE  host_large'[r][k] = Own(r, c)
  BY DEF StagingHolds
<1>6. PICK z \in 1 .. x : /\ queue["d2h"][r][z].kind = "d2h" /\ queue["d2h"][r][z].chunk = k
                          /\ queue["d2h"][r][z].call = c
  BY <1>2, <1>5 DEF Staged
<1>7. \A u \in 1 .. x : queue["d2h"][r][u].kind = "d2h" /\ queue["d2h"][r][u].chunk = k =>
          queue["d2h"][r][u].call <= c
  BY <1>2, <1>5 DEF Staged
<1>8. StagingHolds(r)
  BY DEF Held
<1>9. ASSUME ~ (o.kind = "d2h" /\ o.chunk = k) PROVE host_large[r][k] = Own(r, c)
  <2>1. z # x
    BY <1>4, <1>6, <1>9
  <2>2. z \in 1 .. ran["d2h"][r] /\ \A u \in 1 .. ran["d2h"][r] : u \in 1 .. x
    BY <1>3, <2>1
  <2>3. Staged(r, k, c)
    BY <1>6, <1>7, <2>2 DEF Staged
  <2> QED BY <1>8, <2>3 DEF StagingHolds
<1>10. CASE Zero("d2h", r)
  <2>1. o.kind = "zero" /\ host_large' = host_large
    BY <1>4, <1>10 DEF Zero, Retire
  <2> QED BY <1>9, <2>1
<1>11. CASE CopyD2H(r)
  <2>1. o.kind = "d2h"
    BY <1>4, <1>11 DEF CopyD2H, Retire
  <2>2. host_large' = [host_large EXCEPT ![r][o.chunk] = (IF o.bf16 THEN bf16_tmp ELSE data)[r][o.chunk]]
    BY <1>4, <1>11 DEF CopyD2H
  <2>3. (IF o.bf16 THEN bf16_tmp ELSE data)[r][o.chunk] = Own(r, o.call)
    BY <1>2, <1>4, <2>1, HostValue
  <2>4. host_large' = [host_large EXCEPT ![r][o.chunk] = Own(r, o.call)]
    BY <2>2, <2>3
  <2>5. DOMAIN host_large = Rank /\ DOMAIN host_large[r] = Chunk
    BY DEF Held, MemoryTypes
  <2>6. CASE o.chunk = k
    <3>1. o.call <= c
      <4>1. x \in 1 .. x
        BY <1>3
      <4> QED BY <1>4, <1>7, <2>1, <2>6, <4>1
    <3>2. c <= o.call
      <4>1. z \in Pos("d2h", r) /\ z <= x
        BY <1>1, <1>3, StreamFacts DEF Pos
      <4> QED BY <1>1, <1>4, <1>6, <4>1 DEF Shape
    <3>3. o.call = c
      BY <3>1, <3>2 DEF OpType
    <3> QED BY <2>4, <2>5, <2>6, <3>3
  <2>7. CASE o.chunk # k
    BY <1>9, <2>4, <2>5, <2>7
  <2> QED BY <2>6, <2>7
<1> QED BY <1>10, <1>11 DEF D2HStep

(* After r has pulled a chunk it holds the last contribution pulled.        *)
LEMMA H2DPulled ==
    ASSUME Ordered, Shape, Held, NEW r \in Rank, CopyH2D(r), Completed("h2d", r)
    PROVE  PulledHolds(r)'
<1> USE DEF Ordered
<1>1. "h2d" \in Engine
  BY DEF Engine
<1>2. Ready("h2d", r) /\ queue' = queue
  BY DEF Completed
<1>3. PICK x \in Pos("h2d", r) : x = ran["h2d"][r] + 1 /\ ran["h2d"][r] \in Nat
  BY <1>1, <1>2, ReadyHead
<1>4. PICK o \in OpType : o = queue["h2d"][r][x] /\ Head_("h2d", r) = o
  BY <1>1, <1>2, <1>3, StreamFacts, ReadyHead
<1>5. ran'["h2d"][r] = x
  BY <1>1, <1>3, CompletedRan
<1>6. o.peer \in Rank /\ Staged(o.peer, o.chunk, o.call) /\ o.chunk \in Chunk /\ o.call \in Nat
  BY <1>2, <1>4, AtPull DEF OpType
<1>7. dev_tmp' = [dev_tmp EXCEPT ![r][o.peer][o.chunk] = Own(o.peer, o.call)]
  <2>1. StagingHolds(o.peer)
    BY <1>6 DEF Held
  <2>2. host_large[o.peer][o.chunk] = Own(o.peer, o.call)
    BY <1>6, <2>1 DEF StagingHolds
  <2>3. dev_tmp' = [dev_tmp EXCEPT ![r][o.peer][o.chunk] = host_large[o.peer][o.chunk]]
    BY <1>4 DEF CopyH2D
  <2> QED BY <2>2, <2>3
<1>8. DOMAIN dev_tmp = Rank /\ DOMAIN dev_tmp[r] = Rank /\ \A p \in Rank : DOMAIN dev_tmp[r][p] = Chunk
  BY DEF Held, MemoryTypes
<1> SUFFICES ASSUME NEW p \in Rank, NEW k \in Chunk, NEW c \in Nat, Pulled(r, p, k, c)'
             PROVE  dev_tmp'[r][p][k] = Own(p, c)
  BY DEF PulledHolds
<1>9. PICK z \in 1 .. x : /\ queue["h2d"][r][z].peer = p /\ queue["h2d"][r][z].chunk = k
                          /\ queue["h2d"][r][z].call = c
  BY <1>2, <1>5 DEF Pulled
<1>10. \A u \in 1 .. x : queue["h2d"][r][u].peer = p /\ queue["h2d"][r][u].chunk = k =>
          queue["h2d"][r][u].call <= c
  BY <1>2, <1>5 DEF Pulled
<1>11. CASE o.peer = p /\ o.chunk = k
  <2>1. o.call <= c
    <3>1. x \in 1 .. x
      BY <1>3
    <3> QED BY <1>4, <1>10, <1>11, <3>1
  <2>2. c <= o.call
    <3>1. z \in Pos("h2d", r) /\ z <= x
      BY <1>1, <1>3, StreamFacts DEF Pos
    <3> QED BY <1>1, <1>4, <1>9, <3>1 DEF Shape
  <2>3. o.call = c
    BY <1>6, <2>1, <2>2
  <2> QED BY <1>7, <1>8, <1>11, <2>3
<1>12. CASE ~ (o.peer = p /\ o.chunk = k)
  <2>1. z # x
    BY <1>4, <1>9, <1>12
  <2>2. z \in 1 .. ran["h2d"][r] /\ \A u \in 1 .. ran["h2d"][r] : u \in 1 .. x
    BY <1>3, <2>1
  <2>3. Pulled(r, p, k, c)
    BY <1>9, <1>10, <2>2 DEF Pulled
  <2>4. PulledHolds(r)
    BY DEF Held
  <2>5. dev_tmp[r][p][k] = Own(p, c)
    BY <2>3, <2>4 DEF PulledHolds
  <2>6. dev_tmp'[r][p][k] = dev_tmp[r][p][k]
    BY <1>6, <1>7, <1>8, <1>12
  <2> QED BY <2>5, <2>6
<1> QED BY <1>11, <1>12

(* The buffers keep their domains. *)
LEMMA MemoryKept ==
    ASSUME MemoryTypes, NEW r \in Rank, CompStep(r) \/ D2HStep(r) \/ CopyH2D(r)
    PROVE  MemoryTypes'
<1>1. CASE CompStep(r)
  <2>1. DOMAIN data' = Rank /\ DOMAIN bf16_tmp' = Rank /\ DOMAIN recv' = Rank
    BY <1>1 DEF CompStep, Produce, Scratch, Convert, Zero, Add, MemoryTypes
  <2>2. UNCHANGED <<host_large, dev_tmp>>
    BY <1>1 DEF CompStep, Produce, Scratch, Convert, Zero, Add
  <2> QED BY <2>1, <2>2 DEF MemoryTypes
<1>2. CASE Zero("d2h", r)
  <2>1. DOMAIN data' = Rank /\ DOMAIN bf16_tmp' = Rank /\ UNCHANGED <<host_large, dev_tmp, recv>>
    BY <1>2 DEF Zero, MemoryTypes
  <2> QED BY <2>1 DEF MemoryTypes
<1>3. CASE CopyD2H(r)
  <2>1. UNCHANGED <<data, bf16_tmp, dev_tmp, recv>>
    BY <1>3 DEF CopyD2H
  <2>2. DOMAIN host_large' = Rank /\ \A p \in Rank : DOMAIN host_large'[p] = Chunk
    BY <1>3 DEF CopyD2H, MemoryTypes
  <2> QED BY <2>1, <2>2 DEF MemoryTypes
<1>4. CASE CopyH2D(r)
  <2>1. UNCHANGED <<data, bf16_tmp, host_large, recv>>
    BY <1>4 DEF CopyH2D
  <2>2. /\ DOMAIN dev_tmp' = Rank
        /\ \A q \in Rank : /\ DOMAIN dev_tmp'[q] = Rank
                           /\ \A p \in Rank : DOMAIN dev_tmp'[q][p] = Chunk
    BY <1>4 DEF CopyH2D, MemoryTypes
  <2> QED BY <2>1, <2>2 DEF MemoryTypes
<1> QED BY <1>1, <1>2, <1>3, <1>4 DEF D2HStep

(* What the buffers hold after any step. *)
LEMMA NextHeld == Ordered /\ Shape /\ Held /\ [Next]_vars => Held'
<1> SUFFICES ASSUME Ordered, Shape, Held, [Next]_vars PROVE Held'
  OBVIOUS
<1>1. "comp" \in Engine /\ "d2h" \in Engine /\ "h2d" \in Engine
  BY DEF Engine
<1>2. CASE UNCHANGED vars
  <2>1. UNCHANGED <<queue, ran, data, bf16_tmp, host_large, dev_tmp, recv>>
    BY <1>2 DEF vars, memory
  <2>2. MemoryTypes'
    BY <2>1 DEF Held, MemoryTypes
  <2>3. ASSUME NEW p \in Rank PROVE TensorHolds(p)' /\ StagingHolds(p)' /\ PulledHolds(p)'
    <3>1. TensorHolds(p) /\ StagingHolds(p) /\ PulledHolds(p)
      BY DEF Held
    <3>2. TensorHolds(p)'
      BY <2>1, <3>1, TensorOther
    <3>3. StagingHolds(p)'
      BY <2>1, <3>1, StagingSame
    <3>4. PulledHolds(p)'
      BY <2>1, <3>1, PulledSame
    <3> QED BY <3>2, <3>3, <3>4
  <2> QED BY <2>2, <2>3 DEF Held
<1>3. ASSUME NEW n, NEW b, NEW idle, Call(n, b, idle) PROVE Held'
  BY <1>3, CallHeld
<1>4. ASSUME NEW r \in Rank, NEW g \in Engine, Completed(g, r), NEW p \in Rank
      PROVE  /\ queue' = queue
             /\ \A h \in Engine : <<h, p>> # <<g, r>> => ran'[h][p] = ran[h][p]
             /\ TensorHolds(p) /\ StagingHolds(p) /\ PulledHolds(p)
  BY <1>4, CompletedRan DEF Ordered, Held, Completed
<1>5. ASSUME NEW r \in Rank, CompStep(r), Completed("comp", r) PROVE Held'
  <2>1. MemoryTypes'
    BY <1>5, MemoryKept DEF Held
  <2>2. UNCHANGED <<host_large, dev_tmp>>
    BY <1>5 DEF CompStep, Produce, Scratch, Convert, Zero, Add
  <2>3. \A p \in Rank \ {r} : data'[p] = data[p] /\ bf16_tmp'[p] = bf16_tmp[p] /\ recv'[p] = recv[p]
    BY <1>5 DEF CompStep, Produce, Scratch, Convert, Zero, Add, Held, MemoryTypes
  <2>4. ASSUME NEW p \in Rank PROVE TensorHolds(p)' /\ StagingHolds(p)' /\ PulledHolds(p)'
    <3>1. <<"d2h", p>> # <<"comp", r>> /\ <<"h2d", p>> # <<"comp", r>>
      OBVIOUS
    <3>2. StagingHolds(p)'
      BY <1>1, <1>4, <1>5, <2>2, <3>1, StagingSame
    <3>3. PulledHolds(p)'
      BY <1>1, <1>4, <1>5, <2>2, <3>1, PulledSame
    <3>4. CASE p = r
      BY <1>5, <3>2, <3>3, <3>4, CompTensor
    <3>5. CASE p # r
      <4>1. <<"comp", p>> # <<"comp", r>>
        BY <3>5
      <4>2. ran'["comp"][p] = ran["comp"][p] /\ ran'["d2h"][p] = ran["d2h"][p]
        BY <1>1, <1>4, <1>5, <3>1, <4>1
      <4>3. TensorHolds(p)'
        BY <1>1, <1>4, <1>5, <2>3, <3>5, <4>2, TensorOther
      <4> QED BY <3>2, <3>3, <4>3
    <3> QED BY <3>4, <3>5
  <2> QED BY <2>1, <2>4 DEF Held
<1>6. ASSUME NEW r \in Rank, D2HStep(r), Completed("d2h", r) PROVE Held'
  <2>1. MemoryTypes'
    BY <1>6, MemoryKept DEF Held
  <2>2. UNCHANGED <<dev_tmp, recv>>
    BY <1>6 DEF D2HStep, Zero, CopyD2H
  <2>3. \A p \in Rank \ {r} : /\ data'[p] = data[p] /\ bf16_tmp'[p] = bf16_tmp[p]
                              /\ host_large'[p] = host_large[p]
    BY <1>6 DEF D2HStep, Zero, CopyD2H, Held, MemoryTypes
  <2>4. ASSUME NEW p \in Rank PROVE TensorHolds(p)' /\ StagingHolds(p)' /\ PulledHolds(p)'
    <3>1. <<"h2d", p>> # <<"d2h", r>> /\ <<"comp", p>> # <<"d2h", r>>
      OBVIOUS
    <3>2. PulledHolds(p)'
      BY <1>1, <1>4, <1>6, <2>2, <3>1, PulledSame
    <3>3. CASE p = r
      BY <1>6, <3>2, <3>3, D2HTensor, D2HStaging
    <3>4. CASE p # r
      <4>1. <<"d2h", p>> # <<"d2h", r>>
        BY <3>4
      <4>2. ran'["comp"][p] = ran["comp"][p] /\ ran'["d2h"][p] = ran["d2h"][p]
        BY <1>1, <1>4, <1>6, <3>1, <4>1
      <4>3. TensorHolds(p)'
        BY <1>1, <1>4, <1>6, <2>2, <2>3, <3>4, <4>2, TensorOther
      <4>4. StagingHolds(p)'
        BY <1>1, <1>4, <1>6, <2>3, <3>4, <4>2, StagingSame
      <4> QED BY <3>2, <4>3, <4>4
    <3> QED BY <3>3, <3>4
  <2> QED BY <2>1, <2>4 DEF Held
<1>7. ASSUME NEW r \in Rank, CopyH2D(r), Completed("h2d", r) PROVE Held'
  <2>1. MemoryTypes'
    BY <1>7, MemoryKept DEF Held
  <2>2. UNCHANGED <<data, bf16_tmp, host_large, recv>>
    BY <1>7 DEF CopyH2D
  <2>3. \A p \in Rank \ {r} : dev_tmp'[p] = dev_tmp[p]
    BY <1>7 DEF CopyH2D, Held, MemoryTypes
  <2>4. ASSUME NEW p \in Rank PROVE TensorHolds(p)' /\ StagingHolds(p)' /\ PulledHolds(p)'
    <3>1. <<"d2h", p>> # <<"h2d", r>> /\ <<"comp", p>> # <<"h2d", r>>
      OBVIOUS
    <3>2. ran'["comp"][p] = ran["comp"][p] /\ ran'["d2h"][p] = ran["d2h"][p]
      BY <1>1, <1>4, <1>7, <3>1
    <3>3. TensorHolds(p)'
      BY <1>1, <1>4, <1>7, <2>2, <3>2, TensorOther
    <3>4. StagingHolds(p)'
      BY <1>1, <1>4, <1>7, <2>2, <3>2, StagingSame
    <3>5. CASE p = r
      BY <1>7, <3>3, <3>4, <3>5, H2DPulled
    <3>6. CASE p # r
      <4>1. <<"h2d", p>> # <<"h2d", r>>
        BY <3>6
      <4>2. PulledHolds(p)'
        BY <1>1, <1>4, <1>7, <2>3, <3>6, <4>1, PulledSame
      <4> QED BY <3>3, <3>4, <4>2
    <3> QED BY <3>5, <3>6
  <2> QED BY <2>1, <2>4 DEF Held
<1> QED BY <1>2, <1>3, <1>5, <1>6, <1>7, Steps

(* What the buffers hold is what SumStays says. *)
LEMMA HeldSum == Ordered /\ Held => SumStays
<1> SUFFICES ASSUME Ordered, Held, NEW r \in Rank, NEW k \in Chunk, NEW n, n = ran["comp"][r],
                    n > 0, queue["comp"][r][n].kind = "add", k < queue["comp"][r][n].chunks
             PROVE  /\ data[r][k] = recv[r][k]
                    /\ data[r][k] = [p \in 1 .. NRanks |-> <<p - 1, queue["comp"][r][n].call>>]
  BY DEF SumStays
<1>1. "comp" \in Engine
  BY DEF Engine
<1>2. n \in Pos("comp", r)
  <2>1. n \in Nat /\ n <= Len(queue["comp"][r]) /\ Len(queue["comp"][r]) \in Nat
    BY <1>1, StreamFacts DEF Ordered
  <2> QED BY <2>1 DEF Pos
<1>3. PICK o \in OpType : o = queue["comp"][r][n]
  BY <1>1, <1>2, StreamFacts DEF Ordered
<1>4. k \in 0 .. o.chunks - 1
  <2>1. k \in Nat /\ o.chunks \in Nat
    BY CopyAssumption DEF OpType, Chunk
  <2> QED BY <1>3, <2>1
<1>5. TensorHolds(r)
  BY DEF Held
<1>6. data[r][k] = SumOf(o.call) /\ recv[r][k] = SumOf(o.call)
  BY <1>3, <1>4, <1>5 DEF TensorHolds
<1> QED BY <1>3, <1>6 DEF SumOf

(* THEOREM.  The streams keep their shape, and the buffers hold what the    *)
(* last operation on them made.                                             *)
THEOREM AlwaysHeld == Spec => [](Ordered /\ Shape /\ Held)
<1>1. Init => Ordered /\ Shape /\ Held
  BY InitOrdered, InitShape, InitHeld
<1>2. (Ordered /\ Shape /\ Held) /\ [Next]_vars => (Ordered /\ Shape /\ Held)'
  BY NextOrdered, NextShape, NextHeld
<1> QED BY <1>1, <1>2, PTL DEF Spec

(* THEOREM.  After the add of a call, and until the caller overwrites it,   *)
(* the tensor of every rank holds the sum, in rank order, of the            *)
(* contributions of all ranks to that call.                                 *)
THEOREM SumsStay == Spec => []SumStays
BY AlwaysHeld, HeldSum, PTL

-----------------------------------------------------------------------------
(* The refinement: once per call.                                           *)

(* The operation at x on r's stream to the host copies chunk k. *)
CopyOf(r, x, k) == queue["d2h"][r][x].kind = "d2h" /\ queue["d2h"][r][x].chunk = k

(* The operation at x on r's compute stream is an add. *)
AddAt(r, x) == queue["comp"][r][x].kind = "add"

(* Of each chunk there is one copy to the host per call, and there is one   *)
(* add per call.                                                            *)
Once ==
    \A r \in Rank :
        /\ \A x, y \in Pos("d2h", r), k \in Chunk :
              CopyOf(r, x, k) /\ CopyOf(r, y, k) /\ x < y =>
                  queue["d2h"][r][x].call < queue["d2h"][r][y].call
        /\ \A x, y \in Pos("comp", r) :
              AddAt(r, x) /\ AddAt(r, y) /\ x < y =>
                  queue["comp"][r][x].call < queue["comp"][r][y].call

(* An add has the copies of its rank's own chunks. *)
OwnCopies ==
    \A r \in Rank : \A x \in Pos("comp", r) :
        AddAt(r, x) => \A k \in 0 .. queue["comp"][r][x].chunks - 1 :
            \E y \in Pos("d2h", r) :
                CopyOf(r, y, k) /\ queue["d2h"][r][y].call = queue["comp"][r][x].call

(* Pinned memory holds what the last copy of the chunk brought there. *)
LastCopy(r, k, x) ==
    /\ x \in 1 .. ran["d2h"][r] /\ CopyOf(r, x, k)
    /\ host_large[r][k] = Own(r, queue["d2h"][r][x].call)
    /\ \A y \in 1 .. ran["d2h"][r] : CopyOf(r, y, k) => y <= x

NoCopy(r, k) ==
    host_large[r][k] = <<>> /\ \A x \in 1 .. ran["d2h"][r] : ~CopyOf(r, x, k)

GivenHolds(r, k) == NoCopy(r, k) \/ \E x \in 1 .. ran["d2h"][r] : LastCopy(r, k, x)

(* What was received is the sum of a call whose add has run. *)
ReceivedHolds(r, k) ==
    \/ recv[r][k] = <<>>
    \/ \E x \in 1 .. ran["comp"][r] :
          AddAt(r, x) /\ recv[r][k] = SumOf(queue["comp"][r][x].call)

Handed == /\ Once /\ OwnCopies
          /\ \A r \in Rank, k \in Chunk : GivenHolds(r, k) /\ ReceivedHolds(r, k)

(* Nothing is copied or received at first. *)
LEMMA InitHanded == Init => Handed
<1> SUFFICES ASSUME Init PROVE Handed
  OBVIOUS
<1>1. "comp" \in Engine /\ "d2h" \in Engine
  BY DEF Engine
<1>2. Len(<<>>) = 0
  OBVIOUS
<1>3. \A g \in Engine, r \in Rank : Pos(g, r) = {}
  BY <1>2 DEF Init, Pos
<1>4. \A r \in Rank : ran["d2h"][r] = 0
  BY <1>1 DEF Init
<1>5. \A r \in Rank, k \in Chunk : host_large[r][k] = <<>> /\ recv[r][k] = <<>>
  BY DEF Init
<1>6. \A r \in Rank, k \in Chunk : GivenHolds(r, k) /\ ReceivedHolds(r, k)
  BY <1>4, <1>5 DEF GivenHolds, NoCopy, ReceivedHolds
<1>7. Once /\ OwnCopies
  BY <1>1, <1>3 DEF Once, OwnCopies
<1> QED BY <1>6, <1>7 DEF Handed

(* The chunks of a call are copied one by one. *)
LEMMA NewCopies ==
    ASSUME Ordered, NEW n, NEW b, NEW idle, Call(n, b, idle), NEW r \in Rank
    PROVE  \E m \in Int : \A x \in Pos("d2h", r)', k \in Chunk :
              x \notin Pos("d2h", r) /\ CopyOf(r, x, k)' => x = m + k
<1>1. PICK q \in Seq(OpType) : q = queue["d2h"][r]
  BY StreamFacts DEF Engine, Ordered
<1>2. PICK s : s = queue'["d2h"][r]
  OBVIOUS
<1>3. PICK a : D2HAdds(q, s, n, b, r \in idle, r, a)
  BY <1>1, <1>2, CallAdds DEF Ordered
<1>4. /\ s \in Seq(OpType)
      /\ \A x \in Len(q) + 1 .. Len(s) :
            \/ s[x] = ZeroHost(n, b, r, a)
            \/ \E k \in 0 .. n - 1 : x = Len(s) - (n - 1) + k /\ s[x] = Push(n, b, r, a, k)
  BY <1>3 DEF D2HAdds, Grown
<1>5. Len(s) \in Nat /\ Len(q) \in Nat /\ n \in Nat
  <2>1. n \in Nat
    BY CopyAssumption DEF Call
  <2> QED BY <1>4, <2>1
<1>6. ZeroHost(n, b, r, a).kind = "zero"
  BY DEF ZeroHost, Op
<1>7. \A k : Push(n, b, r, a, k).chunk = k
  BY DEF Push, Op
<1>8. PICK m \in Int : m = Len(s) - (n - 1)
  <2>1. Len(s) - (n - 1) \in Int
    BY <1>5
  <2> QED BY <2>1
<1>9. ASSUME NEW x \in Len(q) + 1 .. Len(s), NEW k, s[x].kind = "d2h", s[x].chunk = k
      PROVE  x = m + k
  <2>1. PICK j \in 0 .. n - 1 : x = Len(s) - (n - 1) + j /\ s[x] = Push(n, b, r, a, j)
    BY <1>4, <1>6, <1>9
  <2>2. j = k
    BY <1>7, <1>9, <2>1
  <2> QED BY <1>8, <2>1, <2>2
<1>10. \A x \in Pos("d2h", r)' : x \notin Pos("d2h", r) => x \in Len(q) + 1 .. Len(s)
  BY <1>1, <1>2, <1>5 DEF Pos
<1> QED BY <1>2, <1>9, <1>10 DEF CopyOf

(* A call adds one copy of each of its chunks, and one add. *)
LEMMA CallOnce ==
    ASSUME Ordered, Once, NEW n, NEW b, NEW idle, Call(n, b, idle)
    PROVE  Once'
<1> USE DEF Ordered
<1>1. "comp" \in Engine /\ "d2h" \in Engine
  BY DEF Engine
<1>2. ASSUME NEW g \in Engine, NEW r \in Rank, NEW x \in Pos(g, r)', NEW y \in Pos(g, r)', x < y
      PROVE  \/ /\ x \in Pos(g, r) /\ y \in Pos(g, r)
                /\ queue'[g][r][x] = queue[g][r][x] /\ queue'[g][r][y] = queue[g][r][y]
             \/ x \notin Pos(g, r) /\ y \notin Pos(g, r)
             \/ queue'[g][r][x].call < queue'[g][r][y].call
  <2>1. call_count \in Nat /\ x \in Nat /\ y \in Nat /\ Len(queue[g][r]) \in Nat
    BY CallPositions, StreamFacts DEF StreamTypes
  <2>2. \A z \in Pos(g, r) : queue'[g][r][z] = queue[g][r][z] /\ queue[g][r][z].call \in 1 .. call_count
    BY OldOps, StreamFacts
  <2>3. CASE y \in Pos(g, r)
    <3>1. x \in Pos(g, r)
      BY <1>2, <2>1, <2>3 DEF Pos
    <3> QED BY <2>2, <2>3, <3>1
  <2>4. CASE y \notin Pos(g, r) /\ x \in Pos(g, r)
    <3>1. queue'[g][r][y].call = call_count + 1
      BY <2>4, CallPositions DEF OfCall
    <3>2. queue'[g][r][x].call \in 1 .. call_count
      BY <2>2, <2>4
    <3> QED BY <2>1, <3>1, <3>2
  <2> QED BY <2>3, <2>4
<1>3. ASSUME NEW r \in Rank, NEW x \in Pos("d2h", r)', NEW y \in Pos("d2h", r)', NEW k \in Chunk,
             CopyOf(r, x, k)', CopyOf(r, y, k)', x < y
      PROVE  queue'["d2h"][r][x].call < queue'["d2h"][r][y].call
  <2>1. CASE /\ x \in Pos("d2h", r) /\ y \in Pos("d2h", r)
             /\ queue'["d2h"][r][x] = queue["d2h"][r][x] /\ queue'["d2h"][r][y] = queue["d2h"][r][y]
    <3>1. CopyOf(r, x, k) /\ CopyOf(r, y, k)
      BY <1>3, <2>1 DEF CopyOf
    <3> QED BY <1>3, <2>1, <3>1 DEF Once
  <2>2. ASSUME x \notin Pos("d2h", r), y \notin Pos("d2h", r) PROVE FALSE
    <3>1. PICK m \in Int : \A z \in Pos("d2h", r)', j \in Chunk :
              z \notin Pos("d2h", r) /\ CopyOf(r, z, j)' => z = m + j
      BY NewCopies
    <3>2. x = m + k /\ y = m + k
      BY <1>3, <2>2, <3>1
    <3>3. x = y /\ x \in Nat
      BY <1>1, <3>2, CallPositions
    <3> QED BY <1>3, <3>3
  <2> QED BY <1>1, <1>2, <1>3, <2>1, <2>2
<1>4. ASSUME NEW r \in Rank, NEW x \in Pos("comp", r)', NEW y \in Pos("comp", r)',
             AddAt(r, x)', AddAt(r, y)', x < y
      PROVE  queue'["comp"][r][x].call < queue'["comp"][r][y].call
  <2>1. CASE /\ x \in Pos("comp", r) /\ y \in Pos("comp", r)
             /\ queue'["comp"][r][x] = queue["comp"][r][x] /\ queue'["comp"][r][y] = queue["comp"][r][y]
    <3>1. AddAt(r, x) /\ AddAt(r, y)
      BY <1>4, <2>1 DEF AddAt
    <3> QED BY <1>4, <2>1, <3>1 DEF Once
  <2>2. ASSUME x \notin Pos("comp", r), y \notin Pos("comp", r) PROVE FALSE
    <3>1. PICK l \in Nat :
              CompTail(queue["comp"][r], queue'["comp"][r], call_count + 1, n, b, r \in idle, l)
      BY NewTail
    <3>2. l = Len(queue'["comp"][r])
      BY <3>1 DEF CompTail
    <3>3. /\ x \in Len(queue["comp"][r]) + 1 .. l /\ y \in Len(queue["comp"][r]) + 1 .. l
          /\ x \in Nat
      BY <1>1, <2>2, <3>2, CallPositions
    <3>4. x = l /\ y = l
      BY <1>4, <3>1, <3>3 DEF CompTail, AddAt
    <3> QED BY <1>4, <3>3, <3>4
  <2> QED BY <1>1, <1>2, <1>4, <2>1, <2>2
<1> QED BY <1>3, <1>4 DEF Once

(* And the copies of its add. *)
LEMMA CallOwnCopies ==
    ASSUME Ordered, OwnCopies, NEW n, NEW b, NEW idle, Call(n, b, idle)
    PROVE  OwnCopies'
<1> USE DEF Ordered
<1>1. "comp" \in Engine /\ "d2h" \in Engine
  BY DEF Engine
<1> SUFFICES ASSUME NEW r \in Rank, NEW x \in Pos("comp", r)', AddAt(r, x)',
                    NEW k \in 0 .. queue'["comp"][r][x].chunks - 1
             PROVE  \E y \in Pos("d2h", r)' :
                        /\ CopyOf(r, y, k)'
                        /\ queue'["d2h"][r][y].call = queue'["comp"][r][x].call
  BY DEF OwnCopies
<1>2. CASE x \in Pos("comp", r)
  <2>1. queue'["comp"][r][x] = queue["comp"][r][x]
    BY <1>1, <1>2, OldOps
  <2>2. PICK y \in Pos("d2h", r) :
            CopyOf(r, y, k) /\ queue["d2h"][r][y].call = queue["comp"][r][x].call
    BY <1>2, <2>1 DEF OwnCopies, AddAt
  <2>3. y \in Pos("d2h", r)' /\ queue'["d2h"][r][y] = queue["d2h"][r][y]
    BY <1>1, OldOps
  <2> QED BY <2>1, <2>2, <2>3 DEF CopyOf
<1>3. CASE x \notin Pos("comp", r)
  <2>1. queue'["comp"][r][x].call = call_count + 1 /\ queue'["comp"][r][x].chunks = n
    BY <1>1, <1>3, CallPositions DEF OfCall
  <2>2. D2HTail(queue["d2h"][r], queue'["d2h"][r], call_count + 1, n, b, r \in idle)
    BY NewD2H
  <2>3. PICK v : v = queue'["d2h"][r]
    OBVIOUS
  <2>4. PICK y \in 1 .. Len(v) : v[y].kind = "d2h" /\ v[y].call = call_count + 1 /\ v[y].chunk = k
    BY <2>1, <2>2, <2>3 DEF D2HTail
  <2>5. y \in Pos("d2h", r)' /\ CopyOf(r, y, k)'
    BY <2>3, <2>4 DEF Pos, CopyOf
  <2> QED BY <2>1, <2>3, <2>4, <2>5
<1> QED BY <1>2, <1>3

(* Pinned memory that no step of the rank touches. *)
LEMMA GivenSame ==
    ASSUME queue' = queue, NEW p \in Rank, NEW k \in Chunk, GivenHolds(p, k),
           ran'["d2h"][p] = ran["d2h"][p], host_large'[p] = host_large[p]
    PROVE  GivenHolds(p, k)'
<1>1. \A x : CopyOf(p, x, k)' <=> CopyOf(p, x, k)
  BY DEF CopyOf
<1>2. \A x : LastCopy(p, k, x)' <=> LastCopy(p, k, x)
  BY <1>1 DEF LastCopy
<1>3. NoCopy(p, k)' <=> NoCopy(p, k)
  BY <1>1 DEF NoCopy
<1> QED BY <1>2, <1>3 DEF GivenHolds

(* A sum that stays has been received. *)
LEMMA ReceivedSame ==
    ASSUME queue' = queue, NEW p \in Rank, NEW k \in Chunk, ReceivedHolds(p, k),
           ran["comp"][p] \in Nat, ran'["comp"][p] \in Nat, ran'["comp"][p] >= ran["comp"][p],
           recv'[p][k] = recv[p][k]
    PROVE  ReceivedHolds(p, k)'
<1>1. CASE recv[p][k] = <<>>
  BY <1>1 DEF ReceivedHolds
<1>2. ASSUME NEW x \in 1 .. ran["comp"][p], AddAt(p, x), recv[p][k] = SumOf(queue["comp"][p][x].call)
      PROVE  ReceivedHolds(p, k)'
  <2>1. x \in 1 .. ran'["comp"][p]
    OBVIOUS
  <2>2. AddAt(p, x)'
    BY <1>2 DEF AddAt
  <2>3. recv'[p][k] = SumOf(queue'["comp"][p][x].call)
    BY <1>2
  <2>4. SumOf(queue["comp"][p][x].call)' = SumOf(queue'["comp"][p][x].call)
    BY DEF SumOf
  <2> QED BY <2>1, <2>2, <2>3, <2>4 DEF ReceivedHolds
<1> QED BY <1>1, <1>2 DEF ReceivedHolds

(* A copy to the host is the last one of its chunk. *)
LEMMA D2HGiven ==
    ASSUME Ordered, Shape, Held, NEW r \in Rank, D2HStep(r), Completed("d2h", r),
           NEW k \in Chunk, GivenHolds(r, k)
    PROVE  GivenHolds(r, k)'
<1> USE DEF Ordered
<1>1. "d2h" \in Engine
  BY DEF Engine
<1>2. Ready("d2h", r) /\ queue' = queue
  BY DEF Completed
<1>3. PICK x \in Pos("d2h", r) : x = ran["d2h"][r] + 1 /\ ran["d2h"][r] \in Nat
  BY <1>1, <1>2, ReadyHead
<1>4. PICK o \in OpType : o = queue["d2h"][r][x] /\ Head_("d2h", r) = o
  BY <1>1, <1>2, <1>3, StreamFacts, ReadyHead
<1>5. ran'["d2h"][r] = x
  BY <1>1, <1>3, CompletedRan
<1>6. \A y : CopyOf(r, y, k)' <=> CopyOf(r, y, k)
  BY <1>2 DEF CopyOf
<1>7. ASSUME o.kind # "d2h" \/ o.chunk # k, host_large'[r][k] = host_large[r][k]
      PROVE  GivenHolds(r, k)'
  <2>1. ~CopyOf(r, x, k)
    BY <1>4, <1>7 DEF CopyOf
  <2>2. \A y \in 1 .. x : y = x \/ y \in 1 .. ran["d2h"][r]
    BY <1>3
  <2>3. ASSUME NoCopy(r, k) PROVE NoCopy(r, k)'
    BY <1>5, <1>6, <1>7, <2>1, <2>2, <2>3 DEF NoCopy
  <2>4. ASSUME NEW y \in 1 .. ran["d2h"][r], LastCopy(r, k, y)
        PROVE  y \in 1 .. x /\ LastCopy(r, k, y)'
    <3>1. y \in 1 .. x
      BY <1>3
    <3>2. host_large'[r][k] = Own(r, queue'["d2h"][r][y].call)
      BY <1>2, <1>7, <2>4 DEF LastCopy
    <3>3. \A z \in 1 .. x : CopyOf(r, z, k) => z <= y
      BY <2>1, <2>2, <2>4 DEF LastCopy
    <3>4. CopyOf(r, y, k)
      BY <2>4 DEF LastCopy
    <3> QED BY <1>5, <1>6, <3>1, <3>2, <3>3, <3>4 DEF LastCopy, Own
  <2> QED BY <1>5, <2>3, <2>4 DEF GivenHolds
<1>8. CASE Zero("d2h", r)
  <2>1. o.kind = "zero" /\ host_large' = host_large
    BY <1>4, <1>8 DEF Zero, Retire
  <2> QED BY <1>7, <2>1
<1>9. CASE CopyD2H(r)
  <2>1. o.kind = "d2h"
    BY <1>4, <1>9 DEF CopyD2H, Retire
  <2>2. host_large' = [host_large EXCEPT ![r][o.chunk] = (IF o.bf16 THEN bf16_tmp ELSE data)[r][o.chunk]]
    BY <1>4, <1>9 DEF CopyD2H
  <2>3. (IF o.bf16 THEN bf16_tmp ELSE data)[r][o.chunk] = Own(r, o.call)
    BY <1>2, <1>4, <2>1, HostValue
  <2>4. host_large' = [host_large EXCEPT ![r][o.chunk] = Own(r, o.call)]
    BY <2>2, <2>3
  <2>5. DOMAIN host_large = Rank /\ DOMAIN host_large[r] = Chunk
    BY DEF Held, MemoryTypes
  <2>6. CASE o.chunk # k
    <3>1. host_large'[r][k] = host_large[r][k]
      BY <2>4, <2>5, <2>6
    <3> QED BY <1>7, <2>6, <3>1
  <2>7. CASE o.chunk = k
    <3>1. host_large'[r][k] = Own(r, o.call)
      BY <2>4, <2>5, <2>7
    <3>2. CopyOf(r, x, k)
      BY <1>4, <2>1, <2>7 DEF CopyOf
    <3>3. x \in 1 .. x /\ \A z \in 1 .. x : z <= x
      BY <1>3
    <3>4. host_large'[r][k] = Own(r, queue'["d2h"][r][x].call)
      BY <1>2, <1>4, <3>1
    <3>5. LastCopy(r, k, x)'
      BY <1>5, <1>6, <3>2, <3>3, <3>4 DEF LastCopy, Own
    <3> QED BY <1>5, <3>3, <3>5 DEF GivenHolds
  <2> QED BY <2>6, <2>7
<1> QED BY <1>8, <1>9 DEF D2HStep

(* What an add stores is the sum of its call. *)
LEMMA AddStores ==
    ASSUME Ordered, Shape, Held, NEW r \in Rank, Add(r), Completed("comp", r),
           NEW o, o = Head_("comp", r), NEW k \in Chunk
    PROVE  /\ ran["comp"][r] \in Nat /\ ran["comp"][r] + 1 \in Pos("comp", r)
           /\ o = queue["comp"][r][ran["comp"][r] + 1] /\ o \in OpType /\ o.kind = "add"
           /\ recv'[r][k] = IF k < o.chunks THEN SumOf(o.call) ELSE recv[r][k]
<1> USE DEF Ordered
<1>1. "comp" \in Engine
  BY DEF Engine
<1>2. Ready("comp", r) /\ queue' = queue
  BY DEF Completed
<1>3. PICK x \in Pos("comp", r) : x = ran["comp"][r] + 1 /\ ran["comp"][r] \in Nat
  BY <1>1, <1>2, ReadyHead
<1>4. o \in OpType /\ o = queue["comp"][r][x]
  BY <1>1, <1>2, <1>3, StreamFacts, ReadyHead
<1>5. ran'["comp"][r] = x
  BY <1>1, <1>3, CompletedRan
<1>6. o.kind = "add"
  BY DEF Add, Retire
<1>7. ASSUME k < o.chunks PROVE recv'[r][k] = SumOf(o.call)
  <2>1. k \in 0 .. o.chunks - 1
    <3>1. k \in Nat /\ o.chunks \in Nat
      BY <1>4, CopyAssumption DEF OpType, Chunk
    <3> QED BY <1>7, <3>1
  <2>2. TensorHolds(r)'
    BY CompTensor DEF CompStep
  <2>3. x > 0
    BY <1>3
  <2>4. queue'["comp"][r][ran'["comp"][r]] = o
    BY <1>2, <1>4, <1>5
  <2>5. recv'[r][k] = SumOf(o.call)'
    BY <1>5, <1>6, <2>1, <2>2, <2>3, <2>4 DEF TensorHolds
  <2> QED BY <2>5 DEF SumOf
<1>8. ASSUME ~(k < o.chunks) PROVE recv'[r][k] = recv[r][k]
  <2>1. recv' = [recv EXCEPT ![r] = Fill(@, o, LAMBDA j : Contributions(r, j))]
    BY DEF Add
  <2>2. DOMAIN recv = Rank
    BY DEF Held, MemoryTypes
  <2> QED BY <1>8, <2>1, <2>2 DEF Fill
<1> QED BY <1>3, <1>4, <1>6, <1>7, <1>8

(* What a rank has received after a step on its compute stream. *)
LEMMA CompReceived ==
    ASSUME Ordered, Shape, Held, NEW r \in Rank, CompStep(r), Completed("comp", r),
           NEW k \in Chunk, ReceivedHolds(r, k)
    PROVE  ReceivedHolds(r, k)'
<1> USE DEF Ordered
<1>1. "comp" \in Engine
  BY DEF Engine
<1>2. queue' = queue
  BY DEF Completed
<1>3. /\ ran["comp"][r] \in Nat /\ ran'["comp"][r] \in Nat
      /\ ran'["comp"][r] = ran["comp"][r] + 1
  BY <1>1, StreamFacts, CompletedRan
<1>4. ASSUME recv'[r][k] = recv[r][k] PROVE ReceivedHolds(r, k)'
  BY <1>2, <1>3, <1>4, ReceivedSame
<1>5. CASE ~Add(r)
  <2>1. recv' = recv
    BY <1>5 DEF CompStep, Produce, Scratch, Convert, Zero
  <2> QED BY <1>4, <2>1
<1>6. CASE Add(r)
  <2>1. PICK o : o = Head_("comp", r)
    OBVIOUS
  <2>2. /\ o = queue["comp"][r][ran["comp"][r] + 1] /\ o.kind = "add"
        /\ recv'[r][k] = IF k < o.chunks THEN SumOf(o.call) ELSE recv[r][k]
    BY <1>6, <2>1, AddStores
  <2>3. CASE k < o.chunks
    <3>1. PICK x : x = ran["comp"][r] + 1
      OBVIOUS
    <3>2. x \in 1 .. ran'["comp"][r]
      BY <1>3, <3>1
    <3>3. AddAt(r, x)'
      BY <1>2, <2>2, <3>1 DEF AddAt
    <3>4. recv'[r][k] = SumOf(queue'["comp"][r][x].call)
      BY <1>2, <2>2, <2>3, <3>1
    <3>5. SumOf(queue["comp"][r][x].call)' = SumOf(queue'["comp"][r][x].call)
      BY DEF SumOf
    <3> QED BY <3>2, <3>3, <3>4, <3>5 DEF ReceivedHolds
  <2>4. CASE ~(k < o.chunks)
    BY <1>4, <2>2, <2>4
  <2> QED BY <2>3, <2>4
<1> QED BY <1>5, <1>6

(* Every step keeps the account. *)
LEMMA NextHanded == Ordered /\ Shape /\ Held /\ Handed /\ [Next]_vars => Handed'
<1> SUFFICES ASSUME Ordered, Shape, Held, Handed, [Next]_vars PROVE Handed'
  OBVIOUS
<1>1. "comp" \in Engine /\ "d2h" \in Engine /\ "h2d" \in Engine
  BY DEF Engine
<1>2. ASSUME queue' = queue PROVE Once' /\ OwnCopies'
  <2>1. \A g, r : Pos(g, r)' = Pos(g, r)
    BY <1>2 DEF Pos
  <2>2. \A r, x, k : CopyOf(r, x, k)' <=> CopyOf(r, x, k)
    BY <1>2 DEF CopyOf
  <2>3. \A r, x : AddAt(r, x)' <=> AddAt(r, x)
    BY <1>2 DEF AddAt
  <2>4. Once /\ OwnCopies
    BY DEF Handed
  <2>5. Once'
    BY <1>2, <2>1, <2>2, <2>3, <2>4 DEF Once
  <2>6. OwnCopies'
    BY <1>2, <2>1, <2>2, <2>3, <2>4 DEF OwnCopies
  <2> QED BY <2>5, <2>6
<1>3. ASSUME NEW p \in Rank, NEW k \in Chunk
      PROVE  GivenHolds(p, k) /\ ReceivedHolds(p, k) /\ ran["comp"][p] \in Nat
  BY <1>1, StreamFacts DEF Handed, Ordered
<1>4. CASE UNCHANGED vars
  <2>1. UNCHANGED <<queue, ran, host_large, recv>>
    BY <1>4 DEF vars, memory
  <2>2. ASSUME NEW p \in Rank, NEW k \in Chunk PROVE GivenHolds(p, k)' /\ ReceivedHolds(p, k)'
    BY <1>3, <2>1, GivenSame, ReceivedSame
  <2> QED BY <1>2, <2>1, <2>2 DEF Handed
<1>5. ASSUME NEW n, NEW b, NEW idle, Call(n, b, idle) PROVE Handed'
  <2>1. Once' /\ OwnCopies'
    BY <1>5, CallOnce, CallOwnCopies DEF Handed
  <2>2. UNCHANGED <<ran, host_large, recv>>
    BY <1>5 DEF Call, CopyImpl, memory
  <2>3. ASSUME NEW p \in Rank
        PROVE  /\ \A x \in 1 .. ran["d2h"][p] : queue'["d2h"][p][x] = queue["d2h"][p][x]
               /\ \A x \in 1 .. ran["comp"][p] : queue'["comp"][p][x] = queue["comp"][p][x]
    <3>1. /\ ran["d2h"][p] \in Nat /\ ran["d2h"][p] <= Len(queue["d2h"][p]) /\ Len(queue["d2h"][p]) \in Nat
          /\ ran["comp"][p] \in Nat /\ ran["comp"][p] <= Len(queue["comp"][p]) /\ Len(queue["comp"][p]) \in Nat
      BY <1>1, StreamFacts DEF Ordered
    <3>2. 1 .. ran["d2h"][p] \subseteq Pos("d2h", p) /\ 1 .. ran["comp"][p] \subseteq Pos("comp", p)
      BY <3>1 DEF Pos
    <3> QED BY <1>1, <1>5, <3>2, OldOps
  <2>4. ASSUME NEW p \in Rank, NEW k \in Chunk PROVE GivenHolds(p, k)'
    <3>1. \A x \in 1 .. ran["d2h"][p] : CopyOf(p, x, k)' <=> CopyOf(p, x, k)
      BY <2>3 DEF CopyOf
    <3>2. ASSUME NEW x \in 1 .. ran["d2h"][p], LastCopy(p, k, x) PROVE LastCopy(p, k, x)'
      <4>1. host_large'[p][k] = Own(p, queue'["d2h"][p][x].call)
        BY <2>2, <2>3, <3>2 DEF LastCopy
      <4> QED BY <2>2, <3>1, <3>2, <4>1 DEF LastCopy, Own
    <3>3. NoCopy(p, k) => NoCopy(p, k)'
      BY <2>2, <3>1 DEF NoCopy
    <3>4. GivenHolds(p, k)
      BY <1>3
    <3> QED BY <2>2, <3>2, <3>3, <3>4 DEF GivenHolds
  <2>5. ASSUME NEW p \in Rank, NEW k \in Chunk PROVE ReceivedHolds(p, k)'
    <3>1. CASE recv[p][k] = <<>>
      BY <2>2, <3>1 DEF ReceivedHolds
    <3>2. ASSUME NEW x \in 1 .. ran["comp"][p], AddAt(p, x), recv[p][k] = SumOf(queue["comp"][p][x].call)
          PROVE  ReceivedHolds(p, k)'
      <4>1. AddAt(p, x)' /\ x \in 1 .. ran'["comp"][p]
        BY <2>2, <2>3, <3>2 DEF AddAt
      <4>2. recv'[p][k] = SumOf(queue["comp"][p][x].call)'
        BY <2>2, <2>3, <3>2 DEF SumOf
      <4> QED BY <4>1, <4>2 DEF ReceivedHolds
    <3>3. ReceivedHolds(p, k)
      BY <1>3
    <3> QED BY <3>1, <3>2, <3>3 DEF ReceivedHolds
  <2> QED BY <2>1, <2>4, <2>5 DEF Handed
<1>6. ASSUME NEW r \in Rank, CompStep(r), Completed("comp", r) PROVE Handed'
  <2>1. queue' = queue /\ host_large' = host_large
    BY <1>6 DEF Completed, CompStep, Produce, Scratch, Convert, Zero, Add
  <2>2. \A p \in Rank \ {r} : recv'[p] = recv[p]
    BY <1>6 DEF CompStep, Produce, Scratch, Convert, Zero, Add, Held, MemoryTypes
  <2>3. ASSUME NEW p \in Rank, NEW k \in Chunk PROVE GivenHolds(p, k)' /\ ReceivedHolds(p, k)'
    <3>1. <<"d2h", p>> # <<"comp", r>>
      OBVIOUS
    <3>2. ran'["d2h"][p] = ran["d2h"][p]
      BY <1>1, <1>6, <3>1, CompletedRan DEF Ordered
    <3>3. GivenHolds(p, k)'
      BY <1>3, <2>1, <3>2, GivenSame
    <3>4. CASE p = r
      BY <1>3, <1>6, <3>3, <3>4, CompReceived
    <3>5. CASE p # r
      <4>1. <<"comp", p>> # <<"comp", r>>
        BY <3>5
      <4>2. ran'["comp"][p] = ran["comp"][p]
        BY <1>1, <1>6, <4>1, CompletedRan DEF Ordered
      <4>3. ReceivedHolds(p, k)'
        BY <1>3, <2>1, <2>2, <3>5, <4>2, ReceivedSame
      <4> QED BY <3>3, <4>3
    <3> QED BY <3>4, <3>5
  <2> QED BY <1>2, <2>1, <2>3 DEF Handed
<1>7. ASSUME NEW r \in Rank, D2HStep(r), Completed("d2h", r) PROVE Handed'
  <2>1. queue' = queue /\ recv' = recv
    BY <1>7 DEF Completed, D2HStep, Zero, CopyD2H
  <2>2. \A p \in Rank \ {r} : host_large'[p] = host_large[p]
    BY <1>7 DEF D2HStep, Zero, CopyD2H, Held, MemoryTypes
  <2>3. ASSUME NEW p \in Rank, NEW k \in Chunk PROVE GivenHolds(p, k)' /\ ReceivedHolds(p, k)'
    <3>1. <<"comp", p>> # <<"d2h", r>>
      OBVIOUS
    <3>2. ran'["comp"][p] = ran["comp"][p]
      BY <1>1, <1>7, <3>1, CompletedRan DEF Ordered
    <3>3. ReceivedHolds(p, k)'
      BY <1>3, <2>1, <3>2, ReceivedSame
    <3>4. CASE p = r
      BY <1>3, <1>7, <3>3, <3>4, D2HGiven
    <3>5. CASE p # r
      <4>1. <<"d2h", p>> # <<"d2h", r>>
        BY <3>5
      <4>2. ran'["d2h"][p] = ran["d2h"][p]
        BY <1>1, <1>7, <4>1, CompletedRan DEF Ordered
      <4>3. GivenHolds(p, k)'
        BY <1>3, <2>1, <2>2, <3>5, <4>2, GivenSame
      <4> QED BY <3>3, <4>3
    <3> QED BY <3>4, <3>5
  <2> QED BY <1>2, <2>1, <2>3 DEF Handed
<1>8. ASSUME NEW r \in Rank, CopyH2D(r), Completed("h2d", r) PROVE Handed'
  <2>1. queue' = queue /\ UNCHANGED <<host_large, recv>>
    BY <1>8 DEF Completed, CopyH2D
  <2>2. ASSUME NEW p \in Rank
        PROVE  ran'["comp"][p] = ran["comp"][p] /\ ran'["d2h"][p] = ran["d2h"][p]
    <3>1. <<"comp", p>> # <<"h2d", r>> /\ <<"d2h", p>> # <<"h2d", r>>
      OBVIOUS
    <3> QED BY <1>1, <1>8, <3>1, CompletedRan DEF Ordered
  <2>3. ASSUME NEW p \in Rank, NEW k \in Chunk PROVE GivenHolds(p, k)' /\ ReceivedHolds(p, k)'
    BY <1>3, <2>1, <2>2, GivenSame, ReceivedSame
  <2> QED BY <1>2, <2>1, <2>3 DEF Handed
<1> QED BY <1>4, <1>5, <1>6, <1>7, <1>8, Steps

(* The two modules name ranks, chunks and sums alike. *)
LEMMA SameNames ==
    /\ AllReduce!Rank = Rank
    /\ AllReduce!Elem = Chunk
    /\ \A c : AllReduce!Sum(c) = SumOf(c)
BY DEF AllReduce!Rank, Rank, AllReduce!Elem, Chunk, AllReduce!Sum, SumOf

(* The contribution of r to call c says which call it is for. *)
LEMMA OwnCall ==
    ASSUME NEW r, NEW c
    PROVE  Own(r, c) # <<>> /\ Own(r, c)[1][2] = c
<1>1. PICK e : e = <<r, c>>
  OBVIOUS
<1>2. <<e>> # <<>> /\ <<e>>[1] = e
  OBVIOUS
<1>3. e[2] = c
  BY <1>1
<1> QED BY <1>1, <1>2, <1>3 DEF Own

(* The last contribution to a chunk is that of its last copy. *)
LEMMA GivenIs ==
    ASSUME Ordered, Handed, NEW p \in Rank, NEW k \in Chunk
    PROVE  \/ givenBar[p][k] = 0 /\ NoCopy(p, k)
           \/ \E x \in 1 .. ran["d2h"][p] :
                 /\ LastCopy(p, k, x) /\ x \in Pos("d2h", p)
                 /\ givenBar[p][k] = queue["d2h"][p][x].call
<1> USE DEF Ordered
<1>1. "d2h" \in Engine
  BY DEF Engine
<1>2. givenBar[p][k] = IF host_large[p][k] = <<>> THEN 0 ELSE host_large[p][k][1][2]
  BY DEF givenBar
<1>3. ASSUME NEW x \in 1 .. ran["d2h"][p], LastCopy(p, k, x)
      PROVE  x \in Pos("d2h", p) /\ givenBar[p][k] = queue["d2h"][p][x].call
  <2>1. ran["d2h"][p] \in Nat /\ ran["d2h"][p] <= Len(queue["d2h"][p]) /\ Len(queue["d2h"][p]) \in Nat
    BY <1>1, StreamFacts
  <2>2. x \in Pos("d2h", p)
    BY <2>1 DEF Pos
  <2>3. PICK c : c = queue["d2h"][p][x].call
    OBVIOUS
  <2>4. host_large[p][k] = Own(p, c)
    BY <1>3, <2>3 DEF LastCopy
  <2> QED BY <1>2, <2>2, <2>3, <2>4, OwnCall
<1>4. GivenHolds(p, k)
  BY DEF Handed
<1>5. NoCopy(p, k) => givenBar[p][k] = 0
  BY <1>2 DEF NoCopy
<1> QED BY <1>3, <1>4, <1>5 DEF GivenHolds

(* Copying a chunk to pinned memory is contributing it. *)
LEMMA RefinesCopy ==
    ASSUME Ordered, Shape, Held, Handed, NEW r \in Rank, CopyD2H(r), Completed("d2h", r)
    PROVE  AllReduce!SpecNext
<1> USE DEF Ordered
<1>1. "d2h" \in Engine
  BY DEF Engine
<1>2. Ready("d2h", r) /\ queue' = queue
  BY DEF Completed
<1>3. PICK x \in Pos("d2h", r) : x = ran["d2h"][r] + 1 /\ ran["d2h"][r] \in Nat
  BY <1>1, <1>2, ReadyHead
<1>4. PICK o \in OpType : o = queue["d2h"][r][x] /\ Head_("d2h", r) = o
  BY <1>1, <1>2, <1>3, StreamFacts, ReadyHead
<1>5. PICK k \in Chunk, c \in Nat : k = o.chunk /\ c = o.call
  BY DEF OpType
<1>6. o.kind = "d2h"
  BY <1>4 DEF CopyD2H, Retire
<1>7. host_large' = [host_large EXCEPT ![r][k] = Own(r, c)]
  <2>1. host_large' = [host_large EXCEPT ![r][k] = (IF o.bf16 THEN bf16_tmp ELSE data)[r][k]]
    BY <1>4, <1>5 DEF CopyD2H
  <2>2. (IF o.bf16 THEN bf16_tmp ELSE data)[r][k] = Own(r, c)
    BY <1>2, <1>4, <1>5, <1>6, HostValue
  <2> QED BY <2>1, <2>2
<1>8. DOMAIN host_large = Rank /\ \A p \in Rank : DOMAIN host_large[p] = Chunk
  BY DEF Held, MemoryTypes
<1>9. /\ host_large'[r][k] = Own(r, c)
      /\ \A p \in Rank, j \in Chunk : p # r \/ j # k => host_large'[p][j] = host_large[p][j]
  BY <1>7, <1>8
<1> DEFINE mark(h) == IF h = <<>> THEN 0 ELSE h[1][2]
<1>10. /\ \A p \in Rank, j \in Chunk : givenBar[p][j] = mark(host_large[p][j])
       /\ \A p \in Rank, j \in Chunk : givenBar'[p][j] = mark(host_large'[p][j])
       /\ givenBar' = [p \in Rank |-> [j \in Chunk |-> givenBar'[p][j]]]
       /\ givenBar = [p \in Rank |-> [j \in Chunk |-> givenBar[p][j]]]
  BY DEF givenBar
<1>11. mark(Own(r, c)) = c
  BY OwnCall
<1> HIDE DEF mark
<1>12. \A p \in Rank, j \in Chunk : givenBar'[p][j] = IF p = r /\ j = k THEN c ELSE givenBar[p][j]
  BY <1>9, <1>10, <1>11
<1>13. givenBar[r][k] < c
  <2>1. CASE givenBar[r][k] = 0
    <3>1. c \in 1 .. call_count /\ call_count \in Nat
      BY <1>1, <1>4, <1>5, StreamFacts DEF StreamTypes
    <3> QED BY <2>1, <3>1
  <2>2. ASSUME NEW y \in 1 .. ran["d2h"][r], LastCopy(r, k, y), y \in Pos("d2h", r),
               givenBar[r][k] = queue["d2h"][r][y].call
        PROVE  givenBar[r][k] < c
    <3>1. CopyOf(r, y, k) /\ CopyOf(r, x, k) /\ y < x
      <4>1. CopyOf(r, y, k)
        BY <2>2 DEF LastCopy
      <4>2. CopyOf(r, x, k)
        BY <1>4, <1>5, <1>6 DEF CopyOf
      <4> QED BY <1>3, <2>2, <4>1, <4>2
    <3>2. Once
      BY DEF Handed
    <3> QED BY <1>4, <1>5, <2>2, <3>1, <3>2 DEF Once
  <2> QED BY <2>1, <2>2, GivenIs
<1>14. PICK old \in Int : old = givenBar[r][k] /\ old # c
  <2>1. CASE givenBar[r][k] = 0
    BY <1>13, <2>1
  <2>2. ASSUME NEW y \in Pos("d2h", r), givenBar[r][k] = queue["d2h"][r][y].call
        PROVE  givenBar[r][k] \in Int
    BY <1>1, <2>2, StreamFacts DEF OpType
  <2>3. givenBar[r][k] \in Int
    BY <2>1, <2>2, GivenIs
  <2> QED BY <1>13, <2>3
<1> DEFINE L == {e \in Chunk : givenBar'[r][e] # givenBar[r][e]}
<1>15. L = {k}
  BY <1>12, <1>14
<1>16. givenBar' = [givenBar EXCEPT ![r] = [e \in Chunk |-> IF e \in L THEN c ELSE @[e]]]
  <2> DEFINE f == [givenBar EXCEPT ![r] = [e \in Chunk |-> IF e \in L THEN c ELSE @[e]]]
  <2>1. f = [p \in Rank |-> IF p = r THEN [e \in Chunk |-> IF e = k THEN c ELSE givenBar[p][e]]
                                     ELSE givenBar[p]]
    BY <1>10, <1>15
  <2>2. \A p \in Rank : givenBar[p] = [e \in Chunk |-> givenBar[p][e]]
    BY <1>10
  <2>3. \A p \in Rank : givenBar'[p] = [e \in Chunk |-> givenBar'[p][e]]
    BY <1>10
  <2>4. \A p \in Rank : givenBar'[p] = IF p = r THEN [e \in Chunk |-> IF e = k THEN c ELSE givenBar[p][e]]
                                                ELSE givenBar[p]
    BY <1>12, <2>2, <2>3
  <2>5. givenBar' = [p \in Rank |-> givenBar'[p]]
    BY <1>10
  <2> QED BY <2>1, <2>4, <2>5
<1>17. recv' = recv
  BY DEF CopyD2H
<1>18. \A e \in L : givenBar[r][e] < c
  BY <1>13, <1>15
<1>19. AllReduce!Contribute(r, L, c)
  BY <1>16, <1>17, <1>18, SameNames DEF AllReduce!Contribute
<1>20. L # {} /\ c \in {givenBar'[r][e] : e \in L}
  BY <1>12, <1>15
<1> QED BY <1>19, <1>20, SameNames DEF AllReduce!SpecNext

(* A chunk that was copied to the host for a call has been contributed, to  *)
(* that call or a later one.                                                *)
LEMMA GivenAtLeast ==
    ASSUME Ordered, Shape, Handed, NEW p \in Rank, NEW k \in Chunk,
           NEW y \in 1 .. ran["d2h"][p], CopyOf(p, y, k)
    PROVE  \E z \in Pos("d2h", p) :
              /\ z <= ran["d2h"][p]
              /\ givenBar[p][k] = queue["d2h"][p][z].call
              /\ givenBar[p][k] \in Nat /\ givenBar[p][k] >= queue["d2h"][p][y].call
<1> USE DEF Ordered
<1>1. "d2h" \in Engine
  BY DEF Engine
<1>2. ran["d2h"][p] \in Nat /\ ran["d2h"][p] <= Len(queue["d2h"][p]) /\ Len(queue["d2h"][p]) \in Nat
  BY <1>1, StreamFacts
<1>3. ~NoCopy(p, k)
  BY DEF NoCopy
<1>4. PICK z \in 1 .. ran["d2h"][p] : /\ LastCopy(p, k, z) /\ z \in Pos("d2h", p)
                                      /\ givenBar[p][k] = queue["d2h"][p][z].call
  BY <1>3, GivenIs
<1>5. y <= z
  BY <1>4 DEF LastCopy
<1>6. y \in Pos("d2h", p)
  BY <1>2 DEF Pos
<1>7. queue["d2h"][p][y].call <= queue["d2h"][p][z].call
  BY <1>1, <1>4, <1>5, <1>6 DEF Shape
<1>8. queue["d2h"][p][y].call \in Nat /\ queue["d2h"][p][z].call \in Nat
  BY <1>1, <1>4, <1>6, StreamFacts DEF OpType
<1>9. z <= ran["d2h"][p]
  BY <1>2, <1>4
<1> QED BY <1>4, <1>7, <1>8, <1>9

(* A sum tells its call. *)
LEMMA SumsDiffer ==
    ASSUME NEW c
    PROVE  /\ SumOf(c) # <<>>
           /\ \A d : SumOf(d) = SumOf(c) => d = c
<1>1. NRanks \in Nat /\ 1 \in 1 .. NRanks
  BY CopyAssumption
<1>2. \A d : SumOf(d)[1] = <<0, d>> /\ DOMAIN SumOf(d) = 1 .. NRanks
  BY <1>1 DEF SumOf
<1>3. DOMAIN <<>> = {}
  OBVIOUS
<1>4. SumOf(c) # <<>>
  BY <1>1, <1>2, <1>3
<1>5. \A d : SumOf(d) = SumOf(c) => <<0, d>> = <<0, c>>
  BY <1>2
<1> QED BY <1>4, <1>5

(* When r adds, every rank has contributed, r to this call and to no later  *)
(* one, and r has not received the sum.                                     *)
LEMMA AddFinds ==
    ASSUME Ordered, Shape, Handed, NEW r \in Rank, Ready("comp", r), NEW o, o = Head_("comp", r),
           o.kind = "add", NEW k \in Chunk, k < o.chunks
    PROVE  /\ givenBar[r][k] = o.call
           /\ \A p \in Rank : givenBar[p][k] >= o.call
           /\ recv[r][k] # SumOf(o.call)
<1> USE DEF Ordered
<1>1. "comp" \in Engine /\ "d2h" \in Engine /\ "h2d" \in Engine
  BY DEF Engine
<1>2. PICK x \in Pos("comp", r) : x = ran["comp"][r] + 1 /\ ran["comp"][r] \in Nat
  BY <1>1, ReadyHead
<1>3. o \in OpType /\ o = queue["comp"][r][x]
  BY <1>1, <1>2, StreamFacts, ReadyHead
<1>4. PICK c \in Nat : c = o.call
  BY <1>3 DEF OpType
<1>5. k \in 0 .. o.chunks - 1
  <2>1. k \in Nat /\ o.chunks \in Nat
    BY <1>3, CopyAssumption DEF OpType, Chunk
  <2> QED BY <2>1
<1>6. AddAt(r, x)
  BY <1>3 DEF AddAt
<1>7. ASSUME NEW p \in Rank
      PROVE  \E y \in 1 .. ran["d2h"][p] : CopyOf(p, y, k) /\ queue["d2h"][p][y].call = c
  <2>1. ran["d2h"][p] \in Nat /\ ran["h2d"][r] \in Nat
        /\ ran["h2d"][r] <= Len(queue["h2d"][r]) /\ Len(queue["h2d"][r]) \in Nat
    BY <1>1, StreamFacts
  <2>2. CASE p = r
    <3>1. k \in 0 .. queue["comp"][r][x].chunks - 1
      BY <1>3, <1>5
    <3>2. PICK y \in Pos("d2h", r) :
              CopyOf(r, y, k) /\ queue["d2h"][r][y].call = queue["comp"][r][x].call
      BY <1>6, <3>1 DEF Handed, OwnCopies
    <3>3. Precedes("d2h", r, queue["d2h"][r][y], "comp", r, o)
      BY <1>3, <3>2 DEF Precedes
    <3>4. y <= ran["d2h"][r]
      BY <1>1, <1>2, <1>3, <3>3, Done
    <3>5. y \in 1 .. ran["d2h"][p]
      BY <2>1, <2>2, <3>4 DEF Pos
    <3> QED BY <1>3, <1>4, <2>2, <3>2, <3>5
  <2>3. CASE p # r
    <3>1. Pulled(r, p, k, c)
      BY <1>2, <1>3, <1>4, <1>5, <2>3, AtAdd
    <3>2. PICK y \in 1 .. ran["h2d"][r] :
              LET q == queue["h2d"][r][y] IN q.peer = p /\ q.chunk = k /\ q.call = c
      BY <3>1 DEF Pulled
    <3>3. y \in Pos("h2d", r) /\ y <= ran["h2d"][r]
      BY <2>1, <3>2 DEF Pos
    <3>4. PICK w \in Pos("d2h", p) : /\ CopyOf(p, w, k)
                                     /\ queue["d2h"][p][w].call = c
      <4>1. H2DShape(r, y)
        BY <3>3 DEF Shape
      <4> QED BY <3>2, <4>1 DEF H2DShape, CopyOf
    <3>5. Precedes("d2h", p, queue["d2h"][p][w], "h2d", r, queue["h2d"][r][y])
      <4>1. queue["d2h"][p][w].chunk <= queue["h2d"][r][y].chunk
        <5>1. k \in Nat
          BY <1>5
        <5> QED BY <3>2, <3>4, <5>1 DEF CopyOf
      <4> QED BY <3>2, <3>4, <4>1 DEF Precedes
    <3>6. w <= ran["d2h"][p]
      BY <1>1, <3>3, <3>5, Done
    <3>7. w \in 1 .. ran["d2h"][p]
      BY <2>1, <3>6 DEF Pos
    <3> QED BY <3>4, <3>7
  <2> QED BY <2>2, <2>3
<1>8. \A p \in Rank : givenBar[p][k] >= c
  BY <1>7, GivenAtLeast
<1>9. givenBar[r][k] = c
  <2>1. PICK y \in 1 .. ran["d2h"][r] : CopyOf(r, y, k) /\ queue["d2h"][r][y].call = c
    BY <1>7
  <2>2. PICK z \in Pos("d2h", r) : /\ z <= ran["d2h"][r]
                                   /\ givenBar[r][k] = queue["d2h"][r][z].call
                                   /\ givenBar[r][k] \in Nat /\ givenBar[r][k] >= c
    BY <2>1, GivenAtLeast
  <2>3. ASSUME c < givenBar[r][k] PROVE FALSE
    <3>1. Precedes("comp", r, o, "d2h", r, queue["d2h"][r][z])
      BY <1>4, <2>2, <2>3 DEF Precedes
    <3>2. Precedes("comp", r, queue["comp"][r][x], "d2h", r, queue["d2h"][r][z])
      BY <1>3, <3>1
    <3>3. x <= ran["comp"][r]
      <4>1. z <= ran["d2h"][r]
        BY <2>2
      <4> QED BY <1>1, <3>2, <4>1, Done
    <3> QED BY <1>2, <3>3
  <2> QED BY <2>2, <2>3
<1>10. ASSUME recv[r][k] = SumOf(c) PROVE FALSE
  <2>1. PICK z \in 1 .. ran["comp"][r] : AddAt(r, z) /\ SumOf(queue["comp"][r][z].call) = SumOf(c)
    <3>1. recv[r][k] # <<>>
      BY <1>10, SumsDiffer
    <3>2. ReceivedHolds(r, k)
      BY DEF Handed
    <3> QED BY <1>10, <3>1, <3>2 DEF ReceivedHolds
  <2>2. queue["comp"][r][z].call = c
    BY <2>1, SumsDiffer
  <2>3. z \in Pos("comp", r) /\ z < x
    BY <1>2, <2>1 DEF Pos
  <2>4. queue["comp"][r][z].call < queue["comp"][r][x].call
    BY <1>6, <2>1, <2>3 DEF Handed, Once
  <2> QED BY <1>3, <1>4, <2>2, <2>4
<1> QED BY <1>4, <1>8, <1>9, <1>10

(* Adding is delivering the chunks of the call. *)
LEMMA RefinesAdd ==
    ASSUME Ordered, Shape, Held, Handed, NEW r \in Rank, Add(r), Completed("comp", r)
    PROVE  AllReduce!SpecNext
<1>1. Ready("comp", r)
  BY DEF Completed
<1>2. PICK o : o = Head_("comp", r)
  OBVIOUS
<1>3. PICK c : c = o.call
  OBVIOUS
<1>4. 0 \in Chunk
  BY CopyAssumption DEF Chunk
<1>5. o \in OpType /\ o.kind = "add"
  BY <1>2, <1>4, AddStores
<1> DEFINE S == {k \in Chunk : k < o.chunks}
           L == {e \in Chunk : recv'[r][e] # recv[r][e]}
<1>6. 0 \in S
  <2>1. o.chunks \in Nat /\ o.chunks >= 1
    BY <1>5, CopyAssumption DEF OpType
  <2> QED BY <1>4, <2>1
<1>7. \A k \in Chunk : recv'[r][k] = IF k \in S THEN SumOf(c) ELSE recv[r][k]
  BY <1>2, <1>3, AddStores
<1>8. \A k \in S : /\ k \in Chunk
                   /\ givenBar[r][k] = c
                   /\ \A p \in Rank : givenBar[p][k] >= c
                   /\ recv[r][k] # SumOf(c)
  BY <1>1, <1>2, <1>3, <1>5, AddFinds
<1>9. recv' = [recv EXCEPT ![r] = [k \in Chunk |-> IF k \in S THEN SumOf(c) ELSE @[k]]]
  <2>1. recv' = [recv EXCEPT ![r] = Fill(recv[r], o, LAMBDA k : Contributions(r, k))]
    BY <1>2 DEF Add
  <2>2. DOMAIN recv = Rank
    BY DEF Held, MemoryTypes
  <2>3. recv'[r] = Fill(recv[r], o, LAMBDA k : Contributions(r, k))
    BY <2>1, <2>2
  <2>4. recv' = [recv EXCEPT ![r] = recv'[r]]
    BY <2>1, <2>3
  <2>5. recv'[r] = [k \in Chunk |-> recv'[r][k]]
    BY <2>3 DEF Fill
  <2>6. recv'[r] = [k \in Chunk |-> IF k \in S THEN SumOf(c) ELSE recv[r][k]]
    BY <1>7, <2>5
  <2> QED BY <2>4, <2>6
<1> HIDE DEF S
<1>10. L = S
  BY <1>7, <1>8
<1>11. givenBar' = givenBar
  BY DEF Add, givenBar
<1>12. /\ \A e \in L : givenBar[r][e] = c
       /\ \A e \in L, p \in Rank : givenBar[p][e] >= c
       /\ \A e \in L : recv[r][e] # SumOf(c)
  BY <1>8, <1>10
<1>13. recv' = [recv EXCEPT ![r] = [k \in Chunk |-> IF k \in L THEN SumOf(c) ELSE @[k]]]
  BY <1>9, <1>10
<1>14. L # {} /\ c \in {givenBar[r][e] : e \in L}
  BY <1>6, <1>10, <1>12
<1> HIDE DEF L
<1>15. AllReduce!Deliver(r, L, c)
  BY <1>11, <1>12, <1>13, SameNames DEF AllReduce!Deliver
<1> QED BY <1>14, <1>15, SameNames DEF AllReduce!SpecNext, L

(* The copy engines start where an all-reduce starts. *)
LEMMA RefinesInit == Init => AllReduce!SpecInit
<1> SUFFICES ASSUME Init PROVE AllReduce!SpecInit
  OBVIOUS
<1>1. \A r \in Rank, k \in Chunk : host_large[r][k] = <<>>
  BY DEF Init
<1>2. givenBar = [r \in Rank |-> [k \in Chunk |-> 0]]
  BY <1>1 DEF givenBar
<1>3. recv = [r \in Rank |-> [k \in Chunk |-> <<>>]]
  BY DEF Init
<1> QED BY <1>2, <1>3, SameNames DEF AllReduce!SpecInit

(* Every step is a step of the all-reduce, or changes nothing of it. *)
LEMMA RefinesStep ==
    Ordered /\ Shape /\ Held /\ Handed /\ [Next]_vars => [AllReduce!SpecNext]_AllReduce!specVars
<1> SUFFICES ASSUME Ordered, Shape, Held, Handed, [Next]_vars
             PROVE  AllReduce!SpecNext \/ UNCHANGED AllReduce!specVars
  OBVIOUS
<1>1. ASSUME UNCHANGED <<host_large, recv>> PROVE UNCHANGED AllReduce!specVars
  <2>1. givenBar' = givenBar
    BY <1>1 DEF givenBar
  <2> QED BY <1>1, <2>1 DEF AllReduce!specVars
<1>2. CASE UNCHANGED vars
  BY <1>1, <1>2 DEF vars, memory
<1>3. ASSUME NEW n, NEW b, NEW idle, Call(n, b, idle) PROVE UNCHANGED AllReduce!specVars
  BY <1>1, <1>3 DEF Call, CopyImpl, memory
<1>4. ASSUME NEW r \in Rank, CompStep(r), Completed("comp", r)
      PROVE  AllReduce!SpecNext \/ UNCHANGED AllReduce!specVars
  <2>1. CASE Add(r)
    BY <1>4, <2>1, RefinesAdd
  <2>2. CASE ~Add(r)
    BY <1>1, <1>4, <2>2 DEF CompStep, Produce, Scratch, Convert, Zero
  <2> QED BY <2>1, <2>2
<1>5. ASSUME NEW r \in Rank, D2HStep(r), Completed("d2h", r)
      PROVE  AllReduce!SpecNext \/ UNCHANGED AllReduce!specVars
  <2>1. CASE CopyD2H(r)
    BY <1>5, <2>1, RefinesCopy
  <2>2. CASE Zero("d2h", r)
    BY <1>1, <2>2 DEF Zero
  <2> QED BY <1>5, <2>1, <2>2 DEF D2HStep
<1>6. ASSUME NEW r \in Rank, CopyH2D(r) PROVE UNCHANGED AllReduce!specVars
  BY <1>1, <1>6 DEF CopyH2D
<1> QED BY <1>2, <1>3, <1>4, <1>5, <1>6, Steps

(* THEOREM.  The copy engines are an all-reduce: a chunk is contributed     *)
(* when it reaches pinned memory, once per call and in order, and its sum   *)
(* is received once, after every rank has contributed and before this rank  *)
(* contributes to its next call.                                            *)
THEOREM CopyImplements == Spec => Implements
<1>1. Init => Ordered /\ Shape /\ Held /\ Handed
  BY InitOrdered, InitShape, InitHeld, InitHanded
<1>2. (Ordered /\ Shape /\ Held /\ Handed) /\ [Next]_vars => (Ordered /\ Shape /\ Held /\ Handed)'
  BY NextOrdered, NextShape, NextHeld, NextHanded
<1> QED BY <1>1, <1>2, RefinesInit, RefinesStep, PTL DEF Spec, Implements, AllReduce!SpecSpec
=============================================================================
