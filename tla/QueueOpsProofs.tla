--------------------------- MODULE QueueOpsProofs ---------------------------
(***************************************************************************)
(* What the operators of QueueOps do, for every queue.  The lemmas are     *)
(* proved by induction over the length of a queue.                         *)
(***************************************************************************)
EXTENDS QueueOps, FiniteSetTheorems, SequenceTheorems, WellFoundedInduction, TLAPS

-----------------------------------------------------------------------------
(* Induction.                                                               *)

(* A set of natural numbers that is not empty has a least element. *)
LEMMA LeastNatural ==
    ASSUME NEW T, T \subseteq Nat, T # {}
    PROVE  \E x \in T : \A y \in T : x <= y
<1> DEFINE R == {ss \in Nat \X Nat : ss[1] < ss[2]}
<1>1. IsWellFoundedOn(R, Nat)
  BY NatLessThanWellFounded DEF OpToRel
<1>2. \A x, y \in Nat : <<y, x>> \in R <=> y < x
  OBVIOUS
<1> HIDE DEF R
<1>3. PICK x \in T : \A y \in T : ~ (<<y, x>> \in R)
  BY <1>1, WFMin
<1>4. ASSUME NEW y \in T PROVE x <= y
  <2>1. ~ (y < x) /\ x \in Nat /\ y \in Nat
    BY <1>2, <1>3
  <2> QED BY <2>1
<1> QED BY <1>4

(* What holds of 0, and of n + 1 when it holds of n, holds of every number. *)
LEMMA Induction ==
    ASSUME NEW S, 0 \in S, \A n \in Nat : n \in S => n + 1 \in S
    PROVE  Nat \subseteq S
<1> SUFFICES ASSUME Nat \ S # {} PROVE FALSE
  OBVIOUS
<1>1. PICK x \in Nat \ S : \A y \in Nat \ S : x <= y
  BY LeastNatural
<1>2. x # 0 /\ x - 1 \in Nat /\ x - 1 < x
  BY <1>1
<1>3. x - 1 \in S
  BY <1>1, <1>2
<1> QED BY <1>1, <1>2, <1>3

-----------------------------------------------------------------------------
(* Select is computed element by element.                                   *)

(* One element, after those before it. *)
Choose(p, e, T) == IF e \in T THEN Append(p, e) ELSE p

(* g[i] is what is selected from the first i elements. *)
Chosen(g, q, T, n) ==
    g = [i \in 0 .. n |-> IF i = 0 THEN <<>> ELSE Choose(g[i - 1], q[i], T)]

(* The same, for every i. *)
LEMMA ChosenAt ==
    ASSUME NEW g, NEW q, NEW T, NEW n \in Nat, Chosen(g, q, T, n)
    PROVE  g[0] = <<>> /\ \A i \in 1 .. n : g[i] = Choose(g[i - 1], q[i], T)
<1> DEFINE step(i) == IF i = 0 THEN <<>> ELSE Choose(g[i - 1], q[i], T)
<1>1. g = [i \in 0 .. n |-> step(i)]
  BY DEF Chosen
<1>2. \A i \in 0 .. n : g[i] = step(i)
  <2> HIDE DEF step
  <2> QED BY <1>1
<1>3. \A i \in 1 .. n : i \in 0 .. n /\ i # 0
  OBVIOUS
<1> QED BY <1>2, <1>3

(* There is such a function. *)
LEMMA ChosenExists ==
    ASSUME NEW q, NEW T, NEW n \in Nat
    PROVE  \E g : Chosen(g, q, T, n)
<1> DEFINE S == {m \in Nat : \E g : Chosen(g, q, T, m)}
<1>1. 0 \in S
  <2> DEFINE g == [i \in 0 .. 0 |-> <<>>]
  <2>1. Chosen(g, q, T, 0)
    BY DEF Chosen
  <2> QED BY <2>1
<1>2. ASSUME NEW m \in Nat, m \in S PROVE m + 1 \in S
  <2>1. PICK g : Chosen(g, q, T, m)
    BY <1>2
  <2> DEFINE h == [i \in 0 .. m + 1 |-> IF i = m + 1 THEN Choose(g[m], q[m + 1], T) ELSE g[i]]
  <2>2. \A i \in 0 .. m : h[i] = g[i]
    OBVIOUS
  <2>3. h[m + 1] = Choose(h[m], q[m + 1], T)
    BY <2>2
  <2>4. h[0] = <<>> /\ \A i \in 1 .. m : h[i] = Choose(h[i - 1], q[i], T)
    <3>1. \A i \in 1 .. m : h[i] = g[i] /\ h[i - 1] = g[i - 1]
      BY <2>2
    <3>2. h[0] = g[0]
      BY <2>2
    <3> HIDE DEF h
    <3> QED BY <2>1, <3>1, <3>2, ChosenAt
  <2>5. h = [i \in 0 .. m + 1 |-> h[i]]
    OBVIOUS
  <2> HIDE DEF h
  <2>6. \A i \in 0 .. m + 1 : h[i] = IF i = 0 THEN <<>> ELSE Choose(h[i - 1], q[i], T)
    BY <2>3, <2>4
  <2>7. Chosen(h, q, T, m + 1)
    BY <2>5, <2>6 DEF Chosen
  <2> QED BY <2>7
<1> HIDE DEF S
<1>3. Nat \subseteq S
  BY <1>1, <1>2, Induction
<1> QED BY <1>3 DEF S

(* It is what Select computes. *)
LEMMA SelectIs ==
    ASSUME NEW q, NEW T, Len(q) \in Nat
    PROVE  \E g : Chosen(g, q, T, Len(q)) /\ Select(q, T) = g[Len(q)]
<1> DEFINE g == CHOOSE g : g = [i \in 0 .. Len(q) |-> IF i = 0 THEN <<>>
                      ELSE IF q[i] \in T THEN Append(g[i - 1], q[i]) ELSE g[i - 1]]
<1>1. PICK h : Chosen(h, q, T, Len(q))
  BY ChosenExists
<1>2. Chosen(g, q, T, Len(q))
  BY <1>1 DEF Chosen, Choose
<1>3. Select(q, T) = g[Len(q)]
  BY DEF Select
<1> QED BY <1>2, <1>3

(* Two queues that agree on their first n elements have the same selected   *)
(* from them.                                                               *)
LEMMA ChosenSame ==
    ASSUME NEW q, NEW r, NEW T, NEW n \in Nat, NEW m \in Nat, NEW g, NEW h,
           Chosen(g, q, T, n), Chosen(h, r, T, m), n <= m,
           \A i \in 1 .. n : q[i] = r[i]
    PROVE  g[n] = h[n]
<1> DEFINE S == {k \in Nat : k <= n => g[k] = h[k]}
<1>1. 0 \in S
  BY ChosenAt
<1>2. ASSUME NEW k \in Nat, k \in S PROVE k + 1 \in S
  <2> SUFFICES ASSUME k + 1 <= n PROVE g[k + 1] = h[k + 1]
    OBVIOUS
  <2>1. k + 1 \in 1 .. n /\ k + 1 \in 1 .. m /\ (k + 1) - 1 = k /\ g[k] = h[k]
    BY <1>2
  <2>2. g[k + 1] = Choose(g[k], q[k + 1], T)
    BY <2>1, ChosenAt
  <2>3. h[k + 1] = Choose(h[k], r[k + 1], T)
    BY <2>1, ChosenAt
  <2> QED BY <2>1, <2>2, <2>3
<1> HIDE DEF S
<1>3. Nat \subseteq S
  BY <1>1, <1>2, Induction
<1> QED BY <1>3 DEF S

-----------------------------------------------------------------------------
(* Select and the operations on queues.                                     *)

(* Of nothing, nothing. *)
LEMMA SelectEmpty == ASSUME NEW T PROVE Select(<<>>, T) = <<>>
<1>1. Len(<<>>) = 0
  OBVIOUS
<1>2. PICK g : Chosen(g, <<>>, T, 0) /\ Select(<<>>, T) = g[0]
  BY <1>1, SelectIs
<1> QED BY <1>2, ChosenAt

(* An element at the end is selected last. *)
LEMMA SelectAppend ==
    ASSUME NEW A, NEW q \in Seq(A), NEW e \in A, NEW T
    PROVE  Select(Append(q, e), T) = Choose(Select(q, T), e, T)
<1> DEFINE r == Append(q, e)
<1>1. /\ Len(q) \in Nat /\ Len(r) = Len(q) + 1 /\ r[Len(q) + 1] = e
      /\ \A i \in 1 .. Len(q) : q[i] = r[i]
  OBVIOUS
<1>2. PICK g : Chosen(g, q, T, Len(q)) /\ Select(q, T) = g[Len(q)]
  BY <1>1, SelectIs
<1> HIDE DEF r
<1>3. PICK h : Chosen(h, r, T, Len(q) + 1) /\ Select(r, T) = h[Len(q) + 1]
  BY <1>1, SelectIs
<1>4. g[Len(q)] = h[Len(q)]
  BY <1>1, <1>2, <1>3, ChosenSame
<1>5. h[Len(q) + 1] = Choose(h[Len(q)], r[Len(q) + 1], T)
  <2>1. Len(q) + 1 \in 1 .. Len(q) + 1 /\ (Len(q) + 1) - 1 = Len(q) /\ Len(q) + 1 \in Nat
    BY <1>1
  <2> QED BY <1>3, <2>1, ChosenAt
<1> QED BY <1>1, <1>2, <1>3, <1>4, <1>5 DEF r
(* Induction over the length of a queue. *)
LEMMA QueueInduction ==
    ASSUME NEW A, NEW S, <<>> \in S,
           \A q \in Seq(A) : q \in S => \A e \in A : Append(q, e) \in S
    PROVE  Seq(A) \subseteq S
<1> DEFINE N == {n \in Nat : \A q \in Seq(A) : Len(q) = n => q \in S}
<1>1. 0 \in N
  OBVIOUS
<1>2. ASSUME NEW n \in Nat, n \in N PROVE n + 1 \in N
  <2> SUFFICES ASSUME NEW q \in Seq(A), Len(q) = n + 1 PROVE q \in S
    OBVIOUS
  <2> DEFINE p == SubSeq(q, 1, n)
             e == q[n + 1]
  <2>1. p \in Seq(A) /\ Len(p) = n /\ e \in A /\ q = Append(p, e)
    OBVIOUS
  <2>2. p \in S
    BY <1>2, <2>1
  <2> HIDE DEF p, e
  <2> QED BY <2>1, <2>2
<1> HIDE DEF N
<1>3. Nat \subseteq N
  BY <1>1, <1>2, Induction
<1> QED BY <1>3 DEF N

(* What is selected from a queue are elements of it that are in T. *)
LEMMA SelectType ==
    ASSUME NEW A, NEW q \in Seq(A), NEW T
    PROVE  Select(q, T) \in Seq(A \cap T)
<1> DEFINE S == {p \in Seq(A) : Select(p, T) \in Seq(A \cap T)}
<1>1. <<>> \in S
  <2>1. Select(<<>>, T) = <<>>
    BY SelectEmpty
  <2>2. <<>> \in Seq(A) /\ <<>> \in Seq(A \cap T)
    OBVIOUS
  <2> QED BY <2>1, <2>2
<1>2. ASSUME NEW p \in Seq(A), p \in S, NEW e \in A PROVE Append(p, e) \in S
  <2>1. Select(Append(p, e), T) = Choose(Select(p, T), e, T)
    BY SelectAppend
  <2>2. Select(p, T) \in Seq(A \cap T) /\ Append(p, e) \in Seq(A)
    BY <1>2
  <2>3. Choose(Select(p, T), e, T) \in Seq(A \cap T)
    <3>1. CASE e \in T
      BY <2>2, <3>1 DEF Choose
    <3>2. CASE e \notin T
      BY <2>2, <3>2 DEF Choose
    <3> QED BY <3>1, <3>2
  <2> QED BY <2>1, <2>2, <2>3
<1> HIDE DEF S
<1>3. Seq(A) \subseteq S
  BY <1>1, <1>2, QueueInduction
<1> QED BY <1>3 DEF S

(* From two queues in a row the same is selected as from each of them. *)
LEMMA SelectConcat ==
    ASSUME NEW A, NEW p \in Seq(A), NEW q \in Seq(A), NEW T
    PROVE  Select(p \o q, T) = Select(p, T) \o Select(q, T)
<1> DEFINE S == {r \in Seq(A) : Select(p \o r, T) = Select(p, T) \o Select(r, T)}
<1>0. Select(p, T) \in Seq(A)
  <2>1. Select(p, T) \in Seq(A \cap T)
    BY SelectType
  <2> QED BY <2>1
<1>1. <<>> \in S
  <2>1. p \o <<>> = p /\ Select(p, T) \o <<>> = Select(p, T)
    BY <1>0
  <2>2. Select(<<>>, T) = <<>>
    BY SelectEmpty
  <2>3. <<>> \in Seq(A)
    OBVIOUS
  <2> QED BY <2>1, <2>2, <2>3
<1>2. ASSUME NEW r \in Seq(A), r \in S, NEW e \in A PROVE Append(r, e) \in S
  <2>1. p \o r \in Seq(A) /\ p \o Append(r, e) = Append(p \o r, e)
    OBVIOUS
  <2>2. Select(p \o Append(r, e), T) = Choose(Select(p, T) \o Select(r, T), e, T)
    BY <1>2, <2>1, SelectAppend
  <2>3. Select(r, T) \in Seq(A)
    <3>1. Select(r, T) \in Seq(A \cap T)
      BY SelectType
    <3> QED BY <3>1
  <2>4. Choose(Select(p, T) \o Select(r, T), e, T) = Select(p, T) \o Choose(Select(r, T), e, T)
    <3> DEFINE a == Select(p, T)
               b == Select(r, T)
    <3>1. a \in Seq(A) /\ b \in Seq(A)
      BY <1>0, <2>3
    <3> HIDE DEF a, b
    <3>2. Append(a \o b, e) = a \o Append(b, e)
      <4>1. Append(a \o b, e) = (a \o b) \o <<e>> /\ Append(b, e) = b \o <<e>> /\ <<e>> \in Seq(A)
        <5>1. a \o b \in Seq(A)
          BY <3>1
        <5>2. \A x \in Seq(A) : Append(x, e) = x \o <<e>>
          BY AppendIsConcat
        <5>3. <<e>> \in Seq(A)
          OBVIOUS
        <5> QED BY <3>1, <5>1, <5>2, <5>3
      <4>2. (a \o b) \o <<e>> = a \o (b \o <<e>>)
        BY <3>1, <4>1, ConcatAssociative
      <4> QED BY <4>1, <4>2
    <3> QED BY <3>2 DEF Choose, a, b
  <2>5. Select(Append(r, e), T) = Choose(Select(r, T), e, T)
    BY SelectAppend
  <2> QED BY <2>2, <2>4, <2>5
<1> HIDE DEF S
<1>3. Seq(A) \subseteq S
  BY <1>1, <1>2, QueueInduction
<1> QED BY <1>3 DEF S

(* A queue of one element. *)
LEMMA SelectOne ==
    ASSUME NEW e, NEW T
    PROVE  Select(<<e>>, T) = IF e \in T THEN <<e>> ELSE <<>>
<1>1. <<>> \in Seq({e}) /\ Append(<<>>, e) = <<e>> /\ e \in {e}
  OBVIOUS
<1>2. Select(<<>>, T) = <<>>
  BY SelectEmpty
<1>3. Select(Append(<<>>, e), T) = Choose(Select(<<>>, T), e, T)
  BY <1>1, SelectAppend
<1> QED BY <1>1, <1>2, <1>3 DEF Choose

(* Two sets that agree on the elements of a queue select the same. *)
LEMMA SelectSame ==
    ASSUME NEW A, NEW q \in Seq(A), NEW T, NEW U, A \cap T = A \cap U
    PROVE  Select(q, T) = Select(q, U)
<1> DEFINE S == {p \in Seq(A) : Select(p, T) = Select(p, U)}
<1>1. <<>> \in S
  BY SelectEmpty
<1>2. ASSUME NEW p \in Seq(A), p \in S, NEW e \in A PROVE Append(p, e) \in S
  <2>1. Select(Append(p, e), T) = Choose(Select(p, T), e, T)
    BY SelectAppend
  <2>2. Select(Append(p, e), U) = Choose(Select(p, U), e, U)
    BY SelectAppend
  <2>3. e \in T <=> e \in U
    OBVIOUS
  <2> QED BY <1>2, <2>1, <2>2, <2>3 DEF Choose
<1> HIDE DEF S
<1>3. Seq(A) \subseteq S
  BY <1>1, <1>2, QueueInduction
<1> QED BY <1>3 DEF S

(* To select twice is to select what passes both tests. *)
LEMMA SelectTwice ==
    ASSUME NEW A, NEW q \in Seq(A), NEW T, NEW U
    PROVE  Select(Select(q, T), U) = Select(q, T \cap U)
<1> DEFINE S == {p \in Seq(A) : Select(Select(p, T), U) = Select(p, T \cap U)}
<1>1. <<>> \in S
  BY SelectEmpty
<1>2. ASSUME NEW p \in Seq(A), p \in S, NEW e \in A PROVE Append(p, e) \in S
  <2>1. Select(p, T) \in Seq(A)
    <3>1. Select(p, T) \in Seq(A \cap T)
      BY SelectType
    <3> QED BY <3>1
  <2>2. Select(Append(p, e), T) = Choose(Select(p, T), e, T)
    BY SelectAppend
  <2>3. Select(Append(p, e), T \cap U) = Choose(Select(p, T \cap U), e, T \cap U)
    BY SelectAppend
  <2>4. Select(Append(Select(p, T), e), U) = Choose(Select(Select(p, T), U), e, U)
    BY <2>1, SelectAppend
  <2>5. Select(Select(Append(p, e), T), U) = Select(Append(p, e), T \cap U)
    <3>1. CASE e \in T
      <4>1. Select(Append(p, e), T) = Append(Select(p, T), e)
        BY <2>2, <3>1 DEF Choose
      <4>2. Select(Append(p, e), T \cap U) = Choose(Select(p, T \cap U), e, U)
        BY <2>3, <3>1 DEF Choose
      <4>3. Select(Select(p, T), U) = Select(p, T \cap U)
        BY <1>2
      <4> QED BY <2>4, <4>1, <4>2, <4>3
    <3>2. CASE e \notin T
      BY <1>2, <2>2, <2>3, <3>2 DEF Choose
    <3> QED BY <3>1, <3>2
  <2>6. Append(p, e) \in Seq(A)
    OBVIOUS
  <2> QED BY <2>5, <2>6
<1> HIDE DEF S
<1>3. Seq(A) \subseteq S
  BY <1>1, <1>2, QueueInduction
<1> QED BY <1>3 DEF S

(* Select leaves a queue as it is whose elements all pass. *)
LEMMA SelectAll ==
    ASSUME NEW A, NEW q \in Seq(A), NEW T, A \subseteq T
    PROVE  Select(q, T) = q
<1> DEFINE S == {p \in Seq(A) : Select(p, T) = p}
<1>1. <<>> \in S
  BY SelectEmpty
<1>2. ASSUME NEW p \in Seq(A), p \in S, NEW e \in A PROVE Append(p, e) \in S
  BY <1>2, SelectAppend DEF Choose
<1> HIDE DEF S
<1>3. Seq(A) \subseteq S
  BY <1>1, <1>2, QueueInduction
<1> QED BY <1>3 DEF S

(* A queue is its first element and the others. *)
LEMMA SelectHead ==
    ASSUME NEW A, NEW q \in Seq(A), q # <<>>, NEW T
    PROVE  Select(q, T) = Select(<<Head(q)>>, T) \o Select(Tail(q), T)
<1>1. Head(q) \in A /\ Tail(q) \in Seq(A) /\ q = <<Head(q)>> \o Tail(q) /\ <<Head(q)>> \in Seq(A)
  OBVIOUS
<1>2. ASSUME NEW a \in Seq(A), NEW b \in Seq(A) PROVE Select(a \o b, T) = Select(a, T) \o Select(b, T)
  BY SelectConcat
<1>3. Select(<<Head(q)>> \o Tail(q), T) = Select(<<Head(q)>>, T) \o Select(Tail(q), T)
  <2>1. PICK a \in Seq(A) : a = <<Head(q)>>
    BY <1>1
  <2>2. PICK b \in Seq(A) : b = Tail(q)
    BY <1>1
  <2>3. Select(a \o b, T) = Select(a, T) \o Select(b, T)
    BY <1>2
  <2> QED BY <2>1, <2>2, <2>3
<1> QED BY <1>1, <1>3

-----------------------------------------------------------------------------
(* Without.                                                                 *)

(* Range, as a set of elements. *)
LEMMA RangeType ==
    ASSUME NEW A, NEW q \in Seq(A)
    PROVE  Range(q) \subseteq A /\ q \in Seq(Range(q))
BY DEF Range

(* To take elements away that would not be selected makes no difference. *)
LEMMA SelectWithout ==
    ASSUME NEW A, NEW q \in Seq(A), NEW T, NEW U
    PROVE  /\ Without(q, T) \in Seq(A)
           /\ Select(Without(q, T), U) = Select(q, U \ T)
<1>1. Range(q) \subseteq A /\ q \in Seq(Range(q))
  BY RangeType
<1>2. Without(q, T) \in Seq(Range(q) \cap (Range(q) \ T))
  BY <1>1, SelectType DEF Without
<1>3. Select(Without(q, T), U) = Select(q, (Range(q) \ T) \cap U)
  BY <1>1, SelectTwice DEF Without
<1>4. Range(q) \cap ((Range(q) \ T) \cap U) = Range(q) \cap (U \ T)
  OBVIOUS
<1>5. Select(q, (Range(q) \ T) \cap U) = Select(q, U \ T)
  BY <1>1, <1>4, SelectSame
<1> QED BY <1>1, <1>2, <1>3, <1>5

-----------------------------------------------------------------------------
(* The same for any queues over a set.                                      *)

(* What is selected from a queue are elements of it. *)
LEMMA SelectElements ==
    ASSUME NEW A, NEW T
    PROVE  \A a \in Seq(A) : Select(a, T) \in Seq(A)
<1> SUFFICES ASSUME NEW a \in Seq(A) PROVE Select(a, T) \in Seq(A)
  OBVIOUS
<1>1. Select(a, T) \in Seq(A \cap T)
  BY SelectType
<1> QED BY <1>1

(* What is selected from two queues. *)
LEMMA SelectTwo ==
    ASSUME NEW A, NEW T
    PROVE  \A a, b \in Seq(A) : Select(a \o b, T) = Select(a, T) \o Select(b, T)
<1> SUFFICES ASSUME NEW a \in Seq(A), NEW b \in Seq(A)
             PROVE  Select(a \o b, T) = Select(a, T) \o Select(b, T)
  OBVIOUS
<1> QED BY SelectConcat

(* What is selected from three queues. *)
LEMMA SelectThree ==
    ASSUME NEW A, NEW T
    PROVE  \A a, b, c \in Seq(A) :
              Select(a \o b \o c, T) = (Select(a, T) \o Select(b, T)) \o Select(c, T)
<1> SUFFICES ASSUME NEW a \in Seq(A), NEW b \in Seq(A), NEW c \in Seq(A)
             PROVE  Select(a \o b \o c, T) = (Select(a, T) \o Select(b, T)) \o Select(c, T)
  OBVIOUS
<1>1. \A x, y \in Seq(A) : Select(x \o y, T) = Select(x, T) \o Select(y, T)
  BY SelectTwo
<1>2. a \o b \in Seq(A)
  OBVIOUS
<1> QED BY <1>1, <1>2

-----------------------------------------------------------------------------
(* Counting.                                                               *)

(* The places that are counted are finitely many.                          *)
LEMMA CountFinite ==
    ASSUME NEW A, NEW q \in Seq(A), NEW T
    PROVE  IsFiniteSet({i \in DOMAIN q : q[i] \in T}) /\ Count(q, T) \in Nat
<1>1. IsFiniteSet(1 .. Len(q)) /\ DOMAIN q = 1 .. Len(q)
  BY FS_Interval
<1>2. {i \in DOMAIN q : q[i] \in T} \in SUBSET (1 .. Len(q))
  BY <1>1
<1>3. IsFiniteSet({i \in DOMAIN q : q[i] \in T})
  BY <1>1, <1>2, FS_Subset
<1> QED BY <1>3, FS_CardinalityType DEF Count

(* None is counted exactly when none is there. *)
LEMMA CountZero ==
    ASSUME NEW A, NEW q \in Seq(A), NEW T
    PROVE  Count(q, T) = 0 <=> \A i \in DOMAIN q : q[i] \notin T
<1>1. IsFiniteSet({i \in DOMAIN q : q[i] \in T})
  BY CountFinite
<1>2. Count(q, T) = 0 <=> {i \in DOMAIN q : q[i] \in T} = {}
  BY <1>1, FS_EmptySet DEF Count
<1> QED BY <1>2

(* In the empty queue there is nothing to count. *)
LEMMA CountEmpty == ASSUME NEW T PROVE Count(<<>>, T) = 0
<1>1. {i \in DOMAIN <<>> : <<>>[i] \in T} = {}
  OBVIOUS
<1> QED BY <1>1, FS_EmptySet DEF Count

(* An element at the end counts, or does not. *)
LEMMA CountAppend ==
    ASSUME NEW A, NEW q \in Seq(A), NEW e \in A, NEW T
    PROVE  Count(Append(q, e), T) = Count(q, T) + (IF e \in T THEN 1 ELSE 0)
<1> DEFINE I == {i \in DOMAIN q : q[i] \in T}
           J == {i \in DOMAIN Append(q, e) : Append(q, e)[i] \in T}
<1>1. IsFiniteSet(I) /\ Count(q, T) = Cardinality(I) /\ Cardinality(I) \in Nat
  BY CountFinite DEF Count
<1>2. J = IF e \in T THEN I \cup {Len(q) + 1} ELSE I
  OBVIOUS
<1>3. Len(q) + 1 \notin I
  OBVIOUS
<1>4. Count(Append(q, e), T) = Cardinality(J)
  BY DEF Count
<1> HIDE DEF I, J
<1>5. Cardinality(I \cup {Len(q) + 1}) = Cardinality(I) + 1
  BY <1>1, <1>3, FS_AddElement
<1> QED BY <1>1, <1>2, <1>4, <1>5

(* What is counted in two queues. *)
LEMMA CountConcat ==
    ASSUME NEW A, NEW T
    PROVE  \A p, q \in Seq(A) : Count(p \o q, T) = Count(p, T) + Count(q, T)
<1> SUFFICES ASSUME NEW p \in Seq(A)
             PROVE  \A q \in Seq(A) : Count(p \o q, T) = Count(p, T) + Count(q, T)
  OBVIOUS
<1> DEFINE S == {r \in Seq(A) : Count(p \o r, T) = Count(p, T) + Count(r, T)}
<1>0. \A r \in Seq(A) : Count(r, T) \in Nat
  BY CountFinite
<1>1. <<>> \in S
  BY <1>0, CountEmpty
<1>2. ASSUME NEW r \in Seq(A), r \in S, NEW e \in A PROVE Append(r, e) \in S
  <2>1. PICK c \in Seq(A) : c = p \o r
    <3>1. p \o r \in Seq(A)
      OBVIOUS
    <3> QED BY <3>1
  <2>2. p \o Append(r, e) = Append(c, e)
    BY <2>1
  <2>3. Count(Append(c, e), T) = Count(c, T) + (IF e \in T THEN 1 ELSE 0)
    BY CountAppend
  <2>4. Count(Append(r, e), T) = Count(r, T) + (IF e \in T THEN 1 ELSE 0)
    BY CountAppend
  <2>5. Count(p, T) \in Nat /\ Count(r, T) \in Nat /\ Append(r, e) \in Seq(A)
    BY <1>0
  <2>6. Count(c, T) = Count(p, T) + Count(r, T)
    BY <1>2, <2>1
  <2>7. Count(p \o Append(r, e), T) = Count(p, T) + Count(Append(r, e), T)
    <3> HIDE DEF S
    <3> QED BY <2>2, <2>3, <2>4, <2>5, <2>6
  <2> QED BY <2>5, <2>7
<1> HIDE DEF S
<1>3. Seq(A) \subseteq S
  BY <1>1, <1>2, QueueInduction
<1> QED BY <1>3 DEF S

(* A queue of one. *)
LEMMA CountOne ==
    ASSUME NEW e, NEW T
    PROVE  Count(<<e>>, T) = IF e \in T THEN 1 ELSE 0
<1>1. <<>> \in Seq({e}) /\ e \in {e} /\ Append(<<>>, e) = <<e>>
  OBVIOUS
<1>2. Count(Append(<<>>, e), T) = Count(<<>>, T) + (IF e \in T THEN 1 ELSE 0)
  BY <1>1, CountAppend
<1> QED BY <1>1, <1>2, CountEmpty

(* The head counts, or does not. *)
LEMMA CountHead ==
    ASSUME NEW A, NEW q \in Seq(A), q # <<>>, NEW T
    PROVE  /\ Head(q) \in A /\ Tail(q) \in Seq(A)
           /\ Count(q, T) = Count(<<Head(q)>>, T) + Count(Tail(q), T)
<1>1. Head(q) \in A /\ Tail(q) \in Seq(A) /\ q = <<Head(q)>> \o Tail(q) /\ <<Head(q)>> \in Seq(A)
  OBVIOUS
<1>2. PICK a \in Seq(A) : a = <<Head(q)>>
  BY <1>1
<1>3. PICK b \in Seq(A) : b = Tail(q)
  BY <1>1
<1>4. Count(a \o b, T) = Count(a, T) + Count(b, T)
  BY CountConcat
<1> QED BY <1>1, <1>2, <1>3, <1>4

(* What is counted among the selected. *)
LEMMA CountSelect ==
    ASSUME NEW A, NEW q \in Seq(A), NEW T, NEW U
    PROVE  Count(Select(q, T), U) = Count(q, T \cap U)
<1> DEFINE S == {p \in Seq(A) : Count(Select(p, T), U) = Count(p, T \cap U)}
<1>1. <<>> \in S
  BY SelectEmpty, CountEmpty
<1>2. ASSUME NEW p \in Seq(A), p \in S, NEW e \in A PROVE Append(p, e) \in S
  <2>1. Select(Append(p, e), T) = Choose(Select(p, T), e, T)
    BY SelectAppend
  <2>2. PICK s \in Seq(A) : s = Select(p, T)
    BY SelectElements
  <2>3. Count(Append(s, e), U) = Count(s, U) + (IF e \in U THEN 1 ELSE 0)
    BY CountAppend
  <2>4. Count(Append(p, e), T \cap U) = Count(p, T \cap U) + (IF e \in T \cap U THEN 1 ELSE 0)
    BY CountAppend
  <2>5. Count(p, T \cap U) \in Nat
    BY CountFinite
  <2>6. CASE e \in T
    <3>1. Count(s, U) = Count(p, T \cap U)
      BY <1>2, <2>2
    <3>2. Count(Select(Append(p, e), T), U) = Count(Append(p, e), T \cap U)
      <4> HIDE DEF S
      <4>1. e \in U <=> e \in T \cap U
        BY <2>6
      <4> QED BY <2>1, <2>2, <2>3, <2>4, <2>6, <3>1, <4>1 DEF Choose
    <3> QED BY <3>2
  <2>7. CASE e \notin T
    BY <1>2, <2>1, <2>2, <2>4, <2>5, <2>7 DEF Choose
  <2> QED BY <2>6, <2>7
<1> HIDE DEF S
<1>3. Seq(A) \subseteq S
  BY <1>1, <1>2, QueueInduction
<1> QED BY <1>3 DEF S

(* More elements, more to count. *)
LEMMA CountMore ==
    ASSUME NEW A, NEW q \in Seq(A), NEW T, NEW U, T \subseteq U
    PROVE  Count(q, T) <= Count(q, U)
<1>1. IsFiniteSet({i \in DOMAIN q : q[i] \in U})
  BY CountFinite
<1>2. {i \in DOMAIN q : q[i] \in T} \in SUBSET {i \in DOMAIN q : q[i] \in U}
  OBVIOUS
<1> QED BY <1>1, <1>2, FS_Subset DEF Count

(* Only the elements the queue can have make a difference. *)
LEMMA CountSame ==
    ASSUME NEW A, NEW q \in Seq(A), NEW T, NEW U, A \cap T = A \cap U
    PROVE  Count(q, T) = Count(q, U)
<1>1. {i \in DOMAIN q : q[i] \in T} = {i \in DOMAIN q : q[i] \in U}
  OBVIOUS
<1> QED BY <1>1 DEF Count

(* What is left to count without some elements. *)
LEMMA CountWithout ==
    ASSUME NEW A, NEW q \in Seq(A), NEW T, NEW U
    PROVE  Without(q, T) \in Seq(A) /\ Count(Without(q, T), U) = Count(q, U \ T)
<1>1. q \in Seq(Range(q))
  BY RangeType
<1>2. Count(Select(q, Range(q) \ T), U) = Count(q, (Range(q) \ T) \cap U)
  BY CountSelect
<1>3. Range(q) \cap ((Range(q) \ T) \cap U) = Range(q) \cap (U \ T)
  OBVIOUS
<1>4. Count(q, (Range(q) \ T) \cap U) = Count(q, U \ T)
  BY <1>1, <1>3, CountSame
<1>5. Without(q, T) \in Seq(A)
  BY SelectWithout
<1> QED BY <1>2, <1>4, <1>5 DEF Without

(* To take one element out. *)
LEMMA CountRemoveAt ==
    ASSUME NEW A, NEW q \in Seq(A), NEW i \in DOMAIN q, NEW T
    PROVE  /\ RemoveAt(q, i) \in Seq(A)
           /\ Count(q, T) = Count(RemoveAt(q, i), T) + (IF q[i] \in T THEN 1 ELSE 0)
<1> DEFINE a == SubSeq(q, 1, i - 1)
           b == SubSeq(q, i + 1, Len(q))
<1>1. a \in Seq(A) /\ b \in Seq(A) /\ q[i] \in A /\ <<q[i]>> \in Seq(A)
  OBVIOUS
<1>2. q = (a \o <<q[i]>>) \o b
  <2>1. SubSeq(q, 1, i) = a \o <<q[i]>>
    <3>1. 1 \in 1 .. Len(q) /\ i \in 1 .. Len(q)
      OBVIOUS
    <3> QED BY <3>1, SubSeqRecursiveSecond
  <2>2. SubSeq(q, 1, i) \o b = SubSeq(q, 1, Len(q))
    <3>1. 1 \in 1 .. Len(q) + 1 /\ i \in 1 - 1 .. Len(q) /\ Len(q) \in i .. Len(q)
      OBVIOUS
    <3> QED BY <3>1, ConcatAdjacentSubSeq
  <2> QED BY <2>1, <2>2, SubSeqFull
<1> HIDE DEF a, b
<1>3. \A p, r \in Seq(A) : Count(p \o r, T) = Count(p, T) + Count(r, T)
  BY CountConcat
<1>4. PICK x \in Seq(A) : x = <<q[i]>>
  BY <1>1
<1>5. PICK y \in Seq(A) : y = a \o x
  <2>1. a \o x \in Seq(A)
    BY <1>1
  <2> QED BY <2>1
<1>6. Count(y, T) = Count(a, T) + Count(x, T) /\ Count(y \o b, T) = Count(y, T) + Count(b, T)
      /\ Count(a \o b, T) = Count(a, T) + Count(b, T)
  BY <1>1, <1>3, <1>5
<1>7. Count(x, T) = IF q[i] \in T THEN 1 ELSE 0
  BY <1>4, CountOne
<1>8. Count(a, T) \in Nat /\ Count(b, T) \in Nat
  BY <1>1, CountFinite
<1>9. RemoveAt(q, i) = a \o b /\ a \o b \in Seq(A)
  BY <1>1 DEF RemoveAt, a, b
<1>10. q = y \o b
  BY <1>2, <1>4, <1>5
<1>11. Count(q, T) = Count(a, T) + Count(x, T) + Count(b, T)
  BY <1>6, <1>10
<1> QED BY <1>6, <1>7, <1>8, <1>9, <1>11

-----------------------------------------------------------------------------
(* Queues without repetitions.                                             *)

Distinct(q) == \A i, j \in DOMAIN q : q[i] = q[j] => i = j

(* What is selected from a queue without repetitions has none, and is what *)
(* of it is in the set.                                                    *)
LEMMA SelectDistinct ==
    ASSUME NEW A, NEW q \in Seq(A), Distinct(q), NEW T
    PROVE  Distinct(Select(q, T)) /\ Range(Select(q, T)) = Range(q) \cap T
<1> DEFINE S == {p \in Seq(A) : /\ Range(Select(p, T)) = Range(p) \cap T
                                /\ Distinct(p) => Distinct(Select(p, T))}
<1>1. <<>> \in S
  BY SelectEmpty DEF Range, Distinct
<1>2. ASSUME NEW p \in Seq(A), p \in S, NEW e \in A PROVE Append(p, e) \in S
  <2>1. Select(Append(p, e), T) = Choose(Select(p, T), e, T)
    BY SelectAppend
  <2>2. PICK s \in Seq(A) : s = Select(p, T)
    BY SelectElements
  <2>3. ASSUME NEW r \in Seq(A) PROVE Range(Append(r, e)) = Range(r) \cup {e}
    <3>1. DOMAIN Append(r, e) = DOMAIN r \cup {Len(r) + 1}
      OBVIOUS
    <3>2. /\ \A i \in DOMAIN r : Append(r, e)[i] = r[i]
          /\ Append(r, e)[Len(r) + 1] = e
      OBVIOUS
    <3> QED BY <3>1, <3>2 DEF Range
  <2>4. Range(s) = Range(p) \cap T
    BY <1>2, <2>2
  <2>5. Range(Select(Append(p, e), T)) = Range(Append(p, e)) \cap T
    <3> HIDE DEF S
    <3>1. Range(Append(p, e)) = Range(p) \cup {e} /\ Range(Append(s, e)) = Range(s) \cup {e}
      BY <2>3
    <3> QED BY <2>1, <2>2, <2>4, <3>1 DEF Choose
  <2>6. ASSUME Distinct(Append(p, e)) PROVE Distinct(Select(Append(p, e), T))
    <3>1. Distinct(p)
      BY <2>6 DEF Distinct
    <3>2. Distinct(s)
      BY <1>2, <2>2, <3>1
    <3>3. e \notin Range(p)
      <4>1. \A i \in DOMAIN p : i \in DOMAIN Append(p, e) /\ i # Len(p) + 1 /\ Append(p, e)[i] = p[i]
        OBVIOUS
      <4>2. Len(p) + 1 \in DOMAIN Append(p, e) /\ Append(p, e)[Len(p) + 1] = e
        OBVIOUS
      <4> QED BY <2>6, <4>1, <4>2 DEF Distinct, Range
    <3>4. \A i \in DOMAIN s : s[i] # e
      BY <2>4, <3>3 DEF Range
    <3>5. Distinct(Append(s, e))
      <4>1. \A i \in DOMAIN Append(s, e) :
               \/ i \in DOMAIN s /\ Append(s, e)[i] = s[i]
               \/ i = Len(s) + 1 /\ Append(s, e)[i] = e
        OBVIOUS
      <4> QED BY <3>2, <3>4, <4>1 DEF Distinct
    <3> QED BY <2>1, <2>2, <3>2, <3>5 DEF Choose
  <2> QED BY <2>5, <2>6
<1> HIDE DEF S
<1>3. Seq(A) \subseteq S
  BY <1>1, <1>2, QueueInduction
<1> QED BY <1>3 DEF S

(* The numbers from a to b, of those that are in T.                        *)
LEMMA SelectNumbers ==
    ASSUME NEW n \in Nat, NEW d \in Int, NEW T
    PROVE  LET q == Select([i \in 1 .. n |-> i + d], T)
           IN  /\ q \in Seq(Int) /\ Distinct(q)
               /\ Range(q) = {x \in T : \E i \in 1 .. n : x = i + d}
<1> DEFINE p == [i \in 1 .. n |-> i + d]
<1>1. p \in Seq(Int) /\ Distinct(p) /\ Range(p) = {x \in Int : \E i \in 1 .. n : x = i + d}
  BY DEF Distinct, Range
<1> HIDE DEF p
<1>2. Distinct(Select(p, T)) /\ Range(Select(p, T)) = Range(p) \cap T /\ Select(p, T) \in Seq(Int)
  BY <1>1, SelectDistinct, SelectElements
<1>3. \A i \in 1 .. n : i + d \in Int
  OBVIOUS
<1> QED BY <1>1, <1>2, <1>3 DEF p

(* What a mapped queue without repetitions counts, its elements tell.      *)
LEMMA CountMapped ==
    ASSUME NEW A, NEW q \in Seq(A), Distinct(q), NEW f, NEW T
    PROVE  Count([i \in DOMAIN q |-> f[q[i]]], T) = Cardinality({a \in Range(q) : f[a] \in T})
<1> DEFINE I == {i \in DOMAIN q : f[q[i]] \in T}
           J == {a \in Range(q) : f[a] \in T}
           g == [i \in I |-> q[i]]
<1>1. I = {i \in DOMAIN [j \in DOMAIN q |-> f[q[j]]] : [j \in DOMAIN q |-> f[q[j]]][i] \in T}
  OBVIOUS
<1>2. IsFiniteSet(I)
  <2>1. IsFiniteSet(1 .. Len(q)) /\ DOMAIN q = 1 .. Len(q)
    BY FS_Interval
  <2> QED BY <2>1, FS_Subset
<1>3. g \in Bijection(I, J)
  <2>1. g \in Injection(I, J)
    BY DEF Injection, IsInjective, Distinct, Range
  <2>2. g \in Surjection(I, J)
    BY DEF Surjection, Range
  <2> QED BY <2>1, <2>2 DEF Bijection
<1>4. Cardinality(J) = Cardinality(I)
  <2> HIDE DEF I, J, g
  <2> QED BY <1>2, <1>3, FS_Bijection DEF ExistsBijection
<1> QED BY <1>1, <1>4 DEF Count
=============================================================================
