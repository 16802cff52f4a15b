------------------------ MODULE RecurrentMemoryProofs ------------------------
(***************************************************************************)
(* The memory of recurrent models keeps its cells, tails and counter in    *)
(* agreement, find_slot always succeeds, and every sequence continues from *)
(* the state of its own tokens: for every number of sequences, every order *)
(* of calls and every setting of the client, the last of the three but     *)
(* where a draft may lie in several micro batches.                         *)
(***************************************************************************)
EXTENDS RecurrentMemory, QueueOpsProofs

-----------------------------------------------------------------------------
(* Numbers and finite sets.                                                 *)

(* There are as many cells as sequences. *)
LEMMA CellsAndSequences ==
    /\ NSeq \in Nat /\ NSeq > 0
    /\ SeqId = Cell /\ Cell \subseteq Nat /\ 0 \in Cell /\ -1 \notin Cell
    /\ IsFiniteSet(Cell) /\ IsFiniteSet(SeqId)
    /\ Cardinality(Cell) = NSeq /\ Cardinality(SeqId) = Cardinality(Cell)
<1>1. NSeq \in Nat /\ NSeq > 0
  BY MemoryAssumption
<1>2. IsFiniteSet(0 .. NSeq - 1) /\ Cardinality(0 .. NSeq - 1) = NSeq
  BY <1>1, FS_Interval
<1> QED BY <1>1, <1>2 DEF Cell, SeqId

(* Min and Max of a set of numbers. *)
LEMMA MinIs ==
    ASSUME NEW S, S \subseteq Nat, S # {}
    PROVE  Min(S) \in S /\ \A x \in S : Min(S) <= x
BY LeastNatural DEF Min

(* The largest of a bounded set of numbers.                                 *)
LEMMA MaxIs ==
    ASSUME NEW n \in Nat, NEW S, S \subseteq 0 .. n, S # {}
    PROVE  Max(S) \in S /\ \A x \in S : Max(S) >= x
<1> DEFINE T == {n - x : x \in S}
<1>1. T \subseteq Nat /\ T # {}
  OBVIOUS
<1>2. PICK t \in T : \A u \in T : t <= u
  BY <1>1, LeastNatural
<1>3. PICK y \in S : t = n - y
  BY <1>2
<1>4. ASSUME NEW x \in S PROVE y >= x
  <2>1. n - x \in T
    OBVIOUS
  <2>2. n - y <= n - x /\ x \in Int /\ y \in Int
    BY <1>2, <1>3, <2>1
  <2> QED BY <2>2
<1>5. \E z \in S : \A x \in S : z >= x
  BY <1>4
<1> QED BY <1>5 DEF Max

(* Counting on past the end meets every cell once. *)
LEMMA WrapType ==
    ASSUME NEW i \in Cell, NEW k \in 0 .. NSeq
    PROVE  Wrap(i + k) \in Cell
BY CellsAndSequences DEF Wrap, Cell

(* No cell is met twice.                                                    *)
LEMMA WrapOnce ==
    ASSUME NEW h \in Cell, NEW j \in 0 .. NSeq - 1, NEW k \in 0 .. NSeq - 1,
           Wrap(h + j) = Wrap(h + k)
    PROVE  j = k
BY CellsAndSequences DEF Wrap, Cell

(* No cell is left out.                                                     *)
LEMMA WrapAll ==
    ASSUME NEW h \in Cell, NEW i \in Cell
    PROVE  \E k \in 0 .. NSeq - 1 : Wrap(h + k) = i
<1>1. CASE i >= h
  <2>1. i - h \in 0 .. NSeq - 1 /\ Wrap(h + (i - h)) = i
    BY <1>1, CellsAndSequences DEF Wrap, Cell
  <2> QED BY <2>1
<1>2. CASE i < h
  <2>1. i + NSeq - h \in 0 .. NSeq - 1 /\ Wrap(h + (i + NSeq - h)) = i
    BY <1>2, CellsAndSequences DEF Wrap, Cell
  <2> QED BY <2>1
<1> QED BY <1>1, <1>2, CellsAndSequences

(* Counting goes on from where it stopped.                                  *)
LEMMA WrapOn ==
    ASSUME NEW h \in Cell, NEW k \in 0 .. NSeq - 1, NEW j \in 0 .. NSeq - 1,
           NEW x \in 0 .. NSeq - 1, x = k + 1 + j
    PROVE  Wrap(Wrap(Wrap(h + k) + 1) + j) = Wrap(h + x)
BY CellsAndSequences DEF Wrap, Cell

-----------------------------------------------------------------------------
(* Cells and tails.                                                         *)

(* The sequences whose tail is the cell i. *)
Held(tail, i) == {s \in SeqId : tail[s] = i}

CellRec == [pos : Int, src : Cell \cup {-1}, src0 : Cell \cup {-1}, seqs : SUBSET SeqId]

Tails == [SeqId -> Cell \cup {-1}]

Memory == [cells : [Cell -> CellRec], tail : Tails, head : Cell, used : Int, n : Int,
           rs_z : Int, rs_idx : [SeqId -> Nat]]

(* A sequence that does not have its cell for itself alone leaves a cell    *)
(* that is nobody's tail: there are as many cells as sequences.             *)
LEMMA RoomLeft ==
    ASSUME NEW tail \in Tails, NEW s \in SeqId,
           ~ (tail[s] \in Cell /\ Held(tail, tail[s]) = {s})
    PROVE  \E e \in Cell : Held(tail, e) = {}
<1> SUFFICES ASSUME \A e \in Cell : Held(tail, e) # {} PROVE FALSE
  OBVIOUS
<1> DEFINE f == [x \in SeqId |-> IF tail[x] \in Cell THEN tail[x] ELSE 0]
<1>1. f \in [SeqId -> Cell]
  BY CellsAndSequences
<1>2. \A e \in Cell : \E x \in SeqId : tail[x] = e
  BY DEF Held
<1>3. \A e \in Cell : \E x \in SeqId : f[x] = e
  BY <1>2
<1>4. f \in Surjection(SeqId, Cell)
  BY <1>1, <1>3 DEF Surjection
<1>5. f \in Injection(SeqId, Cell)
  BY <1>4, CellsAndSequences, FS_SurjSameCardinalityImpliesInj
<1>6. \A x, y \in SeqId : f[x] = f[y] => x = y
  BY <1>5 DEF Injection, IsInjective
<1>7. CASE tail[s] \in Cell
  <2>1. ASSUME NEW x \in SeqId, tail[x] = tail[s] PROVE x = s
    BY <1>6, <1>7, <2>1
  <2>2. Held(tail, tail[s]) = {s}
    BY <2>1 DEF Held
  <2> QED BY <1>7, <2>2
<1>8. CASE tail[s] \notin Cell
  <2>1. PICK x \in SeqId : tail[x] = 0
    BY <1>2, CellsAndSequences
  <2>2. f[x] = 0 /\ f[s] = 0
    BY <1>8, <2>1
  <2>3. x = s
    BY <1>6, <2>2
  <2> QED BY <1>8, <2>1, <2>3, CellsAndSequences
<1> QED BY <1>7, <1>8

(* Of a range of cells that draw on cells, one of them on none, one cell is *)
(* drawn on by no cell of the range.                                        *)
LEMMA SourceLeft ==
    ASSUME NEW R \in SUBSET Cell, NEW src \in [R -> Cell \cup {-1}],
           NEW z \in R, src[z] = -1
    PROVE  \E e \in R : \A i \in R : src[i] # e
<1> SUFFICES ASSUME \A e \in R : \E i \in R : src[i] = e PROVE FALSE
  OBVIOUS
<1> DEFINE f == [x \in R |-> IF src[x] \in R THEN src[x] ELSE z]
<1>1. f \in [R -> R]
  OBVIOUS
<1>2. f \in Surjection(R, R)
  <2>1. \A e \in R : \E i \in R : f[i] = e
    OBVIOUS
  <2> QED BY <1>1, <2>1 DEF Surjection
<1>3. IsFiniteSet(R)
  BY CellsAndSequences, FS_Subset
<1>4. f \in Injection(R, R)
  BY <1>2, <1>3, FS_SurjSameCardinalityImpliesInj
<1>5. \A x, y \in R : f[x] = f[y] => x = y
  BY <1>4 DEF Injection, IsInjective
<1>6. PICK x \in R : src[x] = z
  OBVIOUS
<1>7. f[x] = z /\ f[z] = z /\ x # z
  BY <1>6, CellsAndSequences
<1> QED BY <1>5, <1>7

(* What the cells say of the sequences is what the tails say.  While slots  *)
(* are being found, the cell given to a new sequence, one of D, is still    *)
(* empty.                                                                   *)
Agree(cells, tail, D) == \A i \in Cell :
    \/ cells[i].seqs = Held(tail, i)
    \/ cells[i].seqs = {} /\ \E d \in D : Held(tail, i) = {d}

(* A cell has a position when it is in use. *)
Dated(cells) == \A i \in Cell : cells[i].seqs = {} <=> cells[i].pos < 0

(* A cell continues from its own state or starts anew. *)
OwnSources(cells) == \A i \in Cell : cells[i].src \in {-1, i}

(* The memory between two calls. *)
Sane(m) ==
    /\ m \in Memory
    /\ Agree(m.cells, m.tail, {})
    /\ Dated(m.cells)
    /\ OwnSources(m.cells)
    /\ m.used = InUse(m.cells)

(* Between two calls a cell holds the sequences whose tail it is.           *)
LEMMA SaneAgree ==
    ASSUME NEW m, Sane(m)
    PROVE  \A i \in Cell : m.cells[i].seqs = Held(m.tail, i)
BY DEF Sane, Agree

(* The fields of a cell. *)
LEMMA CellFields ==
    ASSUME NEW m \in Memory, NEW i \in Cell
    PROVE  /\ m.cells[i] \in CellRec
           /\ m.cells[i].pos \in Int
           /\ m.cells[i].src \in Cell \cup {-1}
           /\ m.cells[i].src0 \in Cell \cup {-1}
           /\ m.cells[i].seqs \subseteq SeqId
BY DEF Memory, CellRec

-----------------------------------------------------------------------------
(* Taking sequences out of their cells.                                     *)

Gone(m, S) == {i \in Cell : ~IsEmpty(m.cells[i]) /\ m.cells[i].seqs \subseteq S}

(* What sequences leaving their cells changes.                              *)
LEMMA LeaveIs ==
    ASSUME NEW m \in Memory, NEW S \in SUBSET SeqId
    PROVE  /\ Leave(m, S) \in Memory
           /\ \A i \in Cell :
                /\ Leave(m, S).cells[i].seqs = m.cells[i].seqs \ S
                /\ Leave(m, S).cells[i].pos = IF i \in Gone(m, S) THEN -1 ELSE m.cells[i].pos
                /\ Leave(m, S).cells[i].src = IF i \in Gone(m, S) THEN -1 ELSE m.cells[i].src
           /\ Leave(m, S).tail = [s \in SeqId |-> IF s \in S THEN -1 ELSE m.tail[s]]
           /\ Leave(m, S).used = m.used - Cardinality(Gone(m, S))
           /\ Leave(m, S).head = m.head
           /\ Leave(m, S).rs_idx = m.rs_idx
<1> DEFINE gone == Gone(m, S)
           cs == [i \in Cell |-> IF i \in gone THEN [m.cells[i] EXCEPT !.pos = -1, !.src = -1, !.seqs = {}]
                                 ELSE [m.cells[i] EXCEPT !.seqs = m.cells[i].seqs \ S]]
           ts == [s \in SeqId |-> IF s \in S THEN -1 ELSE m.tail[s]]
           us == m.used - Cardinality(gone)
<1>1. Leave(m, S) = [m EXCEPT !.cells = cs, !.tail = ts, !.used = us]
  BY DEF Leave, Gone
<1>2. \A i \in Cell :
        /\ cs[i] \in CellRec
        /\ cs[i].seqs = m.cells[i].seqs \ S
        /\ cs[i].pos = IF i \in gone THEN -1 ELSE m.cells[i].pos
        /\ cs[i].src = IF i \in gone THEN -1 ELSE m.cells[i].src
  <2> SUFFICES ASSUME NEW i \in Cell
               PROVE  /\ cs[i] \in CellRec
                      /\ cs[i].seqs = m.cells[i].seqs \ S
                      /\ cs[i].pos = IF i \in gone THEN -1 ELSE m.cells[i].pos
                      /\ cs[i].src = IF i \in gone THEN -1 ELSE m.cells[i].src
    OBVIOUS
  <2>1. m.cells[i] \in CellRec
    BY CellFields
  <2>2. CASE i \in gone
    <3>1. cs[i] = [m.cells[i] EXCEPT !.pos = -1, !.src = -1, !.seqs = {}]
      BY <2>2
    <3>2. m.cells[i].seqs \ S = {}
      BY <2>2 DEF Gone
    <3> HIDE DEF cs, gone
    <3>3. cs[i] \in CellRec /\ cs[i].pos = -1 /\ cs[i].src = -1 /\ cs[i].seqs = {}
      <4>1. PICK x \in Int, N \in SUBSET SeqId : x = -1 /\ N = {}
        <5>1. -1 \in Int /\ {} \in SUBSET SeqId
          OBVIOUS
        <5> QED BY <5>1
      <4>2. cs[i] = [m.cells[i] EXCEPT !.pos = x, !.src = x, !.seqs = N] /\ x \in Cell \cup {-1}
        BY <3>1, <4>1
      <4>3. cs[i] \in CellRec /\ cs[i].pos = x /\ cs[i].src = x /\ cs[i].seqs = N
        BY <2>1, <4>2 DEF CellRec
      <4> QED BY <4>1, <4>3
    <3> QED BY <2>2, <3>2, <3>3
  <2>3. CASE i \notin gone
    <3>1. cs[i] = [m.cells[i] EXCEPT !.seqs = m.cells[i].seqs \ S]
      BY <2>3
    <3> HIDE DEF cs, gone
    <3> QED BY <2>1, <2>3, <3>1 DEF CellRec
  <2> QED BY <2>2, <2>3
<1>3. IsFiniteSet(gone) /\ Cardinality(gone) \in Int
  <2>1. gone \in SUBSET Cell
    BY DEF Gone
  <2> QED BY <2>1, CellsAndSequences, FS_Subset, FS_CardinalityType
<1>4. us \in Int /\ ts \in Tails /\ m.used \in Int
  BY <1>3 DEF Memory, Tails
<1>5. cs \in [Cell -> CellRec]
  <2>1. cs = [i \in Cell |-> cs[i]]
    OBVIOUS
  <2> HIDE DEF cs
  <2> QED BY <1>2, <2>1
<1> HIDE DEF cs, ts, us, gone
<1>6. /\ Leave(m, S) \in Memory
      /\ Leave(m, S).cells = cs /\ Leave(m, S).tail = ts /\ Leave(m, S).used = us
      /\ Leave(m, S).head = m.head /\ Leave(m, S).rs_idx = m.rs_idx
  BY <1>1, <1>4, <1>5 DEF Memory
<1> QED BY <1>2, <1>6 DEF ts, us, gone

(* Sequences leave their cells, and cells, tails and counter still agree.   *)
LEMMA LeaveSane ==
    ASSUME NEW m, Sane(m), NEW S \in SUBSET SeqId
    PROVE  Sane(Leave(m, S))
<1> DEFINE l == Leave(m, S)
<1>1. m \in Memory
  BY DEF Sane
<1>2. /\ l \in Memory
      /\ \A i \in Cell :
           /\ l.cells[i].seqs = m.cells[i].seqs \ S
           /\ l.cells[i].pos = IF i \in Gone(m, S) THEN -1 ELSE m.cells[i].pos
           /\ l.cells[i].src = IF i \in Gone(m, S) THEN -1 ELSE m.cells[i].src
      /\ l.tail = [s \in SeqId |-> IF s \in S THEN -1 ELSE m.tail[s]]
      /\ l.used = m.used - Cardinality(Gone(m, S))
  BY <1>1, LeaveIs
<1> HIDE DEF l
<1>3. \A i \in Cell : m.cells[i].seqs = Held(m.tail, i)
  BY SaneAgree
<1>4. Agree(l.cells, l.tail, {})
  <2>1. ASSUME NEW i \in Cell PROVE l.cells[i].seqs = Held(l.tail, i)
    <3>1. Held(l.tail, i) = Held(m.tail, i) \ S
      BY <1>2, CellsAndSequences DEF Held
    <3> QED BY <1>2, <1>3, <3>1
  <2> QED BY <2>1 DEF Agree
<1>5. Dated(l.cells)
  <2>1. ASSUME NEW i \in Cell PROVE l.cells[i].seqs = {} <=> l.cells[i].pos < 0
    <3>1. m.cells[i].seqs = {} <=> m.cells[i].pos < 0
      BY DEF Sane, Dated
    <3>2. CASE i \in Gone(m, S)
      <4>1. m.cells[i].seqs \ S = {}
        BY <3>2 DEF Gone
      <4> QED BY <1>2, <3>2, <4>1
    <3>3. CASE i \notin Gone(m, S)
      <4>1. m.cells[i].seqs = {} \/ m.cells[i].seqs \ S # {}
        BY <3>3 DEF Gone, IsEmpty
      <4> QED BY <1>2, <3>1, <3>3, <4>1
    <3> QED BY <3>2, <3>3
  <2> QED BY <2>1 DEF Dated
<1>6. OwnSources(l.cells)
  BY <1>2 DEF Sane, OwnSources
<1>7. l.used = InUse(l.cells)
  <2> DEFINE A == {i \in Cell : ~IsEmpty(m.cells[i])}
             B == {i \in Cell : ~IsEmpty(l.cells[i])}
  <2>1. B = A \ Gone(m, S) /\ A \cap Gone(m, S) = Gone(m, S)
    BY <1>2 DEF Gone, IsEmpty
  <2>2. IsFiniteSet(A)
    BY CellsAndSequences, FS_Subset
  <2>3. Cardinality(B) = Cardinality(A) - Cardinality(Gone(m, S))
    BY <2>1, <2>2, FS_Difference
  <2>4. m.used = Cardinality(A)
    BY DEF Sane, InUse
  <2> QED BY <1>2, <2>3, <2>4 DEF InUse
<1> QED BY <1>2, <1>4, <1>5, <1>6, <1>7 DEF Sane, l

(* Where the search begins is nobody's concern.                             *)
LEMMA MoveHeadSane ==
    ASSUME NEW m, Sane(m), NEW freed \in SUBSET Cell
    PROVE  /\ Sane(MoveHead(m, freed)) /\ MoveHead(m, freed).rs_idx = m.rs_idx
           /\ MoveHead(m, freed).cells = m.cells /\ MoveHead(m, freed).tail = m.tail
<1>1. CASE freed = {}
  BY <1>1 DEF MoveHead
<1>2. CASE freed # {}
  <2> DEFINE h == Min({m.head, Min(freed)})
  <2>1. Min(freed) \in Cell
    BY <1>2, MinIs, CellsAndSequences
  <2>2. m.head \in Cell
    BY DEF Sane, Memory
  <2>3. h \in Cell
    <3>1. {m.head, Min(freed)} \subseteq Nat
      BY <2>1, <2>2, CellsAndSequences
    <3>2. h \in {m.head, Min(freed)}
      BY <3>1, MinIs
    <3> QED BY <2>1, <2>2, <3>2
  <2>4. MoveHead(m, freed) = [m EXCEPT !.head = h]
    BY <1>2 DEF MoveHead
  <2> HIDE DEF h
  <2>5. /\ MoveHead(m, freed) \in Memory
        /\ MoveHead(m, freed).cells = m.cells /\ MoveHead(m, freed).tail = m.tail
        /\ MoveHead(m, freed).used = m.used /\ MoveHead(m, freed).rs_idx = m.rs_idx
    BY <2>3, <2>4 DEF Sane, Memory
  <2> QED BY <2>5 DEF Sane
<1> QED BY <1>1, <1>2

-----------------------------------------------------------------------------
(* A cell for each sequence set.                                            *)

LEMMA MainIs ==
    ASSUME NEW ids \in SUBSET SeqId, ids # {}
    PROVE  Main(ids) \in ids /\ Main(ids) \in SeqId
<1>1. ids \subseteq Nat
  BY CellsAndSequences
<1>2. Min(ids) \in ids
  BY <1>1, MinIs
<1> QED BY <1>2 DEF Main

(* The next empty cell is the nearest one, when there is one.               *)
LEMMA NextEmptyIs ==
    ASSUME NEW cells, NEW h \in Cell
    PROVE  /\ NextEmpty(cells, h) \in Cell
           /\ (\E i \in Cell : IsEmpty(cells[i])) =>
                \E k \in 0 .. NSeq - 1 :
                  /\ NextEmpty(cells, h) = Wrap(h + k)
                  /\ IsEmpty(cells[Wrap(h + k)])
                  /\ \A j \in 0 .. NSeq - 1 : IsEmpty(cells[Wrap(h + j)]) => k <= j
<1> DEFINE ks == {k \in 0 .. NSeq - 1 : IsEmpty(cells[Wrap(h + k)])}
<1>1. CASE ks = {}
  <2>1. ~ \E i \in Cell : IsEmpty(cells[i])
    BY <1>1, WrapAll
  <2>2. NextEmpty(cells, h) = h
    BY <1>1 DEF NextEmpty
  <2> QED BY <2>1, <2>2
<1>2. CASE ks # {}
  <2>1. ks \subseteq Nat
    BY CellsAndSequences
  <2>2. Min(ks) \in ks /\ \A j \in ks : Min(ks) <= j
    BY <1>2, <2>1, MinIs
  <2>3. NextEmpty(cells, h) = Wrap(h + Min(ks))
    BY <1>2 DEF NextEmpty
  <2>4. PICK k \in 0 .. NSeq - 1 : k = Min(ks)
    BY <2>2
  <2>5. /\ NextEmpty(cells, h) = Wrap(h + k)
        /\ IsEmpty(cells[Wrap(h + k)])
        /\ \A j \in 0 .. NSeq - 1 : IsEmpty(cells[Wrap(h + j)]) => k <= j
    BY <2>2, <2>3, <2>4
  <2>6. NextEmpty(cells, h) \in Cell
    BY <2>5, WrapType, CellsAndSequences
  <2> QED BY <2>5, <2>6
<1> QED BY <1>1, <1>2

Owns(m, s) == m.tail[s] >= 0 /\ m.cells[m.tail[s]].seqs = {s}

(* What giving the cell e to the sequence s does. *)
Given(p, q, s, e) ==
    /\ q.m \in Memory
    /\ q.m.tail = [p.m.tail EXCEPT ![s] = e]
    /\ q.m.rs_idx = p.m.rs_idx
    /\ \A i \in Cell \ {e, p.m.tail[s]} : q.m.cells[i] = p.m.cells[i]
    /\ p.m.tail[s] \notin Cell => q.m.cells = p.m.cells
    /\ p.m.tail[s] \in Cell =>
         /\ q.m.cells[e].seqs = {s}
         /\ q.m.cells[e].pos = p.m.cells[p.m.tail[s]].pos
         /\ q.m.cells[e].src = p.m.cells[p.m.tail[s]].src
         /\ q.m.cells[p.m.tail[s]].seqs = p.m.cells[p.m.tail[s]].seqs \ {s}
         /\ q.m.cells[p.m.tail[s]].pos = p.m.cells[p.m.tail[s]].pos
         /\ q.m.cells[p.m.tail[s]].src = p.m.cells[p.m.tail[s]].src
    /\ q.next = NextEmpty(q.m.cells, Wrap(e + 1))

(* A sequence that has its cell alone keeps it.                             *)
LEMMA PlaceOwned ==
    ASSUME NEW p, NEW ids, Owns(p.m, Main(ids))
    PROVE  Place(p, ids) = p
BY DEF Place, Owns

(* Another is given the cell found for it.                                  *)
LEMMA PlaceGives ==
    ASSUME NEW p, p.m \in Memory, NEW e \in Cell, p.next = e,
           NEW ids, Main(ids) \in SeqId, ~Owns(p.m, Main(ids)), p.m.tail[Main(ids)] # e
    PROVE  /\ Given(p, Place(p, ids), Main(ids), e)
           /\ Place(p, ids).ok <=>
                /\ p.ok
                /\ IsEmpty(p.m.cells[e])
                /\ p.m.tail[Main(ids)] \in Cell =>
                     /\ Main(ids) \in p.m.cells[p.m.tail[Main(ids)]].seqs
                     /\ Place(p, ids).m.cells[p.m.tail[Main(ids)]].seqs # {}
<1> DEFINE s == Main(ids)
           q == Place(p, ids)
<1>1. PICK t \in Cell \cup {-1} : t = p.m.tail[s]
  BY DEF Memory, Tails
<1>2. t \in Cell <=> t >= 0
  BY CellsAndSequences
<1> DEFINE old == p.m.cells
           split == [old EXCEPT ![e].pos = old[t].pos, ![e].src = old[t].src,
                                ![e].seqs = {s}, ![t].seqs = @ \ {s}]
           cs == IF t >= 0 THEN split ELSE old
<1>3. q = [m |-> [p.m EXCEPT !.cells = cs, !.tail[s] = e],
           next |-> NextEmpty(cs, Wrap(e + 1)),
           ok |-> /\ p.ok /\ IsEmpty(p.m.cells[e])
                  /\ t >= 0 => s \in p.m.cells[t].seqs /\ ~IsEmpty(cs[t])]
  BY <1>1 DEF Place, Owns
<1>4. old \in [Cell -> CellRec] /\ s \in SeqId /\ p.m.tail \in Tails
  BY DEF Memory
<1>5. t \in Cell =>
        /\ split \in [Cell -> CellRec]
        /\ \A i \in Cell \ {e, t} : split[i] = old[i]
        /\ split[e].seqs = {s} /\ split[e].pos = old[t].pos /\ split[e].src = old[t].src
        /\ split[t].seqs = old[t].seqs \ {s} /\ split[t].pos = old[t].pos
        /\ split[t].src = old[t].src
  <2> SUFFICES ASSUME t \in Cell
               PROVE  /\ split \in [Cell -> CellRec]
                      /\ \A i \in Cell \ {e, t} : split[i] = old[i]
                      /\ split[e].seqs = {s} /\ split[e].pos = old[t].pos /\ split[e].src = old[t].src
                      /\ split[t].seqs = old[t].seqs \ {s} /\ split[t].pos = old[t].pos
                      /\ split[t].src = old[t].src
    OBVIOUS
  <2>1. PICK cells \in [Cell -> CellRec] : cells = old
    BY <1>4
  <2>2. t # e
    BY <1>1
  <2>3. PICK a \in CellRec, b \in CellRec : a = cells[e] /\ b = cells[t]
    OBVIOUS
  <2> DEFINE a1 == [[[a EXCEPT !.pos = b.pos] EXCEPT !.src = b.src] EXCEPT !.seqs = {s}]
             b1 == [b EXCEPT !.seqs = b.seqs \ {s}]
  <2>4. /\ a1 \in CellRec /\ a1.seqs = {s} /\ a1.pos = b.pos /\ a1.src = b.src
        /\ b1 \in CellRec /\ b1.seqs = b.seqs \ {s} /\ b1.pos = b.pos /\ b1.src = b.src
    BY <1>4 DEF CellRec
  <2>5. split = [[cells EXCEPT ![e] = a1] EXCEPT ![t] = b1]
    BY <2>1, <2>2, <2>3
  <2> HIDE DEF a1, b1, split
  <2>6. split \in [Cell -> CellRec] /\ split[e] = a1 /\ split[t] = b1
        /\ \A i \in Cell \ {e, t} : split[i] = old[i]
    BY <2>1, <2>2, <2>4, <2>5
  <2> QED BY <2>1, <2>3, <2>4, <2>6
<1>6. cs \in [Cell -> CellRec] /\ (t \in Cell => cs = split) /\ (t \notin Cell => cs = old)
  BY <1>2, <1>4, <1>5
<1> HIDE DEF cs, split
<1>7. q.m = [p.m EXCEPT !.cells = cs, !.tail[s] = e] /\ q.next = NextEmpty(cs, Wrap(e + 1))
  BY <1>3
<1>8. q.m \in Memory /\ q.m.cells = cs /\ q.m.tail = [p.m.tail EXCEPT ![s] = e]
      /\ q.m.rs_idx = p.m.rs_idx
  <2>1. PICK m \in Memory : m = p.m
    OBVIOUS
  <2> DEFINE ts == [m.tail EXCEPT ![s] = e]
  <2>2. ts \in Tails
    BY <1>4, <2>1 DEF Tails
  <2>3. [m EXCEPT !.cells = cs].tail = m.tail
    BY <1>6 DEF Memory
  <2>4. q.m = [[m EXCEPT !.cells = cs] EXCEPT !.tail = ts]
    BY <1>7, <2>1, <2>3
  <2>5. ts = [p.m.tail EXCEPT ![s] = e]
    BY <2>1
  <2> HIDE DEF ts, q
  <2>6. q.m \in Memory /\ q.m.cells = cs /\ q.m.tail = ts /\ q.m.rs_idx = m.rs_idx
    BY <1>6, <2>2, <2>4 DEF Memory
  <2> QED BY <2>1, <2>5, <2>6
<1>9. Given(p, q, s, e)
  <2> HIDE DEF q, s
  <2>1. \A i \in Cell \ {e, t} : q.m.cells[i] = old[i]
    BY <1>5, <1>6, <1>8
  <2> QED BY <1>1, <1>5, <1>6, <1>7, <1>8, <2>1 DEF Given
<1>10. q.ok <=> (/\ p.ok /\ IsEmpty(p.m.cells[e])
                 /\ t >= 0 => s \in p.m.cells[t].seqs /\ ~IsEmpty(cs[t]))
  BY <1>3
<1> QED BY <1>1, <1>2, <1>8, <1>9, <1>10 DEF IsEmpty

(* While cells are given out: h is the cell the search began at, D has the  *)
(* sequences that have their cell, J those that have joined another.  Where *)
(* next looks, no cell has been promised yet.                               *)
NextFree(m, next, h) == (\E i \in Cell : Held(m.tail, i) = {}) =>
    \E k \in 0 .. NSeq - 1 :
      /\ next = Wrap(h + k)
      /\ Held(m.tail, next) = {}
      /\ \A j \in 0 .. NSeq - 1 : Held(m.tail, Wrap(h + j)) = {} => k <= j
      /\ \A j \in 0 .. NSeq - 1 : k <= j => m.cells[Wrap(h + j)].seqs = Held(m.tail, Wrap(h + j))

Owned(tail, D) == \A d \in D : tail[d] \in Cell /\ Held(tail, tail[d]) = {d}

Shared(m, D, J) ==
    /\ m \in Memory
    /\ Agree(m.cells, m.tail, D)
    /\ Dated(m.cells)
    /\ Owned(m.tail, D)
    /\ \A s \in J : m.tail[s] = -1
    /\ \A i \in Cell : m.cells[i].src \in {-1, i} \/ \E d \in D : m.tail[d] = i

Placing(p, h, D, J) ==
    /\ Shared(p.m, D, J)
    /\ p.next \in Cell /\ p.ok
    /\ NextFree(p.m, p.next, h)

(* The row x holds the state of no sequence: its cell is empty, but not     *)
(* without a source, or there is no such row.                               *)
Blank(m, x) == x = -1 \/ (x \in Cell /\ m.cells[x].seqs = {} /\ m.cells[x].src = x)

(* The cell has taken over what the memory m had for the sequence s.        *)
TakenOver(m, cell, s) ==
    IF m.tail[s] \in Cell THEN /\ cell.src = m.cells[m.tail[s]].src
                              /\ cell.pos = m.cells[m.tail[s]].pos
    ELSE Blank(m, cell.src)

(* While cells are given out and swapped, each takes along what the memory  *)
(* m had for its sequences; those of D are the ones that may be new.        *)
Continued(m, q, D) ==
    /\ \A s \in SeqId : q.tail[s] \in Cell => TakenOver(m, q.cells[q.tail[s]], s)
    /\ \A i \in Cell : Held(q.tail, i) = {} => Blank(m, q.cells[i].src)
    /\ \A s \in SeqId \ D : q.tail[s] \in Cell <=> m.tail[s] \in Cell

(* A sequence that keeps its cell leaves the placing as it was.             *)
LEMMA PlaceWhenOwned ==
    ASSUME NEW p, NEW h, NEW D \in SUBSET SeqId, NEW J, Placing(p, h, D, J),
           NEW ids, Main(ids) \in SeqId, Owns(p.m, Main(ids))
    PROVE  Placing(Place(p, ids), h, D \cup {Main(ids)}, J) /\ Place(p, ids).m = p.m
<1> DEFINE s == Main(ids)
           E == D \cup {s}
<1>1. Place(p, ids) = p
  BY PlaceOwned
<1>2. p.m.tail[s] \in Cell
  <2>1. p.m.tail \in Tails
    BY DEF Placing, Shared, Memory
  <2>2. p.m.tail[s] \in Cell \cup {-1} /\ p.m.tail[s] >= 0
    BY <2>1 DEF Tails, Owns
  <2> QED BY <2>2
<1>3. Held(p.m.tail, p.m.tail[s]) = {s}
  BY <1>2 DEF Placing, Shared, Agree, Owns
<1>4. Owned(p.m.tail, E)
  BY <1>2, <1>3 DEF Placing, Shared, Owned
<1>5. Agree(p.m.cells, p.m.tail, E)
  BY DEF Placing, Shared, Agree
<1>6. \A i \in Cell : p.m.cells[i].src \in {-1, i} \/ \E d \in E : p.m.tail[d] = i
  BY DEF Placing, Shared
<1> HIDE DEF s, E
<1> QED BY <1>1, <1>4, <1>5, <1>6 DEF Placing, Shared, E, s

(* What the search knows when a sequence needs a cell. *)
Found(p, h, s) ==
    /\ Held(p.m.tail, p.next) = {}
    /\ p.m.cells[p.next].seqs = {}
    /\ p.m.tail[s] # p.next
    /\ p.m.tail[s] \in Cell =>
         /\ p.m.cells[p.m.tail[s]].seqs = Held(p.m.tail, p.m.tail[s])
         /\ s \in p.m.cells[p.m.tail[s]].seqs
         /\ p.m.cells[p.m.tail[s]].seqs \ {s} # {}
    /\ \E k \in 0 .. NSeq - 1 :
         /\ p.next = Wrap(h + k)
         /\ \A j \in 0 .. NSeq - 1 : Held(p.m.tail, Wrap(h + j)) = {} => k <= j
         /\ \A j \in 0 .. NSeq - 1 : k <= j =>
              p.m.cells[Wrap(h + j)].seqs = Held(p.m.tail, Wrap(h + j))

(* The cell found for a sequence is empty and nobody's tail.                *)
LEMMA PlaceFinds ==
    ASSUME NEW p, NEW h \in Cell, NEW D \in SUBSET SeqId, NEW J, Placing(p, h, D, J),
           NEW s \in SeqId, s \notin D, ~Owns(p.m, s)
    PROVE  Found(p, h, s)
<1>1. PICK t \in Cell \cup {-1} : t = p.m.tail[s]
  BY DEF Placing, Shared, Memory, Tails
<1>2. t \in Cell => p.m.cells[t].seqs = Held(p.m.tail, t) /\ s \in Held(p.m.tail, t)
  <2> SUFFICES ASSUME t \in Cell
               PROVE  p.m.cells[t].seqs = Held(p.m.tail, t) /\ s \in Held(p.m.tail, t)
    OBVIOUS
  <2>1. s \in Held(p.m.tail, t)
    BY <1>1 DEF Held
  <2>2. ~ \E d \in D : Held(p.m.tail, t) = {d}
    BY <2>1
  <2> QED BY <2>1, <2>2 DEF Placing, Shared, Agree
<1>3. t \in Cell => p.m.cells[t].seqs # {s}
  BY <1>1, CellsAndSequences DEF Owns
<1>4. ~ (p.m.tail[s] \in Cell /\ Held(p.m.tail, p.m.tail[s]) = {s})
  BY <1>1, <1>2, <1>3
<1>5. \E i \in Cell : Held(p.m.tail, i) = {}
  BY <1>4, RoomLeft DEF Placing, Shared, Memory
<1>6. PICK k \in 0 .. NSeq - 1 :
        /\ p.next = Wrap(h + k)
        /\ Held(p.m.tail, p.next) = {}
        /\ \A j \in 0 .. NSeq - 1 : Held(p.m.tail, Wrap(h + j)) = {} => k <= j
        /\ \A j \in 0 .. NSeq - 1 : k <= j => p.m.cells[Wrap(h + j)].seqs = Held(p.m.tail, Wrap(h + j))
  BY <1>5 DEF Placing, NextFree
<1>7. p.m.cells[p.next].seqs = {}
  BY <1>6
<1>8. t # p.next
  BY <1>2, <1>6, <1>1 DEF Placing
<1> QED BY <1>1, <1>2, <1>3, <1>6, <1>7, <1>8 DEF Found

(* What the tails say after a cell was given to s. *)
Moved(tail, new, s, e) ==
    /\ new \in Tails /\ new[s] = e
    /\ \A x \in SeqId \ {s} : new[x] = tail[x]
    /\ Held(new, e) = {s}
    /\ \A i \in Cell \ {e, tail[s]} : Held(new, i) = Held(tail, i)
    /\ tail[s] \in Cell => Held(new, tail[s]) = Held(tail, tail[s]) \ {s}

(* Whose tail each cell is when a sequence has moved to another.            *)
LEMMA HeldGiven ==
    ASSUME NEW tail \in Tails, NEW s \in SeqId, NEW e \in Cell, Held(tail, e) = {},
           NEW new, new = [tail EXCEPT ![s] = e]
    PROVE  Moved(tail, new, s, e)
<1>1. new \in Tails /\ new[s] = e /\ \A x \in SeqId \ {s} : new[x] = tail[x]
  BY DEF Tails
<1>2. \A x \in SeqId : tail[x] # e
  BY DEF Held
<1>3. Held(new, e) = {s}
  BY <1>1, <1>2 DEF Held
<1>4. \A i \in Cell \ {e, tail[s]} : Held(new, i) = Held(tail, i)
  BY <1>1 DEF Held
<1>5. tail[s] \in Cell => Held(new, tail[s]) = Held(tail, tail[s]) \ {s}
  BY <1>1, <1>2 DEF Held
<1> QED BY <1>1, <1>3, <1>4, <1>5 DEF Moved

(* After a sequence was given a cell, cells and tails agree but for the     *)
(* cells of new sequences, which are still empty.                           *)
LEMMA PlaceShared ==
    ASSUME NEW p, NEW h \in Cell, NEW D \in SUBSET SeqId, NEW J, Placing(p, h, D, J),
           NEW q, NEW s \in SeqId, s \notin D, s \notin J, J \subseteq SeqId, ~Owns(p.m, s),
           Given(p, q, s, p.next)
    PROVE  Shared(q.m, D \cup {s}, J)
<1> DEFINE E == D \cup {s}
<1>1. PICK e \in Cell, t \in Cell \cup {-1}, tail \in Tails, new \in Tails :
        e = p.next /\ tail = p.m.tail /\ t = tail[s] /\ new = q.m.tail
  <2>1. p.m.tail \in Tails /\ q.m.tail \in Tails /\ p.next \in Cell
    BY DEF Placing, Shared, Memory, Given
  <2>2. p.m.tail[s] \in Cell \cup {-1}
    BY <2>1 DEF Tails
  <2> QED BY <2>1, <2>2
<1>2. /\ Held(tail, e) = {} /\ p.m.cells[e].seqs = {} /\ t # e
      /\ t \in Cell => /\ p.m.cells[t].seqs = Held(tail, t) /\ s \in p.m.cells[t].seqs
                       /\ p.m.cells[t].seqs \ {s} # {}
  <2>1. Found(p, h, s)
    BY PlaceFinds
  <2> QED BY <1>1, <2>1 DEF Found
<1>3. /\ new \in Tails /\ new[s] = e
      /\ \A x \in SeqId \ {s} : new[x] = tail[x]
      /\ Held(new, e) = {s}
      /\ \A i \in Cell \ {e, t} : Held(new, i) = Held(tail, i)
      /\ t \in Cell => Held(new, t) = Held(tail, t) \ {s}
  <2>1. new = [tail EXCEPT ![s] = e]
    BY <1>1 DEF Given
  <2>2. Held(tail, e) = {}
    BY <1>2
  <2> HIDE DEF E
  <2>3. Moved(tail, new, s, e)
    BY <2>1, <2>2, HeldGiven
  <2> QED BY <1>1, <2>3 DEF Moved
<1>4. /\ q.m \in Memory
      /\ \A i \in Cell \ {e, t} : q.m.cells[i] = p.m.cells[i]
      /\ t \notin Cell => q.m.cells = p.m.cells
      /\ t \in Cell =>
         /\ q.m.cells[e].seqs = {s}
         /\ q.m.cells[e].pos = p.m.cells[t].pos
         /\ q.m.cells[t].seqs = p.m.cells[t].seqs \ {s}
         /\ q.m.cells[t].pos = p.m.cells[t].pos
         /\ q.m.cells[t].src = p.m.cells[t].src
  BY <1>1 DEF Given
<1>5. /\ Agree(p.m.cells, tail, D) /\ Dated(p.m.cells) /\ Owned(tail, D)
      /\ \A x \in J : tail[x] = -1
      /\ \A i \in Cell : p.m.cells[i].src \in {-1, i} \/ \E d \in D : tail[d] = i
  BY <1>1 DEF Placing, Shared
<1>6. Agree(q.m.cells, new, E)
  <2> SUFFICES ASSUME NEW i \in Cell
               PROVE  \/ q.m.cells[i].seqs = Held(new, i)
                      \/ q.m.cells[i].seqs = {} /\ \E d \in E : Held(new, i) = {d}
    BY DEF Agree
  <2>1. CASE i = e
    BY <1>2, <1>3, <1>4, <2>1
  <2>2. CASE i = t
    BY <1>2, <1>3, <1>4, <2>2
  <2>3. CASE i \notin {e, t}
    BY <1>3, <1>4, <1>5, <2>3 DEF Agree
  <2> QED BY <2>1, <2>2, <2>3
<1>7. Dated(q.m.cells)
  <2> SUFFICES ASSUME NEW i \in Cell PROVE q.m.cells[i].seqs = {} <=> q.m.cells[i].pos < 0
    BY DEF Dated
  <2>1. p.m.cells[i].seqs = {} <=> p.m.cells[i].pos < 0
    BY <1>5 DEF Dated
  <2>2. t \in Cell => (p.m.cells[t].seqs = {} <=> p.m.cells[t].pos < 0)
    BY <1>5 DEF Dated
  <2>3. CASE i = e
    BY <1>2, <1>4, <2>1, <2>2, <2>3
  <2>4. CASE i = t
    BY <1>2, <1>4, <2>1, <2>2, <2>4
  <2>5. CASE i \notin {e, t}
    BY <1>4, <2>1, <2>5
  <2> QED BY <2>3, <2>4, <2>5
<1>8. Owned(new, E)
  <2> SUFFICES ASSUME NEW d \in E PROVE new[d] \in Cell /\ Held(new, new[d]) = {d}
    BY DEF Owned
  <2>1. CASE d = s
    BY <1>3, <2>1
  <2>2. CASE d # s
    <3>1. d \in D /\ tail[d] \in Cell /\ Held(tail, tail[d]) = {d} /\ new[d] = tail[d]
      BY <1>3, <1>5, <2>2 DEF Owned
    <3>2. tail[d] # e
      BY <1>2, <3>1
    <3>3. tail[d] # t
      <4>1. t \in Cell => s \in Held(tail, t)
        BY <1>2
      <4> QED BY <2>2, <3>1, <4>1
    <3> QED BY <1>3, <3>1, <3>2, <3>3
  <2> QED BY <2>1, <2>2
<1>9. \A x \in J : new[x] = -1
  BY <1>3, <1>5
<1>10. \A i \in Cell : q.m.cells[i].src \in {-1, i} \/ \E d \in E : new[d] = i
  <2> SUFFICES ASSUME NEW i \in Cell, i # e
               PROVE  q.m.cells[i].src \in {-1, i} \/ \E d \in E : new[d] = i
    BY <1>3
  <2>1. q.m.cells[i].src = p.m.cells[i].src
    BY <1>4
  <2>2. \A d \in D : new[d] = tail[d]
    BY <1>3
  <2> QED BY <1>5, <2>1, <2>2
<1> HIDE DEF E
<1> QED BY <1>1, <1>4, <1>6, <1>7, <1>8, <1>9, <1>10 DEF Shared, E

(* The next cell to be given is empty and nobody's tail, if there is such a *)
(* cell.                                                                    *)
LEMMA PlaceNext ==
    ASSUME NEW p, NEW h \in Cell, NEW D \in SUBSET SeqId, NEW J, Placing(p, h, D, J),
           NEW q, NEW s \in SeqId, s \notin D, ~Owns(p.m, s), Given(p, q, s, p.next)
    PROVE  q.next \in Cell /\ NextFree(q.m, q.next, h)
<1>1. PICK e \in Cell, t \in Cell \cup {-1}, tail \in Tails, new \in Tails :
        e = p.next /\ tail = p.m.tail /\ t = tail[s] /\ new = q.m.tail
  <2>1. p.m.tail \in Tails /\ q.m.tail \in Tails /\ p.next \in Cell
    BY DEF Placing, Shared, Memory, Given
  <2>2. p.m.tail[s] \in Cell \cup {-1}
    BY <2>1 DEF Tails
  <2> QED BY <2>1, <2>2
<1>2. /\ Held(tail, e) = {} /\ t # e
      /\ t \in Cell => /\ p.m.cells[t].seqs = Held(tail, t) /\ s \in p.m.cells[t].seqs
                       /\ p.m.cells[t].seqs \ {s} # {}
      /\ \E k \in 0 .. NSeq - 1 :
           /\ e = Wrap(h + k)
           /\ \A j \in 0 .. NSeq - 1 : Held(tail, Wrap(h + j)) = {} => k <= j
           /\ \A j \in 0 .. NSeq - 1 : k <= j => p.m.cells[Wrap(h + j)].seqs = Held(tail, Wrap(h + j))
  <2>1. Found(p, h, s)
    BY PlaceFinds
  <2> QED BY <1>1, <2>1 DEF Found
<1>3. /\ Held(new, e) = {s}
      /\ \A i \in Cell \ {e, t} : Held(new, i) = Held(tail, i)
      /\ t \in Cell => Held(new, t) = Held(tail, t) \ {s}
  <2>1. new = [tail EXCEPT ![s] = e]
    BY <1>1 DEF Given
  <2>2. Held(tail, e) = {}
    BY <1>2
  <2>3. Moved(tail, new, s, e)
    BY <2>1, <2>2, HeldGiven
  <2> QED BY <1>1, <2>3 DEF Moved
<1>4. /\ \A i \in Cell \ {e, t} : q.m.cells[i] = p.m.cells[i]
      /\ t \in Cell => q.m.cells[t].seqs = p.m.cells[t].seqs \ {s}
      /\ q.next = NextEmpty(q.m.cells, Wrap(e + 1))
  BY <1>1 DEF Given
<1>5. Wrap(e + 1) \in Cell
  BY WrapType, CellsAndSequences
<1>6. PICK k \in 0 .. NSeq - 1 :
        /\ e = Wrap(h + k)
        /\ \A j \in 0 .. NSeq - 1 : Held(tail, Wrap(h + j)) = {} => k <= j
        /\ \A j \in 0 .. NSeq - 1 : k <= j => p.m.cells[Wrap(h + j)].seqs = Held(tail, Wrap(h + j))
  BY <1>2
<1>7. ASSUME NEW j \in 0 .. NSeq - 1, Held(new, Wrap(h + j)) = {}
      PROVE  k + 1 <= j /\ Held(tail, Wrap(h + j)) = {} /\ Wrap(h + j) \notin {e, t}
  <2>1. Wrap(h + j) \in Cell
    BY WrapType, CellsAndSequences
  <2>2. Wrap(h + j) \notin {e, t}
    BY <1>2, <1>3, <1>7, <2>1
  <2>3. Held(tail, Wrap(h + j)) = {}
    BY <1>3, <1>7, <2>1, <2>2
  <2>4. k <= j /\ k # j
    BY <1>6, <2>2, <2>3
  <2> QED BY <2>2, <2>3, <2>4, CellsAndSequences
<1>8. ASSUME NEW j \in 0 .. NSeq - 1, k + 1 <= j
      PROVE  q.m.cells[Wrap(h + j)].seqs = Held(new, Wrap(h + j))
  <2>1. Wrap(h + j) \in Cell /\ k <= j /\ j # k
    BY <1>8, WrapType, CellsAndSequences
  <2>2. Wrap(h + j) # e
    BY <1>6, <2>1, WrapOnce
  <2>3. p.m.cells[Wrap(h + j)].seqs = Held(tail, Wrap(h + j))
    BY <1>6, <2>1
  <2> QED BY <1>3, <1>4, <2>1, <2>2, <2>3
<1>9. ASSUME NEW j \in 0 .. NSeq - 1, k + 1 <= j
      PROVE  /\ j - (k + 1) \in 0 .. NSeq - 1
             /\ Wrap(Wrap(e + 1) + (j - (k + 1))) = Wrap(h + j)
  <2>1. j - (k + 1) \in 0 .. NSeq - 1 /\ k + 1 + (j - (k + 1)) = j
    BY <1>9, CellsAndSequences
  <2>2. PICK x \in 0 .. NSeq - 1 : x = j - (k + 1) /\ k + 1 + x = j
    BY <2>1
  <2>3. Wrap(Wrap(Wrap(h + k) + 1) + x) = Wrap(h + j)
    BY <2>2, WrapOn
  <2> QED BY <1>6, <2>2, <2>3
<1>10. q.next \in Cell
  BY <1>4, <1>5, NextEmptyIs
<1>11. NextFree(q.m, q.next, h)
  <2> SUFFICES ASSUME NEW i \in Cell, Held(new, i) = {}
               PROVE  \E x \in 0 .. NSeq - 1 :
                        /\ q.next = Wrap(h + x)
                        /\ Held(new, q.next) = {}
                        /\ \A j \in 0 .. NSeq - 1 : Held(new, Wrap(h + j)) = {} => x <= j
                        /\ \A j \in 0 .. NSeq - 1 : x <= j =>
                             q.m.cells[Wrap(h + j)].seqs = Held(new, Wrap(h + j))
    BY <1>1 DEF NextFree
  <2>1. PICK j0 \in 0 .. NSeq - 1 : Wrap(h + j0) = i
    BY WrapAll
  <2>2. k + 1 <= j0
    BY <1>7, <2>1
  <2>3. IsEmpty(q.m.cells[i])
    BY <1>8, <2>1, <2>2 DEF IsEmpty
  <2>4. PICK y \in 0 .. NSeq - 1 :
          /\ q.next = Wrap(Wrap(e + 1) + y)
          /\ IsEmpty(q.m.cells[Wrap(Wrap(e + 1) + y)])
          /\ \A j \in 0 .. NSeq - 1 : IsEmpty(q.m.cells[Wrap(Wrap(e + 1) + j)]) => y <= j
    BY <1>4, <1>5, <2>3, NextEmptyIs
  <2>5. ASSUME NEW j \in 0 .. NSeq - 1, Held(new, Wrap(h + j)) = {}
        PROVE  k + 1 + y <= j
    <3>1. k + 1 <= j
      BY <1>7, <2>5
    <3>2. /\ j - (k + 1) \in 0 .. NSeq - 1
          /\ Wrap(Wrap(e + 1) + (j - (k + 1))) = Wrap(h + j)
      BY <1>9, <3>1
    <3>3. IsEmpty(q.m.cells[Wrap(h + j)])
      BY <1>8, <2>5, <3>1 DEF IsEmpty
    <3>4. y <= j - (k + 1)
      BY <2>4, <3>2, <3>3
    <3> QED BY <3>4, CellsAndSequences
  <2>6. k + 1 + y <= j0
    BY <2>1, <2>5
  <2>7. PICK x \in 0 .. NSeq - 1 : x = k + 1 + y
    BY <2>6, CellsAndSequences
  <2>8. k + 1 <= x /\ x - (k + 1) = y
    BY <2>7, CellsAndSequences
  <2>9. q.next = Wrap(h + x)
    BY <1>9, <2>4, <2>8
  <2>10. ASSUME NEW j \in 0 .. NSeq - 1, x <= j
         PROVE  q.m.cells[Wrap(h + j)].seqs = Held(new, Wrap(h + j))
    <3>1. k + 1 <= j
      BY <2>8, <2>10, CellsAndSequences
    <3> QED BY <1>8, <3>1
  <2>11. Held(new, q.next) = {}
    <3>1. q.m.cells[Wrap(h + x)].seqs = Held(new, Wrap(h + x))
      BY <2>10, CellsAndSequences
    <3> QED BY <2>4, <2>9, <3>1 DEF IsEmpty
  <2> QED BY <2>5, <2>7, <2>9, <2>10, <2>11
<1> QED BY <1>10, <1>11

(* Every assertion holds while cells are given out.                         *)
LEMMA PlaceStep ==
    ASSUME NEW p, NEW h \in Cell, NEW D \in SUBSET SeqId, NEW J \in SUBSET SeqId,
           Placing(p, h, D, J),
           NEW ids, Main(ids) \in SeqId, Main(ids) \notin D, Main(ids) \notin J
    PROVE  /\ Placing(Place(p, ids), h, D \cup {Main(ids)}, J)
           /\ Place(p, ids).m.rs_idx = p.m.rs_idx
<1> DEFINE s == Main(ids)
           q == Place(p, ids)
<1>1. CASE Owns(p.m, s)
  BY <1>1, PlaceWhenOwned
<1>2. CASE ~Owns(p.m, s)
  <2>1. p.m \in Memory /\ p.next \in Cell /\ p.ok
    BY DEF Placing, Shared
  <2>2. Found(p, h, s)
    BY <1>2, PlaceFinds
  <2>3. PICK e \in Cell : e = p.next
    BY <2>1
  <2>4. p.m.tail[s] # e
    BY <2>2, <2>3 DEF Found
  <2>5. /\ Given(p, q, s, e)
        /\ q.ok <=> /\ p.ok /\ IsEmpty(p.m.cells[e])
                    /\ p.m.tail[s] \in Cell => /\ s \in p.m.cells[p.m.tail[s]].seqs
                                               /\ q.m.cells[p.m.tail[s]].seqs # {}
    BY <1>2, <2>1, <2>3, <2>4, PlaceGives
  <2> HIDE DEF q, s
  <2>6. p.m.tail[s] \in Cell => q.m.cells[p.m.tail[s]].seqs = p.m.cells[p.m.tail[s]].seqs \ {s}
    BY <2>5 DEF Given
  <2>7. q.ok
    BY <2>1, <2>2, <2>3, <2>5, <2>6 DEF Found, IsEmpty
  <2>8. Given(p, q, s, p.next) /\ s \in SeqId /\ s \notin D /\ s \notin J /\ ~Owns(p.m, s)
    BY <1>2, <2>3, <2>5 DEF s
  <2>9. Shared(q.m, D \cup {s}, J)
    BY <2>8, PlaceShared
  <2>10. q.next \in Cell /\ NextFree(q.m, q.next, h)
    BY <2>8, PlaceNext
  <2>11. q.m.rs_idx = p.m.rs_idx
    BY <2>8 DEF Given
  <2> QED BY <2>7, <2>9, <2>10, <2>11 DEF Placing, q, s
<1> QED BY <1>1, <1>2

(* The cell given to a sequence takes over what its old one held.           *)
LEMMA PlaceContinues ==
    ASSUME NEW p, NEW h \in Cell, NEW D \in SUBSET SeqId, NEW J, Placing(p, h, D, J),
           NEW ids, Main(ids) \in SeqId, Main(ids) \notin D,
           NEW b, Continued(b, p.m, D)
    PROVE  Continued(b, Place(p, ids).m, D \cup {Main(ids)})
<1> DEFINE s == Main(ids)
           q == Place(p, ids)
           E == D \cup {s}
<1>1. CASE Owns(p.m, s)
  <2>1. q = p
    BY <1>1, PlaceOwned
  <2>2. \A x \in SeqId \ E : x \in SeqId \ D
    OBVIOUS
  <2> QED BY <2>1, <2>2 DEF Continued
<1>2. CASE ~Owns(p.m, s)
  <2>1. p.m \in Memory /\ p.next \in Cell
    BY DEF Placing, Shared
  <2>2. PICK e \in Cell, t \in Cell \cup {-1}, tail \in Tails : e = p.next /\ tail = p.m.tail /\ t = tail[s]
    <3>1. p.m.tail \in Tails
      BY <2>1 DEF Memory
    <3>2. p.m.tail[s] \in Cell \cup {-1}
      BY <3>1 DEF Tails
    <3> QED BY <2>1, <3>1, <3>2
  <2>3. Found(p, h, s)
    BY <1>2, PlaceFinds
  <2>4. /\ Held(tail, e) = {} /\ t # e
        /\ t \in Cell => Held(tail, t) \ {s} # {}
    BY <2>2, <2>3 DEF Found
  <2>5. Given(p, q, s, e)
    BY <1>2, <2>1, <2>2, <2>4, PlaceGives
  <2>6. PICK new \in Tails : new = q.m.tail
    BY <2>5 DEF Given, Memory
  <2>7. Moved(tail, new, s, e)
    BY <2>2, <2>4, <2>5, <2>6, HeldGiven DEF Given
  <2>8. /\ \A i \in Cell \ {e, t} : q.m.cells[i] = p.m.cells[i]
        /\ t \notin Cell => q.m.cells = p.m.cells
        /\ t \in Cell => /\ q.m.cells[e].pos = p.m.cells[t].pos
                         /\ q.m.cells[e].src = p.m.cells[t].src
                         /\ q.m.cells[t].pos = p.m.cells[t].pos
                         /\ q.m.cells[t].src = p.m.cells[t].src
    BY <2>2, <2>5 DEF Given
  <2> HIDE DEF q, s
  <2>9. /\ new[s] = e /\ \A x \in SeqId \ {s} : new[x] = tail[x]
        /\ Held(new, e) = {s}
        /\ \A i \in Cell \ {e, t} : Held(new, i) = Held(tail, i)
        /\ t \in Cell => Held(new, t) = Held(tail, t) \ {s}
    BY <2>2, <2>7 DEF Moved
  <2>10. /\ \A x \in SeqId : tail[x] \in Cell => TakenOver(b, p.m.cells[tail[x]], x)
         /\ \A i \in Cell : Held(tail, i) = {} => Blank(b, p.m.cells[i].src)
         /\ \A x \in SeqId \ D : tail[x] \in Cell <=> b.tail[x] \in Cell
    BY <2>2 DEF Continued
  <2>11. TakenOver(b, q.m.cells[e], s)
    <3>1. CASE t \in Cell
      <4>1. TakenOver(b, p.m.cells[t], s)
        BY <2>2, <2>10, <3>1 DEF s
      <4> QED BY <2>8, <3>1, <4>1 DEF TakenOver
    <3>2. CASE t \notin Cell
      <4>1. b.tail[s] \notin Cell
        BY <2>2, <2>10, <3>2 DEF s
      <4>2. Blank(b, q.m.cells[e].src)
        BY <2>4, <2>8, <2>10, <3>2
      <4> QED BY <4>1, <4>2 DEF TakenOver
    <3> QED BY <3>1, <3>2
  <2>12. ASSUME NEW x \in SeqId, new[x] \in Cell, x # s PROVE TakenOver(b, q.m.cells[new[x]], x)
    <3>1. new[x] = tail[x] /\ tail[x] # e
      BY <2>4, <2>9, <2>12 DEF Held
    <3>2. TakenOver(b, p.m.cells[tail[x]], x)
      BY <2>10, <2>12, <3>1
    <3>3. CASE tail[x] = t
      <4>1. q.m.cells[t].pos = p.m.cells[t].pos /\ q.m.cells[t].src = p.m.cells[t].src
        BY <2>8, <2>12, <3>1, <3>3
      <4> QED BY <3>1, <3>2, <3>3, <4>1 DEF TakenOver
    <3>4. CASE tail[x] # t
      BY <2>8, <2>12, <3>1, <3>2, <3>4
    <3> QED BY <3>3, <3>4
  <2>13. ASSUME NEW i \in Cell, Held(new, i) = {} PROVE Blank(b, q.m.cells[i].src)
    <3>1. i # e /\ i # t
      BY <2>4, <2>9, <2>13
    <3> QED BY <2>8, <2>9, <2>10, <2>13, <3>1
  <2>14. ASSUME NEW x \in SeqId \ E PROVE new[x] \in Cell <=> b.tail[x] \in Cell
    BY <2>9, <2>10 DEF E
  <2>15. Continued(b, q.m, E)
    BY <2>6, <2>9, <2>11, <2>12, <2>13, <2>14 DEF Continued
  <2> QED BY <2>15 DEF q, s
<1> QED BY <1>1, <1>2

-----------------------------------------------------------------------------
(* find_slot gives the sequence sets cells, one after the other.            *)

PlaceStart(m) == [m |-> m, next |-> NextEmpty(m.cells, m.head), ok |-> TRUE]

(* g[k] is what the first k sequence sets leave. *)
PlacedBy(g, m, sets, n) == g = [k \in 0 .. n |-> IF k = 0 THEN PlaceStart(m) ELSE Place(g[k - 1], sets[k])]

(* The placing, one sequence set after the other.                           *)
LEMMA PlacedByAt ==
    ASSUME NEW g, NEW m, NEW sets, NEW n \in Nat, PlacedBy(g, m, sets, n)
    PROVE  g[0] = PlaceStart(m) /\ \A k \in 1 .. n : g[k] = Place(g[k - 1], sets[k])
<1> DEFINE step(k) == IF k = 0 THEN PlaceStart(m) ELSE Place(g[k - 1], sets[k])
<1>1. g = [k \in 0 .. n |-> step(k)]
  BY DEF PlacedBy
<1>2. \A k \in 0 .. n : g[k] = step(k)
  <2> HIDE DEF step
  <2> QED BY <1>1
<1>3. \A k \in 1 .. n : k \in 0 .. n /\ k # 0
  OBVIOUS
<1> QED BY <1>2, <1>3

(* There is such a placing.                                                 *)
LEMMA PlacedByExists ==
    ASSUME NEW m, NEW sets, NEW n \in Nat
    PROVE  \E g : PlacedBy(g, m, sets, n)
<1> DEFINE S == {i \in Nat : \E g : PlacedBy(g, m, sets, i)}
<1>1. 0 \in S
  <2> DEFINE g == [k \in 0 .. 0 |-> PlaceStart(m)]
  <2>1. PlacedBy(g, m, sets, 0)
    BY DEF PlacedBy
  <2> QED BY <2>1
<1>2. ASSUME NEW i \in Nat, i \in S PROVE i + 1 \in S
  <2>1. PICK g : PlacedBy(g, m, sets, i)
    BY <1>2
  <2> DEFINE h == [k \in 0 .. i + 1 |-> IF k = i + 1 THEN Place(g[i], sets[i + 1]) ELSE g[k]]
  <2>2. h[i + 1] = Place(g[i], sets[i + 1]) /\ \A k \in 0 .. i : h[k] = g[k]
    OBVIOUS
  <2>3. h = [k \in 0 .. i + 1 |-> h[k]]
    OBVIOUS
  <2> HIDE DEF h
  <2>4. h[0] = PlaceStart(m)
    BY <2>1, <2>2, PlacedByAt
  <2>5. ASSUME NEW k \in 1 .. i + 1 PROVE h[k] = Place(h[k - 1], sets[k])
    <3>1. CASE k = i + 1
      <4>1. k - 1 = i /\ i \in 0 .. i
        BY <3>1
      <4> QED BY <2>2, <3>1, <4>1
    <3>2. CASE k # i + 1
      <4>1. k \in 1 .. i /\ k \in 0 .. i /\ k - 1 \in 0 .. i
        BY <3>2
      <4>2. g[k] = Place(g[k - 1], sets[k])
        BY <2>1, <4>1, PlacedByAt
      <4> QED BY <2>2, <4>1, <4>2
    <3> QED BY <3>1, <3>2
  <2>6. \A k \in 0 .. i + 1 : h[k] = IF k = 0 THEN PlaceStart(m) ELSE Place(h[k - 1], sets[k])
    BY <2>4, <2>5
  <2>7. PlacedBy(h, m, sets, i + 1)
    BY <2>3, <2>6 DEF PlacedBy
  <2> QED BY <2>7
<1> HIDE DEF S
<1>3. Nat \subseteq S
  BY <1>1, <1>2, Induction
<1> QED BY <1>3 DEF S

(* It is what the search computes.                                          *)
LEMMA PlacedByIs ==
    ASSUME NEW m, NEW sets, Len(sets) \in Nat
    PROVE  \E g : PlacedBy(g, m, sets, Len(sets)) /\ Placed(m, sets) = g[Len(sets)]
<1> DEFINE g == CHOOSE g : g = [k \in 0 .. Len(sets) |-> IF k = 0 THEN PlaceStart(m) ELSE Place(g[k - 1], sets[k])]
<1>1. PICK h : PlacedBy(h, m, sets, Len(sets))
  BY PlacedByExists
<1>2. PlacedBy(g, m, sets, Len(sets))
  BY <1>1 DEF PlacedBy
<1>3. Placed(m, sets) = g[Len(sets)]
  BY DEF Placed, PlaceStart
<1> QED BY <1>2, <1>3

-----------------------------------------------------------------------------
(* The sequence sets of a micro batch.                                      *)

WellSets(sets) ==
    /\ sets \in Seq(SUBSET SeqId) /\ Len(sets) > 0
    /\ \A k \in 1 .. Len(sets) : sets[k] # {}
    /\ \A j \in 1 .. Len(sets), k \in 1 .. Len(sets) : j # k => sets[j] \cap sets[k] = {}

Mains(sets, n) == {Main(sets[j]) : j \in 1 .. n}
Joined(sets) == UNION {ids \ {Main(ids)} : ids \in Range(sets)}

(* The sequence sets of a micro batch.                                      *)
LEMMA SetsType ==
    ASSUME NEW sets, WellSets(sets)
    PROVE  /\ Len(sets) \in Nat /\ DOMAIN sets = 1 .. Len(sets)
           /\ \A k \in 1 .. Len(sets) :
                sets[k] \subseteq SeqId /\ Main(sets[k]) \in sets[k] /\ Main(sets[k]) \in SeqId
<1>1. Len(sets) \in Nat /\ DOMAIN sets = 1 .. Len(sets)
      /\ \A k \in 1 .. Len(sets) : sets[k] \in SUBSET SeqId /\ sets[k] # {}
  BY DEF WellSets
<1>2. \A k \in 1 .. Len(sets) : Main(sets[k]) \in sets[k] /\ Main(sets[k]) \in SeqId
  BY <1>1, MainIs
<1> QED BY <1>1, <1>2

(* Two of them have different first sequences.                              *)
LEMMA MainOnce ==
    ASSUME NEW sets, WellSets(sets), NEW j \in 1 .. Len(sets), NEW k \in 1 .. Len(sets),
           Main(sets[j]) \in sets[k]
    PROVE  j = k
BY SetsType DEF WellSets

(* The sequences of a set but its first.                                    *)
LEMMA JoinedIs ==
    ASSUME NEW sets, WellSets(sets)
    PROVE  /\ Joined(sets) \in SUBSET SeqId
           /\ \A s : s \in Joined(sets) <=> \E k \in 1 .. Len(sets) : s \in sets[k] \ {Main(sets[k])}
           /\ \A s : s \in UNION Range(sets) <=> \E k \in 1 .. Len(sets) : s \in sets[k]
           /\ \A k \in 1 .. Len(sets) : Main(sets[k]) \notin Joined(sets)
<1>1. Range(sets) = {sets[k] : k \in 1 .. Len(sets)}
  BY SetsType DEF Range
<1>2. \A s : s \in Joined(sets) <=> \E k \in 1 .. Len(sets) : s \in sets[k] \ {Main(sets[k])}
  BY <1>1 DEF Joined
<1>3. \A s : s \in UNION Range(sets) <=> \E k \in 1 .. Len(sets) : s \in sets[k]
  BY <1>1
<1>4. Joined(sets) \in SUBSET SeqId
  BY <1>2, SetsType
<1>5. ASSUME NEW k \in 1 .. Len(sets), Main(sets[k]) \in Joined(sets) PROVE FALSE
  <2>1. PICK j \in 1 .. Len(sets) : Main(sets[k]) \in sets[j] \ {Main(sets[j])}
    BY <1>2, <1>5
  <2>2. j = k
    BY <2>1, MainOnce
  <2> QED BY <2>1, <2>2
<1> QED BY <1>2, <1>3, <1>4, <1>5

(* The first sequences, one set after the other.                            *)
LEMMA MainsIs ==
    ASSUME NEW sets, WellSets(sets), NEW n \in 1 .. Len(sets)
    PROVE  /\ Mains(sets, 0) = {}
           /\ Mains(sets, n) = Mains(sets, n - 1) \cup {Main(sets[n])}
           /\ Main(sets[n]) \notin Mains(sets, n - 1)
           /\ Mains(sets, n - 1) \in SUBSET SeqId
<1>1. Mains(sets, 0) = {}
  BY DEF Mains
<1>2. 1 .. n = (1 .. n - 1) \cup {n} /\ 1 .. n - 1 \subseteq 1 .. Len(sets) /\ n \notin 1 .. n - 1
  BY SetsType
<1>3. Mains(sets, n) = Mains(sets, n - 1) \cup {Main(sets[n])}
  BY <1>2 DEF Mains
<1>4. Mains(sets, n - 1) \in SUBSET SeqId
  BY <1>2, SetsType DEF Mains
<1>5. ASSUME NEW j \in 1 .. n - 1, Main(sets[j]) = Main(sets[n]) PROVE FALSE
  <2>1. j \in 1 .. Len(sets) /\ Main(sets[j]) \in sets[n]
    BY <1>2, <1>5, SetsType
  <2>2. j = n
    BY <2>1, MainOnce
  <2> QED BY <1>2, <2>2
<1>6. Main(sets[n]) \notin Mains(sets, n - 1)
  BY <1>5 DEF Mains
<1> QED BY <1>1, <1>3, <1>4, <1>6

(* Where the placing begins.                                                *)
LEMMA PlacingStarts ==
    ASSUME NEW m, Sane(m), NEW J, \A s \in J : m.tail[s] = -1
    PROVE  Placing(PlaceStart(m), m.head, {}, J)
<1> DEFINE p == PlaceStart(m)
<1>1. p.m = m /\ p.next = NextEmpty(m.cells, m.head) /\ p.ok
  BY DEF PlaceStart
<1>2. m.head \in Cell /\ m \in Memory
  BY DEF Sane, Memory
<1>3. p.next \in Cell
  BY <1>1, <1>2, NextEmptyIs
<1>4. \A i \in Cell : m.cells[i].seqs = Held(m.tail, i)
  BY SaneAgree
<1>5. NextFree(m, p.next, m.head)
  <2> SUFFICES ASSUME NEW i \in Cell, Held(m.tail, i) = {}
               PROVE  \E k \in 0 .. NSeq - 1 :
                        /\ p.next = Wrap(m.head + k)
                        /\ Held(m.tail, p.next) = {}
                        /\ \A j \in 0 .. NSeq - 1 : Held(m.tail, Wrap(m.head + j)) = {} => k <= j
                        /\ \A j \in 0 .. NSeq - 1 : k <= j =>
                             m.cells[Wrap(m.head + j)].seqs = Held(m.tail, Wrap(m.head + j))
    BY DEF NextFree
  <2>1. IsEmpty(m.cells[i])
    BY <1>4 DEF IsEmpty
  <2>2. PICK k \in 0 .. NSeq - 1 :
          /\ p.next = Wrap(m.head + k)
          /\ IsEmpty(m.cells[Wrap(m.head + k)])
          /\ \A j \in 0 .. NSeq - 1 : IsEmpty(m.cells[Wrap(m.head + j)]) => k <= j
    BY <1>1, <1>2, <2>1, NextEmptyIs
  <2>3. \A j \in 0 .. NSeq - 1 :
          /\ m.cells[Wrap(m.head + j)].seqs = Held(m.tail, Wrap(m.head + j))
          /\ IsEmpty(m.cells[Wrap(m.head + j)]) <=> Held(m.tail, Wrap(m.head + j)) = {}
    <3>1. \A j \in 0 .. NSeq - 1 : Wrap(m.head + j) \in Cell
      <4>1. \A j \in 0 .. NSeq - 1 : j \in 0 .. NSeq
        BY CellsAndSequences
      <4> QED BY <1>2, <4>1, WrapType
    <3> QED BY <1>4, <3>1 DEF IsEmpty
  <2> HIDE DEF p
  <2> QED BY <2>2, <2>3
<1>6. Shared(m, {}, J)
  BY DEF Sane, Shared, Owned, OwnSources
<1> HIDE DEF p
<1> QED BY <1>1, <1>3, <1>5, <1>6 DEF Placing, p

(* At first each cell holds what it held.                                   *)
LEMMA ContinuedStarts ==
    ASSUME NEW m, Sane(m)
    PROVE  Continued(m, m, {})
<1>1. \A s \in SeqId : m.tail[s] \in Cell => TakenOver(m, m.cells[m.tail[s]], s)
  BY DEF TakenOver
<1>2. ASSUME NEW i \in Cell, Held(m.tail, i) = {} PROVE Blank(m, m.cells[i].src)
  <2>1. m.cells[i].seqs = {}
    BY <1>2, SaneAgree
  <2>2. m.cells[i].src \in {-1, i}
    BY DEF Sane, OwnSources
  <2>3. CASE m.cells[i].src = -1
    BY <2>3 DEF Blank
  <2>4. CASE m.cells[i].src = i
    BY <2>1, <2>4 DEF Blank
  <2> QED BY <2>2, <2>3, <2>4
<1> QED BY <1>1, <1>2 DEF Continued

(* Every sequence set finds a cell of its own, and no cell loses its state. *)
LEMMA PlacedOk ==
    ASSUME NEW m, Sane(m), NEW sets, WellSets(sets), \A s \in Joined(sets) : m.tail[s] = -1
    PROVE  /\ Shared(Placed(m, sets).m, Mains(sets, Len(sets)), Joined(sets))
           /\ Placed(m, sets).ok
           /\ Placed(m, sets).m.rs_idx = m.rs_idx
           /\ Continued(m, Placed(m, sets).m, Mains(sets, Len(sets)))
<1> DEFINE N == Len(sets)
           J == Joined(sets)
<1>1. N \in Nat
  BY SetsType
<1>2. PICK g : PlacedBy(g, m, sets, N) /\ Placed(m, sets) = g[N]
  BY <1>1, PlacedByIs
<1>3. g[0] = PlaceStart(m) /\ \A k \in 1 .. N : g[k] = Place(g[k - 1], sets[k])
  BY <1>1, <1>2, PlacedByAt
<1>4. J \in SUBSET SeqId /\ m.head \in Cell
  BY JoinedIs DEF Sane, Memory
<1> DEFINE S == {k \in Nat : k <= N => /\ Placing(g[k], m.head, Mains(sets, k), J)
                                       /\ g[k].m.rs_idx = m.rs_idx
                                       /\ Continued(m, g[k].m, Mains(sets, k))}
<1>5. 0 \in S
  <2>1. Placing(PlaceStart(m), m.head, {}, J) /\ PlaceStart(m).m.rs_idx = m.rs_idx
    BY PlacingStarts DEF PlaceStart
  <2>2. Mains(sets, 0) = {}
    BY DEF Mains
  <2>3. Continued(m, PlaceStart(m).m, {})
    BY ContinuedStarts DEF PlaceStart
  <2> QED BY <1>3, <2>1, <2>2, <2>3
<1>6. ASSUME NEW i \in Nat, i \in S PROVE i + 1 \in S
  <2> SUFFICES ASSUME i + 1 <= N
               PROVE  /\ Placing(g[i + 1], m.head, Mains(sets, i + 1), J)
                      /\ g[i + 1].m.rs_idx = m.rs_idx
                      /\ Continued(m, g[i + 1].m, Mains(sets, i + 1))
    OBVIOUS
  <2>1. PICK k \in 1 .. N : k = i + 1 /\ k - 1 = i
    BY <1>1
  <2>2. /\ Placing(g[i], m.head, Mains(sets, i), J) /\ g[i].m.rs_idx = m.rs_idx
        /\ Continued(m, g[i].m, Mains(sets, i))
    BY <1>1, <1>6
  <2>3. g[k] = Place(g[i], sets[k])
    BY <1>3, <2>1
  <2>4. /\ Mains(sets, k) = Mains(sets, i) \cup {Main(sets[k])}
        /\ Main(sets[k]) \notin Mains(sets, i) /\ Mains(sets, i) \in SUBSET SeqId
    BY <2>1, MainsIs
  <2>5. Main(sets[k]) \in SeqId /\ Main(sets[k]) \notin J
    BY SetsType, JoinedIs
  <2> HIDE DEF J, N, S
  <2>6. /\ Placing(g[k], m.head, Mains(sets, k), J)
        /\ g[k].m.rs_idx = g[i].m.rs_idx
        /\ Continued(m, g[k].m, Mains(sets, k))
    <3>1. PICK p, D, ids, q : p = g[i] /\ D = Mains(sets, i) /\ ids = sets[k] /\ q = Place(p, ids)
      OBVIOUS
    <3>2. /\ D \in SUBSET SeqId /\ Placing(p, m.head, D, J)
          /\ Main(ids) \in SeqId /\ Main(ids) \notin D /\ Main(ids) \notin J
          /\ Continued(m, p.m, D)
      BY <2>2, <2>4, <2>5, <3>1
    <3>3. Placing(Place(p, ids), m.head, D \cup {Main(ids)}, J) /\ Place(p, ids).m.rs_idx = p.m.rs_idx
      BY <1>4, <3>2, PlaceStep
    <3>4. Continued(m, Place(p, ids).m, D \cup {Main(ids)})
      BY <1>4, <3>2, PlaceContinues
    <3> QED BY <2>3, <2>4, <3>1, <3>3, <3>4
  <2> QED BY <2>1, <2>2, <2>6
<1> HIDE DEF S
<1>7. Nat \subseteq S
  BY <1>5, <1>6, Induction
<1>8. /\ Placing(g[N], m.head, Mains(sets, N), J) /\ g[N].m.rs_idx = m.rs_idx
      /\ Continued(m, g[N].m, Mains(sets, N))
  BY <1>1, <1>7 DEF S
<1> QED BY <1>2, <1>8 DEF Placing

-----------------------------------------------------------------------------
(* find_slot gathers the cells: it swaps them into their places.            *)

Other(a, b, i) == IF i = a THEN b ELSE IF i = b THEN a ELSE i

Swapped(m, q, a, b) ==
    /\ q \in Memory
    /\ \A i \in Cell : /\ q.cells[i].seqs = m.cells[Other(a, b, i)].seqs
                       /\ q.cells[i].pos = m.cells[Other(a, b, i)].pos
                       /\ q.cells[i].src = m.cells[Other(a, b, i)].src
    /\ \A s \in SeqId : q.tail[s] = Other(a, b, m.tail[s])
    /\ q.rs_idx = m.rs_idx

(* What swapping two cells changes.                                         *)
LEMMA SwapIs ==
    ASSUME NEW m \in Memory, NEW a \in Cell, NEW b \in Cell
    PROVE  Swapped(m, Swap(m, a, b), a, b)
<1> DEFINE with(x, y) == [x EXCEPT !.pos = y.pos, !.src = y.src, !.seqs = y.seqs]
           cs == [i \in Cell |-> with(m.cells[i], m.cells[Other(a, b, i)])]
           ts == [s \in SeqId |-> Other(a, b, m.tail[s])]
           q == Swap(m, a, b)
<1>1. q = [m EXCEPT !.cells = cs, !.tail = ts]
  BY DEF Swap, Other
<1>2. \A i \in Cell : Other(a, b, i) \in Cell
  BY DEF Other
<1>3. ASSUME NEW i \in Cell
      PROVE  /\ cs[i] \in CellRec
             /\ cs[i].seqs = m.cells[Other(a, b, i)].seqs
             /\ cs[i].pos = m.cells[Other(a, b, i)].pos
             /\ cs[i].src = m.cells[Other(a, b, i)].src
  <2>1. PICK x \in CellRec, y \in CellRec : x = m.cells[i] /\ y = m.cells[Other(a, b, i)]
    BY <1>2, CellFields
  <2>2. with(x, y) \in CellRec /\ with(x, y).seqs = y.seqs /\ with(x, y).pos = y.pos /\ with(x, y).src = y.src
    BY DEF CellRec
  <2>3. cs[i] = with(x, y)
    BY <2>1
  <2> HIDE DEF with, cs
  <2> QED BY <2>1, <2>2, <2>3
<1>4. cs \in [Cell -> CellRec]
  <2>1. cs = [i \in Cell |-> cs[i]]
    OBVIOUS
  <2> HIDE DEF cs
  <2> QED BY <1>3, <2>1
<1>5. ts \in Tails /\ \A s \in SeqId : ts[s] = Other(a, b, m.tail[s])
  BY DEF Tails, Memory, Other
<1> HIDE DEF cs, ts, with, q
<1>6. q \in Memory /\ q.cells = cs /\ q.tail = ts /\ q.rs_idx = m.rs_idx
  BY <1>1, <1>4, <1>5 DEF Memory
<1>7. Swapped(m, q, a, b)
  BY <1>3, <1>5, <1>6 DEF Swapped
<1> QED BY <1>7 DEF q

(* Whose tail each cell is after the swap.                                  *)
LEMMA HeldSwapped ==
    ASSUME NEW m \in Memory, NEW a \in Cell, NEW b \in Cell, NEW q, Swapped(m, q, a, b),
           NEW i \in Cell
    PROVE  Held(q.tail, i) = Held(m.tail, Other(a, b, i))
<1>1. \A s \in SeqId : q.tail[s] = i <=> m.tail[s] = Other(a, b, i)
  BY DEF Swapped, Other
<1> QED BY <1>1 DEF Held

(* No state is lost by a swap.                                              *)
LEMMA SwapContinues ==
    ASSUME NEW m \in Memory, NEW a \in Cell, NEW b \in Cell, NEW q, Swapped(m, q, a, b),
           NEW o, NEW D, Continued(o, m, D)
    PROVE  Continued(o, q, D)
<1>1. \A x \in SeqId : m.tail[x] \in Cell \cup {-1} /\ q.tail[x] = Other(a, b, m.tail[x])
  BY DEF Memory, Tails, Swapped
<1>2. \A i \in Cell : Other(a, b, i) \in Cell /\ Other(a, b, Other(a, b, i)) = i
  BY DEF Other
<1>3. Other(a, b, -1) = -1 /\ -1 \notin Cell
  BY CellsAndSequences DEF Other
<1>4. \A x \in SeqId : /\ q.tail[x] \in Cell <=> m.tail[x] \in Cell
                       /\ q.tail[x] \in Cell => Other(a, b, q.tail[x]) = m.tail[x]
  BY <1>1, <1>2, <1>3
<1>5. \A i \in Cell : /\ q.cells[i].pos = m.cells[Other(a, b, i)].pos
                      /\ q.cells[i].src = m.cells[Other(a, b, i)].src
                      /\ Held(q.tail, i) = Held(m.tail, Other(a, b, i))
  <2>1. \A i \in Cell : Held(q.tail, i) = Held(m.tail, Other(a, b, i))
    BY HeldSwapped
  <2> QED BY <2>1 DEF Swapped
<1>6. ASSUME NEW x \in SeqId, q.tail[x] \in Cell PROVE TakenOver(o, q.cells[q.tail[x]], x)
  <2>1. TakenOver(o, m.cells[m.tail[x]], x)
    BY <1>4, <1>6 DEF Continued
  <2>2. /\ q.cells[q.tail[x]].pos = m.cells[m.tail[x]].pos
        /\ q.cells[q.tail[x]].src = m.cells[m.tail[x]].src
    BY <1>4, <1>5, <1>6
  <2> QED BY <2>1, <2>2 DEF TakenOver
<1>7. ASSUME NEW i \in Cell, Held(q.tail, i) = {} PROVE Blank(o, q.cells[i].src)
  BY <1>2, <1>5, <1>7 DEF Continued
<1> QED BY <1>4, <1>6, <1>7 DEF Continued

(* The range is lo .. hi; the first n sequence sets are in place.           *)
Gathering(m, sets, n, lo, hi) ==
    /\ m \in Memory
    /\ Agree(m.cells, m.tail, Mains(sets, Len(sets)))
    /\ Dated(m.cells)
    /\ Owned(m.tail, Mains(sets, Len(sets)))
    /\ \A s \in Joined(sets) : m.tail[s] = -1
    /\ \A k \in 1 .. Len(sets) : m.tail[Main(sets[k])] \in lo .. hi
    /\ \A i \in Cell \ (lo .. hi) : m.cells[i].src \in {-1, i}
    /\ \A k \in 1 .. n : m.tail[Main(sets[k])] = lo + k - 1

(* Bringing one sequence set to its place keeps those before it in theirs.  *)
LEMMA GatherStep ==
    ASSUME NEW sets, WellSets(sets), NEW lo \in Cell, NEW hi \in Cell,
           NEW n \in 1 .. Len(sets), NEW b \in lo .. hi, b = lo + n - 1,
           NEW m, Gathering(m, sets, n - 1, lo, hi)
    PROVE  /\ Gathering(GatherOne(m, sets[n], b), sets, n, lo, hi)
           /\ GatherOne(m, sets[n], b).rs_idx = m.rs_idx
           /\ \E a \in Cell : Swapped(m, GatherOne(m, sets[n], b), a, b)
<1> DEFINE D == Mains(sets, Len(sets))
           s == Main(sets[n])
           q == GatherOne(m, sets[n], b)
           O(i) == Other(m.tail[s], b, i)
<1>1. /\ m \in Memory /\ m.tail \in Tails
      /\ Agree(m.cells, m.tail, D)
      /\ Dated(m.cells)
      /\ Owned(m.tail, D)
      /\ \A x \in Joined(sets) : m.tail[x] = -1
      /\ \A k \in 1 .. Len(sets) : m.tail[Main(sets[k])] \in lo .. hi
      /\ \A i \in Cell \ (lo .. hi) : m.cells[i].src \in {-1, i}
      /\ \A k \in 1 .. n - 1 : m.tail[Main(sets[k])] = lo + k - 1
  BY DEF Gathering, Memory
<1>2. /\ D \subseteq SeqId
      /\ \A k \in 1 .. Len(sets) : Main(sets[k]) \in D
      /\ Joined(sets) \subseteq SeqId
  BY SetsType, JoinedIs DEF Mains
<1>3. lo .. hi \subseteq Cell
  BY CellsAndSequences DEF Cell
<1>4. PICK a \in lo .. hi : a = m.tail[s]
  BY <1>1
<1>5. Swapped(m, q, a, b)
  BY <1>1, <1>3, <1>4, SwapIs DEF GatherOne
<1>6. \A i \in Cell : O(i) \in Cell /\ O(O(i)) = i /\ (i \in lo .. hi => O(i) \in lo .. hi)
                      /\ (i \notin lo .. hi => O(i) = i)
  BY <1>3, <1>4 DEF Other
<1>7. \A i \in Cell : /\ q.cells[i].seqs = m.cells[O(i)].seqs
                      /\ q.cells[i].pos = m.cells[O(i)].pos
                      /\ q.cells[i].src = m.cells[O(i)].src
                      /\ Held(q.tail, i) = Held(m.tail, O(i))
  <2>1. \A i \in Cell : Held(q.tail, i) = Held(m.tail, Other(a, b, i))
    BY <1>1, <1>3, <1>4, <1>5, HeldSwapped
  <2> HIDE DEF q
  <2> QED BY <1>4, <1>5, <2>1 DEF Swapped
<1>8. \A x \in SeqId : q.tail[x] = O(m.tail[x])
  BY <1>4, <1>5 DEF Swapped
<1>9. q \in Memory /\ q.rs_idx = m.rs_idx
  BY <1>5 DEF Swapped
<1> HIDE DEF q, O, D
<1>10. Agree(q.cells, q.tail, D)
  <2> SUFFICES ASSUME NEW i \in Cell
               PROVE  \/ q.cells[i].seqs = Held(q.tail, i)
                      \/ q.cells[i].seqs = {} /\ \E d \in D : Held(q.tail, i) = {d}
    BY DEF Agree
  <2>1. PICK j \in Cell : j = O(i)
    BY <1>6
  <2>2. \/ m.cells[j].seqs = Held(m.tail, j)
        \/ m.cells[j].seqs = {} /\ \E d \in D : Held(m.tail, j) = {d}
    BY <1>1 DEF Agree
  <2>3. q.cells[i].seqs = m.cells[j].seqs /\ Held(q.tail, i) = Held(m.tail, j)
    BY <1>7, <2>1
  <2> QED BY <2>2, <2>3
<1>11. Dated(q.cells)
  BY <1>1, <1>6, <1>7 DEF Dated
<1>12. Owned(q.tail, D)
  <2> SUFFICES ASSUME NEW d \in D PROVE q.tail[d] \in Cell /\ Held(q.tail, q.tail[d]) = {d}
    BY DEF Owned
  <2>1. m.tail[d] \in Cell /\ Held(m.tail, m.tail[d]) = {d} /\ q.tail[d] = O(m.tail[d])
    BY <1>1, <1>2, <1>8 DEF Owned
  <2> QED BY <1>6, <1>7, <2>1
<1>13. \A x \in Joined(sets) : q.tail[x] = -1
  <2> SUFFICES ASSUME NEW x \in Joined(sets) PROVE q.tail[x] = -1
    OBVIOUS
  <2>1. m.tail[x] = -1 /\ q.tail[x] = O(m.tail[x])
    BY <1>1, <1>2, <1>8
  <2>2. a # -1 /\ b # -1
    BY <1>3, CellsAndSequences
  <2> QED BY <1>4, <2>1, <2>2 DEF O, Other
<1>14. \A k \in 1 .. Len(sets) : q.tail[Main(sets[k])] \in lo .. hi
  <2> SUFFICES ASSUME NEW k \in 1 .. Len(sets) PROVE q.tail[Main(sets[k])] \in lo .. hi
    OBVIOUS
  <2>1. m.tail[Main(sets[k])] \in lo .. hi /\ q.tail[Main(sets[k])] = O(m.tail[Main(sets[k])])
    BY <1>1, <1>8, SetsType
  <2> QED BY <1>3, <1>6, <2>1
<1>15. \A i \in Cell \ (lo .. hi) : q.cells[i].src \in {-1, i}
  BY <1>1, <1>6, <1>7
<1>16. ASSUME NEW k \in 1 .. n PROVE q.tail[Main(sets[k])] = lo + k - 1
  <2>1. k \in 1 .. Len(sets) /\ Main(sets[k]) \in SeqId
    BY SetsType
  <2>2. q.tail[Main(sets[k])] = O(m.tail[Main(sets[k])])
    BY <1>8, <2>1
  <2>3. CASE k = n
    BY <1>4, <2>2, <2>3 DEF O, Other
  <2>4. CASE k # n
    <3>1. k \in 1 .. n - 1 /\ lo + k - 1 # b
      BY <2>4, SetsType, CellsAndSequences
    <3>2. m.tail[Main(sets[k])] = lo + k - 1
      BY <1>1, <3>1
    <3>3. m.tail[Main(sets[k])] # a
      <4> SUFFICES ASSUME m.tail[Main(sets[k])] = a PROVE FALSE
        OBVIOUS
      <4>1. Held(m.tail, a) = {s}
        BY <1>1, <1>2, <1>4 DEF Owned
      <4>2. Main(sets[k]) \in Held(m.tail, a)
        BY <2>1 DEF Held
      <4>3. Main(sets[k]) \in sets[n]
        BY <4>1, <4>2, SetsType
      <4>4. k = n
        BY <2>1, <4>3, MainOnce
      <4> QED BY <2>4, <4>4
    <3> QED BY <1>4, <2>2, <3>1, <3>2, <3>3 DEF O, Other
  <2> QED BY <2>3, <2>4
<1>17. Gathering(q, sets, n, lo, hi)
  BY <1>9, <1>10, <1>11, <1>12, <1>13, <1>14, <1>15, <1>16 DEF Gathering, D
<1> QED BY <1>3, <1>4, <1>5, <1>9, <1>17 DEF q

(* g[k] is the memory when the first k sequence sets are in place. *)
GatheredBy(g, m, sets, min, n) == g = [k \in 0 .. n |-> IF k = 0 THEN m ELSE GatherOne(g[k - 1], sets[k], min + (k) - 1)]

(* The gathering, one sequence set after the other.                         *)
LEMMA GatheredByAt ==
    ASSUME NEW g, NEW m, NEW sets, NEW min, NEW n \in Nat, GatheredBy(g, m, sets, min, n)
    PROVE  g[0] = m /\ \A k \in 1 .. n : g[k] = GatherOne(g[k - 1], sets[k], min + (k) - 1)
<1> DEFINE step(k) == IF k = 0 THEN m ELSE GatherOne(g[k - 1], sets[k], min + (k) - 1)
<1>1. g = [k \in 0 .. n |-> step(k)]
  BY DEF GatheredBy
<1>2. \A k \in 0 .. n : g[k] = step(k)
  <2> HIDE DEF step
  <2> QED BY <1>1
<1>3. \A k \in 1 .. n : k \in 0 .. n /\ k # 0
  OBVIOUS
<1> QED BY <1>2, <1>3

(* There is such a gathering.                                               *)
LEMMA GatheredByExists ==
    ASSUME NEW m, NEW sets, NEW min, NEW n \in Nat
    PROVE  \E g : GatheredBy(g, m, sets, min, n)
<1> DEFINE S == {i \in Nat : \E g : GatheredBy(g, m, sets, min, i)}
<1>1. 0 \in S
  <2> DEFINE g == [k \in 0 .. 0 |-> m]
  <2>1. GatheredBy(g, m, sets, min, 0)
    BY DEF GatheredBy
  <2> QED BY <2>1
<1>2. ASSUME NEW i \in Nat, i \in S PROVE i + 1 \in S
  <2>1. PICK g : GatheredBy(g, m, sets, min, i)
    BY <1>2
  <2> DEFINE h == [k \in 0 .. i + 1 |-> IF k = i + 1 THEN GatherOne(g[i], sets[i + 1], min + (i + 1) - 1) ELSE g[k]]
  <2>2. h[i + 1] = GatherOne(g[i], sets[i + 1], min + (i + 1) - 1) /\ \A k \in 0 .. i : h[k] = g[k]
    OBVIOUS
  <2>3. h = [k \in 0 .. i + 1 |-> h[k]]
    OBVIOUS
  <2> HIDE DEF h
  <2>4. h[0] = m
    BY <2>1, <2>2, GatheredByAt
  <2>5. ASSUME NEW k \in 1 .. i + 1 PROVE h[k] = GatherOne(h[k - 1], sets[k], min + (k) - 1)
    <3>1. CASE k = i + 1
      <4>1. k - 1 = i /\ i \in 0 .. i
        BY <3>1
      <4> QED BY <2>2, <3>1, <4>1
    <3>2. CASE k # i + 1
      <4>1. k \in 1 .. i /\ k \in 0 .. i /\ k - 1 \in 0 .. i
        BY <3>2
      <4>2. g[k] = GatherOne(g[k - 1], sets[k], min + (k) - 1)
        BY <2>1, <4>1, GatheredByAt
      <4> QED BY <2>2, <4>1, <4>2
    <3> QED BY <3>1, <3>2
  <2>6. \A k \in 0 .. i + 1 : h[k] = IF k = 0 THEN m ELSE GatherOne(h[k - 1], sets[k], min + (k) - 1)
    BY <2>4, <2>5
  <2>7. GatheredBy(h, m, sets, min, i + 1)
    BY <2>3, <2>6 DEF GatheredBy
  <2> QED BY <2>7
<1> HIDE DEF S
<1>3. Nat \subseteq S
  BY <1>1, <1>2, Induction
<1> QED BY <1>3 DEF S

(* It is what the search computes.                                          *)
LEMMA GatheredByIs ==
    ASSUME NEW m, NEW sets, NEW min, Len(sets) \in Nat
    PROVE  \E g : GatheredBy(g, m, sets, min, Len(sets)) /\ Gather(m, sets, min) = g[Len(sets)]
<1> DEFINE g == CHOOSE g : g = [k \in 0 .. Len(sets) |-> IF k = 0 THEN m ELSE GatherOne(g[k - 1], sets[k], min + (k) - 1)]
<1>1. PICK h : GatheredBy(h, m, sets, min, Len(sets))
  BY GatheredByExists
<1>2. GatheredBy(g, m, sets, min, Len(sets))
  BY <1>1 DEF GatheredBy
<1>3. Gather(m, sets, min) = g[Len(sets)]
  BY DEF Gather
<1> QED BY <1>2, <1>3

(* They end up one after the other from lo on, whatever they were before.   *)
LEMMA GatherOk ==
    ASSUME NEW sets, WellSets(sets), NEW lo \in Cell, NEW hi \in Cell,
           hi - lo + 1 >= Len(sets), NEW m, Gathering(m, sets, 0, lo, hi),
           NEW o, NEW D, Continued(o, m, D)
    PROVE  /\ Gathering(Gather(m, sets, lo), sets, Len(sets), lo, hi)
           /\ Gather(m, sets, lo).rs_idx = m.rs_idx
           /\ Continued(o, Gather(m, sets, lo), D)
<1> DEFINE N == Len(sets)
<1>1. N \in Nat
  BY SetsType
<1>2. PICK g : GatheredBy(g, m, sets, lo, N) /\ Gather(m, sets, lo) = g[N]
  BY <1>1, GatheredByIs
<1>3. g[0] = m /\ \A k \in 1 .. N : g[k] = GatherOne(g[k - 1], sets[k], lo + k - 1)
  BY <1>1, <1>2, GatheredByAt
<1> DEFINE S == {k \in Nat : k <= N => /\ Gathering(g[k], sets, k, lo, hi)
                                       /\ g[k].rs_idx = m.rs_idx
                                       /\ Continued(o, g[k], D)}
<1>4. 0 \in S
  BY <1>3
<1>5. ASSUME NEW i \in Nat, i \in S PROVE i + 1 \in S
  <2> SUFFICES ASSUME i + 1 <= N
               PROVE  /\ Gathering(g[i + 1], sets, i + 1, lo, hi)
                      /\ g[i + 1].rs_idx = m.rs_idx
                      /\ Continued(o, g[i + 1], D)
    OBVIOUS
  <2>1. PICK k \in 1 .. N : k = i + 1 /\ k - 1 = i
    BY <1>1
  <2>2. PICK p : p = g[k - 1]
    OBVIOUS
  <2>3. Gathering(p, sets, k - 1, lo, hi) /\ p.rs_idx = m.rs_idx /\ Continued(o, p, D)
    BY <1>1, <1>5, <2>1, <2>2
  <2>4. PICK b \in lo .. hi : b = lo + k - 1
    BY CellsAndSequences, <1>1
  <2>5. g[k] = GatherOne(p, sets[k], b)
    BY <1>3, <2>2, <2>4
  <2> HIDE DEF N, S
  <2>6. k \in 1 .. Len(sets)
    BY DEF N
  <2>7. /\ Gathering(GatherOne(p, sets[k], b), sets, k, lo, hi)
        /\ GatherOne(p, sets[k], b).rs_idx = p.rs_idx
        /\ \E a \in Cell : Swapped(p, GatherOne(p, sets[k], b), a, b)
    BY <2>3, <2>4, <2>6, GatherStep
  <2>8. Continued(o, GatherOne(p, sets[k], b), D)
    <3>1. p \in Memory /\ b \in Cell
      BY <2>3, <2>4, CellsAndSequences DEF Gathering, Cell
    <3> QED BY <2>3, <2>7, <3>1, SwapContinues
  <2> QED BY <2>1, <2>3, <2>5, <2>7, <2>8
<1> HIDE DEF S
<1>6. Nat \subseteq S
  BY <1>4, <1>5, Induction
<1>7. Gathering(g[N], sets, N, lo, hi) /\ g[N].rs_idx = m.rs_idx /\ Continued(o, g[N], D)
  BY <1>1, <1>6 DEF S
<1> QED BY <1>2, <1>7

-----------------------------------------------------------------------------
(* find_slot hands the cells over.                                          *)

WellUbatch(ub) == WellSets(ub.sets) /\ \A k \in 1 .. Len(ub.sets) : ub.last[k] \in Nat

SeatCells(m, ub, lo) == [i \in Cell |->
    IF i - lo + 1 \in DOMAIN ub.sets
    THEN [m.cells[i] EXCEPT !.pos = ub.last[i - lo + 1], !.seqs = ub.sets[i - lo + 1]]
    ELSE m.cells[i]]

SeatTails(m, ub, lo) == [s \in SeqId |->
    IF s \in UNION Range(ub.sets) THEN lo - 1 + (CHOOSE j \in DOMAIN ub.sets : s \in ub.sets[j])
    ELSE m.tail[s]]

(* Seating changes cells and tails only.                                    *)
LEMMA SeatIs ==
    ASSUME NEW m, NEW ub, NEW lo
    PROVE  Seat(m, ub, lo) = [m EXCEPT !.cells = SeatCells(m, ub, lo), !.tail = SeatTails(m, ub, lo)]
BY DEF Seat, SeatCells, SeatTails

(* The cells after the seating.                                             *)
LEMMA SeatCellsIs ==
    ASSUME NEW ub, WellUbatch(ub), NEW lo \in Cell, NEW m \in Memory
    PROVE  /\ SeatCells(m, ub, lo) \in [Cell -> CellRec]
           /\ \A i \in Cell :
                /\ SeatCells(m, ub, lo)[i].src = m.cells[i].src
                /\ i - lo + 1 \in 1 .. Len(ub.sets) =>
                     /\ SeatCells(m, ub, lo)[i].seqs = ub.sets[i - lo + 1]
                     /\ SeatCells(m, ub, lo)[i].pos = ub.last[i - lo + 1]
                     /\ SeatCells(m, ub, lo)[i].pos \in Nat
                /\ i - lo + 1 \notin 1 .. Len(ub.sets) => SeatCells(m, ub, lo)[i] = m.cells[i]
<1> DEFINE cs == SeatCells(m, ub, lo)
<1>1. DOMAIN ub.sets = 1 .. Len(ub.sets) /\ \A k \in 1 .. Len(ub.sets) : ub.last[k] \in Nat /\ ub.sets[k] \in SUBSET SeqId
  BY SetsType DEF WellUbatch
<1>2. ASSUME NEW i \in Cell
      PROVE  /\ cs[i] \in CellRec /\ cs[i].src = m.cells[i].src
             /\ i - lo + 1 \in 1 .. Len(ub.sets) =>
                  /\ cs[i].seqs = ub.sets[i - lo + 1]
                  /\ cs[i].pos = ub.last[i - lo + 1] /\ cs[i].pos \in Nat
             /\ i - lo + 1 \notin 1 .. Len(ub.sets) => cs[i] = m.cells[i]
  <2>1. PICK c \in CellRec : c = m.cells[i]
    BY CellFields
  <2>2. CASE i - lo + 1 \in 1 .. Len(ub.sets)
    <3>1. PICK k \in 1 .. Len(ub.sets) : k = i - lo + 1
      BY <2>2
    <3>2. PICK x \in Int, N \in SUBSET SeqId : x = ub.last[k] /\ N = ub.sets[k] /\ x \in Nat
      BY <1>1
    <3>3. cs[i] = [c EXCEPT !.pos = x, !.seqs = N]
      BY <1>1, <2>1, <3>1, <3>2 DEF SeatCells
    <3>4. cs[i] \in CellRec /\ cs[i].src = c.src /\ cs[i].seqs = N /\ cs[i].pos = x
      <4> HIDE DEF cs
      <4> QED BY <3>3 DEF CellRec
    <3> QED BY <2>1, <2>2, <3>1, <3>2, <3>4
  <2>3. CASE i - lo + 1 \notin 1 .. Len(ub.sets)
    <3>1. cs[i] = c
      BY <1>1, <2>1, <2>3 DEF SeatCells
    <3> QED BY <2>1, <2>3, <3>1
  <2> QED BY <2>2, <2>3
<1>3. cs = [i \in Cell |-> cs[i]]
  BY DEF SeatCells
<1> HIDE DEF cs
<1>4. cs \in [Cell -> CellRec]
  BY <1>2, <1>3
<1> QED BY <1>2, <1>4 DEF cs

(* The tails after the seating.                                             *)
LEMMA SeatTailsIs ==
    ASSUME NEW ub, WellUbatch(ub), NEW lo \in Cell, NEW m \in Memory, lo + Len(ub.sets) <= NSeq
    PROVE  /\ SeatTails(m, ub, lo) \in Tails
           /\ \A k \in 1 .. Len(ub.sets) : \A s \in ub.sets[k] : SeatTails(m, ub, lo)[s] = lo + k - 1
           /\ \A s \in SeqId : s \notin UNION Range(ub.sets) => SeatTails(m, ub, lo)[s] = m.tail[s]
<1> DEFINE ts == SeatTails(m, ub, lo)
           moved == UNION Range(ub.sets)
<1>1. /\ DOMAIN ub.sets = 1 .. Len(ub.sets) /\ WellSets(ub.sets) /\ Len(ub.sets) \in Nat
      /\ \A k \in 1 .. Len(ub.sets) : ub.sets[k] \subseteq SeqId
  BY SetsType DEF WellUbatch
<1>2. \A s : s \in moved <=> \E k \in 1 .. Len(ub.sets) : s \in ub.sets[k]
  BY <1>1, JoinedIs
<1>3. ASSUME NEW k \in 1 .. Len(ub.sets), NEW s \in ub.sets[k]
      PROVE  ts[s] = lo + k - 1 /\ lo + k - 1 \in Cell
  <2>1. s \in moved /\ s \in SeqId
    BY <1>1, <1>2
  <2>2. ts[s] = lo - 1 + (CHOOSE j \in 1 .. Len(ub.sets) : s \in ub.sets[j])
    BY <1>1, <2>1 DEF SeatTails
  <2>3. \A j \in 1 .. Len(ub.sets) : s \in ub.sets[j] <=> j = k
    BY <1>1 DEF WellSets
  <2>4. (CHOOSE j \in 1 .. Len(ub.sets) : s \in ub.sets[j]) = k
    BY <2>3
  <2>5. ts[s] = lo - 1 + k
    BY <2>2, <2>4
  <2> QED BY <1>1, <2>5, CellsAndSequences DEF Cell
<1>4. \A s \in SeqId : s \notin moved => ts[s] = m.tail[s]
  BY DEF SeatTails
<1>5. ts \in Tails
  <2>1. ts = [s \in SeqId |-> ts[s]]
    BY DEF SeatTails
  <2>2. \A s \in SeqId : m.tail[s] \in Cell \cup {-1}
    BY DEF Memory, Tails
  <2> HIDE DEF ts, moved
  <2>3. ASSUME NEW s \in SeqId PROVE ts[s] \in Cell \cup {-1}
    BY <1>2, <1>3, <1>4, <2>2
  <2> QED BY <2>1, <2>3 DEF Tails
<1> HIDE DEF ts
<1> QED BY <1>3, <1>4, <1>5 DEF ts

(* Cells and tails after the seating.                                       *)
LEMMA SeatGives ==
    ASSUME NEW ub, WellUbatch(ub), NEW lo \in Cell, NEW m \in Memory, lo + Len(ub.sets) <= NSeq
    PROVE  /\ Seat(m, ub, lo).cells = SeatCells(m, ub, lo)
           /\ Seat(m, ub, lo).tail = SeatTails(m, ub, lo)
<1>1. SeatCells(m, ub, lo) \in [Cell -> CellRec] /\ SeatTails(m, ub, lo) \in Tails
  BY SeatCellsIs, SeatTailsIs
<1>2. Seat(m, ub, lo) = [m EXCEPT !.cells = SeatCells(m, ub, lo), !.tail = SeatTails(m, ub, lo)]
  BY SeatIs
<1> QED BY <1>1, <1>2 DEF Memory

(* Cells, tails and positions agree again.                                  *)
Seated(m, q) ==
    /\ q \in Memory
    /\ Agree(q.cells, q.tail, {})
    /\ Dated(q.cells)
    /\ \A i \in Cell : q.cells[i].src = m.cells[i].src
    /\ q.rs_idx = m.rs_idx

(* Once every set is in its place, cells and tails agree again.             *)
LEMMA SeatOk ==
    ASSUME NEW ub, WellUbatch(ub), NEW lo \in Cell, NEW hi \in Cell,
           hi - lo + 1 >= Len(ub.sets), NEW m, Gathering(m, ub.sets, Len(ub.sets), lo, hi)
    PROVE  Seated(m, Seat(m, ub, lo))
<1> DEFINE q == Seat(m, ub, lo)
           cs == SeatCells(m, ub, lo)
           ts == SeatTails(m, ub, lo)
           sets == ub.sets
           N == Len(sets)
           D == Mains(sets, N)
<1>1. /\ m \in Memory
      /\ Agree(m.cells, m.tail, D)
      /\ Dated(m.cells)
      /\ Owned(m.tail, D)
      /\ \A s \in Joined(sets) : m.tail[s] = -1
      /\ \A k \in 1 .. N : m.tail[Main(sets[k])] = lo + k - 1
  BY DEF Gathering
<1>2. WellSets(sets) /\ N \in Nat /\ lo + N <= NSeq
  <2>1. WellSets(sets) /\ N \in Nat
    BY SetsType DEF WellUbatch
  <2> QED BY <2>1, CellsAndSequences DEF Cell
<1>3. /\ cs \in [Cell -> CellRec]
      /\ \A i \in Cell :
           /\ cs[i].src = m.cells[i].src
           /\ i - lo + 1 \in 1 .. N => cs[i].seqs = sets[i - lo + 1] /\ cs[i].pos \in Nat
           /\ i - lo + 1 \notin 1 .. N => cs[i] = m.cells[i]
  BY <1>1, SeatCellsIs
<1>4. /\ ts \in Tails
      /\ \A k \in 1 .. N : \A s \in sets[k] : ts[s] = lo + k - 1
      /\ \A s \in SeqId : s \notin UNION Range(sets) => ts[s] = m.tail[s]
  BY <1>1, <1>2, SeatTailsIs
<1>5. q = [m EXCEPT !.cells = cs, !.tail = ts]
  BY SeatIs
<1>6. /\ \A s : s \in UNION Range(sets) <=> \E k \in 1 .. N : s \in sets[k]
      /\ \A s : s \in Joined(sets) <=> \E k \in 1 .. N : s \in sets[k] \ {Main(sets[k])}
      /\ \A k \in 1 .. N : sets[k] \subseteq SeqId /\ Main(sets[k]) \in sets[k] /\ sets[k] # {}
  BY <1>2, JoinedIs, SetsType
<1> HIDE DEF q, cs, ts, sets, N
<1>7. q \in Memory /\ q.cells = cs /\ q.tail = ts /\ q.rs_idx = m.rs_idx
  BY <1>1, <1>3, <1>4, <1>5 DEF Memory
<1>8. ASSUME NEW i \in Cell, i - lo + 1 \in 1 .. N
      PROVE  cs[i].seqs = Held(ts, i) /\ cs[i].seqs # {} /\ cs[i].pos >= 0
  <2>1. PICK k \in 1 .. N : k = i - lo + 1 /\ i = lo + k - 1
    BY <1>8, CellsAndSequences
  <2>2. cs[i].seqs = sets[k] /\ cs[i].pos \in Nat
    BY <1>3, <2>1
  <2>3. ASSUME NEW s \in SeqId, ts[s] = i PROVE s \in sets[k]
    <3>1. CASE \E j \in 1 .. N : s \in sets[j]
      <4>1. PICK j \in 1 .. N : s \in sets[j]
        BY <3>1
      <4>2. lo + j - 1 = lo + k - 1
        BY <1>4, <2>1, <2>3, <4>1
      <4>3. j = k
        BY <1>2, <4>2, CellsAndSequences
      <4> QED BY <4>1, <4>3
    <3>2. CASE ~ \E j \in 1 .. N : s \in sets[j]
      <4>1. m.tail[s] = i
        BY <1>4, <1>6, <2>3, <3>2
      <4>2. Main(sets[k]) \in D /\ m.tail[Main(sets[k])] = i
        BY <1>1, <2>1 DEF Mains
      <4>3. Held(m.tail, i) = {Main(sets[k])}
        BY <1>1, <4>2 DEF Owned
      <4>4. s = Main(sets[k])
        BY <4>1, <4>3 DEF Held
      <4> QED BY <1>6, <4>4
    <3> QED BY <3>1, <3>2
  <2>4. sets[k] = Held(ts, i)
    BY <1>4, <1>6, <2>1, <2>3 DEF Held
  <2> QED BY <1>6, <2>2, <2>4
<1>9. ASSUME NEW i \in Cell, i - lo + 1 \notin 1 .. N
      PROVE  cs[i].seqs = Held(ts, i)
  <2>1. cs[i] = m.cells[i]
    BY <1>3, <1>9
  <2>2. \A k \in 1 .. N : lo + k - 1 # i
    BY <1>9, CellsAndSequences
  <2>3. ~ \E d \in D : Held(m.tail, i) = {d}
    <3> SUFFICES ASSUME NEW d \in D, Held(m.tail, i) = {d} PROVE FALSE
      OBVIOUS
    <3>1. PICK k \in 1 .. N : d = Main(sets[k])
      BY DEF Mains
    <3>2. m.tail[d] = i
      BY DEF Held
    <3> QED BY <1>1, <2>2, <3>1, <3>2
  <2>4. m.cells[i].seqs = Held(m.tail, i)
    BY <1>1, <2>3 DEF Agree
  <2>5. ASSUME NEW s \in SeqId PROVE ts[s] = i <=> m.tail[s] = i
    <3>1. CASE \E j \in 1 .. N : s \in sets[j]
      <4>1. PICK j \in 1 .. N : s \in sets[j]
        BY <3>1
      <4>2. ts[s] # i
        BY <1>4, <2>2, <4>1
      <4>3. CASE s = Main(sets[j])
        BY <1>1, <2>2, <4>2, <4>3
      <4>4. CASE s # Main(sets[j])
        <5>1. m.tail[s] = -1
          BY <1>1, <1>6, <4>1, <4>4
        <5> QED BY <4>2, <5>1, CellsAndSequences
      <4> QED BY <4>3, <4>4
    <3>2. CASE ~ \E j \in 1 .. N : s \in sets[j]
      BY <1>4, <1>6, <3>2
    <3> QED BY <3>1, <3>2
  <2>6. Held(ts, i) = Held(m.tail, i)
    BY <2>5 DEF Held
  <2> QED BY <2>1, <2>4, <2>6
<1>10. Agree(cs, ts, {})
  BY <1>8, <1>9 DEF Agree
<1>11. Dated(cs)
  <2> SUFFICES ASSUME NEW i \in Cell PROVE cs[i].seqs = {} <=> cs[i].pos < 0
    BY DEF Dated
  <2>1. CASE i - lo + 1 \in 1 .. N
    <3>1. cs[i].pos \in Nat
      BY <1>3, <2>1
    <3> QED BY <1>8, <2>1, <3>1
  <2>2. CASE i - lo + 1 \notin 1 .. N
    BY <1>1, <1>3, <2>2 DEF Dated
  <2> QED BY <2>1, <2>2
<1>12. Seated(m, q)
  BY <1>3, <1>7, <1>10, <1>11 DEF Seated
<1> QED BY <1>12 DEF q

-----------------------------------------------------------------------------
(* find_slot stages where the cells of the range take their states from.    *)

Drawn(m, q, lo, hi) ==
    /\ q \in Memory
    /\ \A i \in Cell : /\ q.cells[i].seqs = m.cells[i].seqs
                       /\ q.cells[i].pos = m.cells[i].pos
                       /\ q.cells[i].src = IF i \in lo .. hi THEN i ELSE m.cells[i].src
    /\ q.tail = m.tail
    /\ q.rs_idx = m.rs_idx
    /\ q.rs_z \in (lo .. hi) \cup {-1}
    /\ \A i \in Cell : m.cells[i].src # q.rs_z \/ q.rs_z = -1
    /\ \A i \in Cell : i \in lo .. hi =>
         q.cells[i].src0 = IF m.cells[i].src < 0 THEN q.rs_z ELSE m.cells[i].src

(* What choosing the sources changes.                                       *)
LEMMA SourceIs ==
    ASSUME NEW m \in Memory, NEW lo \in Cell, NEW hi \in Cell
    PROVE  Drawn(m, Source(m, lo, hi), lo, hi)
<1> DEFINE free == {i \in lo .. hi : i \notin {m.cells[j].src : j \in Cell}}
           q == Source(m, lo, hi)
<1>1. PICK z \in Cell \cup {-1} : z = IF free = {} THEN -1 ELSE Min(free)
  <2>1. free # {} => Min(free) \in Cell /\ Min(free) \in free
    <3>1. free \subseteq Cell /\ free \subseteq Nat
      BY CellsAndSequences DEF Cell
    <3> QED BY <3>1, MinIs
  <2>2. PICK y : y = IF free = {} THEN -1 ELSE Min(free)
    OBVIOUS
  <2>3. y \in Cell \cup {-1}
    BY <2>1, <2>2
  <2> QED BY <2>2, <2>3
<1> DEFINE src0(i) == IF m.cells[i].src < 0 THEN z ELSE m.cells[i].src
           cs == [i \in Cell |-> IF i \notin lo .. hi THEN m.cells[i]
                                 ELSE [m.cells[i] EXCEPT !.src0 = src0(i), !.src = i]]
<1>2. q = [m EXCEPT !.cells = cs, !.rs_z = z]
  BY <1>1 DEF Source
<1>3. ASSUME NEW i \in Cell
      PROVE  /\ cs[i] \in CellRec
             /\ cs[i].seqs = m.cells[i].seqs
             /\ cs[i].pos = m.cells[i].pos
             /\ cs[i].src = IF i \in lo .. hi THEN i ELSE m.cells[i].src
             /\ i \in lo .. hi => cs[i].src0 = src0(i)
  <2>1. PICK c \in CellRec : c = m.cells[i]
    BY CellFields
  <2>2. PICK x \in Cell \cup {-1} : x = src0(i)
    BY CellFields
  <2>3. CASE i \in lo .. hi
    <3>1. cs[i] = [c EXCEPT !.src0 = x, !.src = i]
      BY <2>1, <2>2, <2>3
    <3> HIDE DEF cs
    <3>2. cs[i] \in CellRec /\ cs[i].seqs = c.seqs /\ cs[i].pos = c.pos /\ cs[i].src = i /\ cs[i].src0 = x
      BY <3>1 DEF CellRec
    <3> QED BY <2>1, <2>2, <2>3, <3>2
  <2>4. CASE i \notin lo .. hi
    BY <2>1, <2>4
  <2> QED BY <2>3, <2>4
<1>4. cs = [i \in Cell |-> cs[i]]
  OBVIOUS
<1> HIDE DEF cs, q
<1>5. cs \in [Cell -> CellRec] /\ z \in Int
  BY <1>3, <1>4, CellsAndSequences
<1>6. q \in Memory /\ q.cells = cs /\ q.tail = m.tail /\ q.rs_idx = m.rs_idx /\ q.rs_z = z
  BY <1>2, <1>5 DEF Memory
<1>7. z \in (lo .. hi) \cup {-1} /\ \A i \in Cell : m.cells[i].src # z \/ z = -1
  <2>1. free # {} => Min(free) \in free
    <3>1. free \subseteq Nat
      BY CellsAndSequences DEF Cell
    <3> QED BY <3>1, MinIs
  <2>2. z = -1 \/ z \in free
    BY <1>1, <2>1
  <2> QED BY <2>2
<1>8. Drawn(m, q, lo, hi)
  BY <1>3, <1>6, <1>7 DEF Drawn
<1> QED BY <1>8 DEF q

(* A cell that starts anew finds a row that nobody needs.                   *)
LEMMA ZeroRow ==
    ASSUME NEW m \in Memory, NEW lo \in Cell, NEW hi \in Cell,
           \A i \in Cell \ (lo .. hi) : m.cells[i].src \in {-1, i},
           NEW y \in lo .. hi, m.cells[y].src < 0
    PROVE  Source(m, lo, hi).rs_z >= 0
<1> DEFINE free == {i \in lo .. hi : i \notin {m.cells[j].src : j \in Cell}}
           src == [i \in lo .. hi |-> m.cells[i].src]
<1>1. lo .. hi \in SUBSET Cell
  BY CellsAndSequences DEF Cell
<1>2. src \in [lo .. hi -> Cell \cup {-1}]
  BY <1>1, CellFields
<1>3. src[y] = -1
  <2>1. y \in Cell
    BY <1>1
  <2>2. PICK x \in Cell \cup {-1} : x = m.cells[y].src
    BY <2>1, CellFields
  <2>3. x < 0 => x \notin Cell
    BY CellsAndSequences
  <2>4. m.cells[y].src = -1
    BY <2>2, <2>3
  <2> QED BY <2>4
<1>4. PICK R : R = lo .. hi
  OBVIOUS
<1>5. PICK e \in lo .. hi : \A i \in lo .. hi : src[i] # e
  <2> HIDE DEF src
  <2>1. R \in SUBSET Cell /\ src \in [R -> Cell \cup {-1}] /\ y \in R
    BY <1>1, <1>2, <1>4
  <2>2. \E e \in R : \A i \in R : src[i] # e
    BY <1>3, <2>1, SourceLeft
  <2> QED BY <1>4, <2>2
<1>6. e \in free
  <2> SUFFICES ASSUME NEW j \in Cell, m.cells[j].src = e PROVE FALSE
    OBVIOUS
  <2>1. CASE j \in lo .. hi
    BY <1>5, <2>1
  <2>2. CASE j \notin lo .. hi
    <3>1. e \in {-1, j} /\ e \in Cell
      BY <1>1, <2>2
    <3> QED BY <2>2, <3>1, CellsAndSequences
  <2> QED BY <2>1, <2>2
<1>7. Min(free) \in free /\ free \subseteq Nat
  <2>1. free \subseteq Nat
    BY <1>1, CellsAndSequences
  <2> QED BY <1>6, <2>1, MinIs
<1>8. Source(m, lo, hi).rs_z = Min(free)
  <2>1. PICK z, cs : /\ z = Min(free)
                     /\ Source(m, lo, hi) = [[m EXCEPT !.cells = cs] EXCEPT !.rs_z = z]
    BY <1>6 DEF Source
  <2> QED BY <2>1 DEF Memory
<1> HIDE DEF free
<1>9. Min(free) >= 0
  <2>1. PICK x \in Nat : x = Min(free)
    BY <1>7
  <2> QED BY <2>1
<1> QED BY <1>8, <1>9

-----------------------------------------------------------------------------
(* find_slot as a whole.                                                    *)

MainTails(m, sets) == {m.tail[Main(ids)] : ids \in Range(sets)}

(* The cells the sequence sets were given span a range that holds them.     *)
LEMMA SpanIs ==
    ASSUME NEW sets, WellSets(sets), NEW m, Shared(m, Mains(sets, Len(sets)), Joined(sets))
    PROVE  /\ Min(MainTails(m, sets)) \in Cell
           /\ Max(MainTails(m, sets)) \in Cell
           /\ Max(MainTails(m, sets)) - Min(MainTails(m, sets)) + 1 >= Len(sets)
           /\ Gathering(m, sets, 0, Min(MainTails(m, sets)), Max(MainTails(m, sets)))
           /\ Len(sets) = 1 => Min(MainTails(m, sets)) = Max(MainTails(m, sets))
<1> DEFINE D == Mains(sets, Len(sets))
           T == MainTails(m, sets)
           N == Len(sets)
<1>1. /\ m \in Memory /\ Agree(m.cells, m.tail, D) /\ Dated(m.cells) /\ Owned(m.tail, D)
      /\ \A s \in Joined(sets) : m.tail[s] = -1
      /\ \A i \in Cell : m.cells[i].src \in {-1, i} \/ \E d \in D : m.tail[d] = i
  BY DEF Shared
<1>2. /\ N \in Nat /\ N > 0 /\ DOMAIN sets = 1 .. N
      /\ \A k \in 1 .. N : Main(sets[k]) \in sets[k] /\ Main(sets[k]) \in D
  BY SetsType DEF WellSets, Mains
<1>3. T = {m.tail[Main(sets[k])] : k \in 1 .. N}
  <2>1. Range(sets) = {sets[k] : k \in 1 .. N}
    BY <1>2 DEF Range
  <2> QED BY <2>1 DEF MainTails
<1> HIDE DEF T, N
<1>4. \A k \in 1 .. N : m.tail[Main(sets[k])] \in Cell /\ m.tail[Main(sets[k])] \in T
  BY <1>1, <1>2, <1>3 DEF Owned
<1>5. T \subseteq Cell /\ T # {}
  BY <1>2, <1>3, <1>4
<1>6. T \subseteq Nat /\ NSeq - 1 \in Nat /\ T \subseteq 0 .. NSeq - 1
  BY <1>5, CellsAndSequences DEF Cell
<1>7. PICK lo, hi : lo = Min(T) /\ hi = Max(T)
  OBVIOUS
<1>8. lo \in T /\ \A x \in T : lo <= x
  BY <1>5, <1>6, <1>7, MinIs
<1>9. hi \in T /\ \A x \in T : hi >= x
  BY <1>5, <1>6, <1>7, MaxIs
<1>10. lo \in Cell /\ hi \in Cell /\ lo \in Nat /\ hi \in Nat
  BY <1>5, <1>6, <1>8, <1>9
<1>11. \A k \in 1 .. N : m.tail[Main(sets[k])] \in lo .. hi
  <2> SUFFICES ASSUME NEW k \in 1 .. N PROVE m.tail[Main(sets[k])] \in lo .. hi
    OBVIOUS
  <2>1. PICK x \in T : x = m.tail[Main(sets[k])]
    BY <1>4
  <2>2. x \in Nat /\ lo <= x /\ hi >= x
    BY <1>6, <1>8, <1>9
  <2> QED BY <1>10, <2>1, <2>2
<1>12. hi - lo + 1 >= N
  <2> DEFINE f == [k \in 1 .. N |-> m.tail[Main(sets[k])]]
  <2>1. f \in [1 .. N -> lo .. hi]
    BY <1>11
  <2>2. ASSUME NEW j \in 1 .. N, NEW k \in 1 .. N, f[j] = f[k] PROVE j = k
    <3>1. m.tail[Main(sets[j])] = m.tail[Main(sets[k])]
      BY <2>2
    <3>2. /\ Held(m.tail, m.tail[Main(sets[j])]) = {Main(sets[j])}
          /\ Held(m.tail, m.tail[Main(sets[k])]) = {Main(sets[k])}
      BY <1>1, <1>2 DEF Owned
    <3>3. Main(sets[j]) = Main(sets[k])
      BY <3>1, <3>2
    <3>4. Main(sets[j]) \in sets[k]
      BY <1>2, <3>3
    <3> QED BY <3>4, MainOnce DEF N
  <2>3. f \in Injection(1 .. N, lo .. hi)
    BY <2>1, <2>2 DEF Injection, IsInjective
  <2>4. IsFiniteSet(lo .. hi) /\ Cardinality(lo .. hi) = IF lo > hi THEN 0 ELSE hi - lo + 1
    BY <1>10, FS_Interval
  <2>5. Cardinality(1 .. N) = N
    <3>1. 1 \in Int /\ N \in Int
      BY <1>2
    <3>2. Cardinality(1 .. N) = IF 1 > N THEN 0 ELSE N - 1 + 1
      BY <3>1, FS_Interval
    <3> QED BY <1>2, <3>2
  <2> HIDE DEF f
  <2>6. Cardinality(1 .. N) <= Cardinality(lo .. hi)
    BY <2>3, <2>4, FS_Injection
  <2> QED BY <1>2, <1>8, <1>9, <1>10, <2>4, <2>5, <2>6
<1>13. \A i \in Cell \ (lo .. hi) : m.cells[i].src \in {-1, i}
  <2> SUFFICES ASSUME NEW i \in Cell \ (lo .. hi), NEW d \in D, m.tail[d] = i PROVE FALSE
    BY <1>1
  <2>1. PICK k \in 1 .. N : d = Main(sets[k])
    BY DEF Mains, N
  <2> QED BY <1>11, <2>1
<1>14. Gathering(m, sets, 0, lo, hi)
  BY <1>1, <1>11, <1>13 DEF Gathering, N
<1>15. ASSUME N = 1 PROVE lo = hi
  <2>1. \A k \in 1 .. N : k = 1
    BY <1>15
  <2> QED BY <1>3, <1>8, <1>9, <2>1
<1> QED BY <1>7, <1>10, <1>12, <1>14, <1>15 DEF T, N

(* The search may begin at the first cell instead.                          *)
LEMMA HeadReset ==
    ASSUME NEW m, Sane(m), NEW n, NEW q, q = [m EXCEPT !.head = IF @ > n THEN 0 ELSE @]
    PROVE  Sane(q) /\ q.rs_idx = m.rs_idx /\ q.cells = m.cells /\ q.tail = m.tail
<1>1. PICK h \in Cell : h = IF m.head > n THEN 0 ELSE m.head
  BY CellsAndSequences DEF Sane, Memory
<1>2. q = [m EXCEPT !.head = h]
  BY <1>1
<1>3. q \in Memory /\ q.cells = m.cells /\ q.tail = m.tail /\ q.used = m.used /\ q.rs_idx = m.rs_idx
  BY <1>2 DEF Sane, Memory
<1> QED BY <1>3 DEF Sane

(* In the memory b the sequences of S have left the cells they had in m. *)
Left(m, b, S) ==
    /\ \A i \in Cell :
         /\ b.cells[i].seqs = m.cells[i].seqs \ S
         /\ b.cells[i].pos = IF i \in Gone(m, S) THEN -1 ELSE m.cells[i].pos
         /\ b.cells[i].src = IF i \in Gone(m, S) THEN -1 ELSE m.cells[i].src
    /\ b.tail = [s \in SeqId |-> IF s \in S THEN -1 ELSE m.tail[s]]

(* The sequences of a set but its first have left their cells.              *)
LEMMA JoinedLeave ==
    ASSUME NEW m, Sane(m), NEW sets, WellSets(sets)
    PROVE  /\ Sane(Leave(m, Joined(sets)))
           /\ \A s \in Joined(sets) : Leave(m, Joined(sets)).tail[s] = -1
           /\ Leave(m, Joined(sets)).rs_idx = m.rs_idx
           /\ Left(m, Leave(m, Joined(sets)), Joined(sets))
<1>1. PICK J \in SUBSET SeqId : J = Joined(sets)
  BY JoinedIs
<1>2. m \in Memory
  BY DEF Sane
<1>3. Leave(m, J).tail = [s \in SeqId |-> IF s \in J THEN -1 ELSE m.tail[s]] /\ Leave(m, J).rs_idx = m.rs_idx
  BY <1>2, LeaveIs
<1>4. Sane(Leave(m, J))
  BY LeaveSane
<1>5. Left(m, Leave(m, J), J)
  BY <1>2, LeaveIs DEF Left
<1>6. \A s \in J : Leave(m, J).tail[s] = -1
  BY <1>3
<1> QED BY <1>1, <1>3, <1>4, <1>5, <1>6

(* What the search ends with. *)
Settle(m, lo, hi) == [m EXCEPT !.head = lo, !.n = hi - lo + 1, !.used = InUse(m.cells)]

(* What the search ends with is a memory between two calls.                 *)
LEMMA SettleSane ==
    ASSUME NEW m, NEW q, NEW r, NEW lo \in Cell, NEW hi \in Cell, Seated(m, q), Drawn(q, r, lo, hi),
           \A i \in Cell \ (lo .. hi) : m.cells[i].src \in {-1, i}
    PROVE  /\ Sane(Settle(r, lo, hi)) /\ Settle(r, lo, hi).rs_idx = m.rs_idx
           /\ Settle(r, lo, hi).cells = r.cells /\ Settle(r, lo, hi).tail = r.tail
           /\ Settle(r, lo, hi).head = lo /\ Settle(r, lo, hi).n = hi - lo + 1
           /\ Settle(r, lo, hi).rs_z = r.rs_z
<1> DEFINE z == Settle(r, lo, hi)
<1>1. hi - lo + 1 \in Int
  BY CellsAndSequences
<1>2. InUse(r.cells) \in Int
  <2>1. {i \in Cell : ~IsEmpty(r.cells[i])} \in SUBSET Cell
    OBVIOUS
  <2> QED BY <2>1, CellsAndSequences, FS_Subset, FS_CardinalityType DEF InUse
<1>3. PICK n \in Int, u \in Int : n = hi - lo + 1 /\ u = InUse(r.cells)
  BY <1>1, <1>2
<1>4. z = [r EXCEPT !.head = lo, !.n = n, !.used = u] /\ r \in Memory
  BY <1>3 DEF Settle, Drawn
<1> HIDE DEF z
<1>5. /\ z \in Memory /\ z.cells = r.cells /\ z.tail = r.tail /\ z.used = u /\ z.rs_idx = r.rs_idx
      /\ z.head = lo /\ z.n = n /\ z.rs_z = r.rs_z
  BY <1>4 DEF Memory
<1>6. /\ r.tail = q.tail
      /\ \A i \in Cell : r.cells[i].seqs = q.cells[i].seqs /\ r.cells[i].pos = q.cells[i].pos
      /\ r.rs_idx = m.rs_idx
  BY DEF Seated, Drawn
<1>7. Agree(r.cells, r.tail, {}) /\ Dated(r.cells)
  BY <1>6 DEF Seated, Agree, Dated
<1>8. OwnSources(r.cells)
  <2>1. \A i \in Cell : r.cells[i].src = IF i \in lo .. hi THEN i ELSE m.cells[i].src
    BY DEF Seated, Drawn
  <2> QED BY <2>1 DEF OwnSources
<1> QED BY <1>3, <1>5, <1>6, <1>7, <1>8 DEF Sane, z

(* The row x holds no state when it is read: the zeroed one, or a blank one. *)
Zeroed(b, r, x) == x \in Cell /\ (x = r.rs_z \/ Blank(b, x))

(* The cell i of r takes its state from where the memory b had that of s.   *)
Draws(b, r, i, s) ==
    IF b.tail[s] \in Cell
    THEN b.cells[b.tail[s]].src \in Cell => r.cells[i].src0 = b.cells[b.tail[s]].src
    ELSE Zeroed(b, r, r.cells[i].src0)

(* What find_slot has made of the memory b: where each cell of lo .. hi has *)
(* its state to come from, and that no other cell's state moves.            *)
Drew(b, r, ub, lo, hi) ==
    /\ lo \in Cell /\ hi \in Cell /\ hi - lo + 1 >= Len(ub.sets)
    /\ r.head = lo /\ r.n = hi - lo + 1
    /\ Len(ub.sets) = 1 => lo = hi
    /\ r.rs_idx = b.rs_idx
    /\ r.rs_z \in (lo .. hi) \cup {-1}
    /\ \A s \in Joined(ub.sets) : b.tail[s] = -1
    /\ \A k \in 1 .. Len(ub.sets) :
         /\ r.cells[lo + k - 1].seqs = ub.sets[k]
         /\ r.cells[lo + k - 1].pos = ub.last[k]
         /\ Draws(b, r, lo + k - 1, Main(ub.sets[k]))
         /\ \A s \in ub.sets[k] : r.tail[s] = lo + k - 1
    /\ \A s \in SeqId : b.tail[s] \in Cell =>
         r.rs_z = -1 \/ b.cells[b.tail[s]].src # r.rs_z
    /\ \A s \in SeqId : s \notin UNION Range(ub.sets) =>
         /\ r.tail[s] \in Cell <=> b.tail[s] \in Cell
         /\ r.tail[s] \in Cell =>
              /\ r.cells[r.tail[s]].pos = b.cells[b.tail[s]].pos
              /\ r.tail[s] \in lo .. hi => Draws(b, r, r.tail[s], s)
              /\ r.tail[s] \notin lo .. hi => r.cells[r.tail[s]].src = b.cells[b.tail[s]].src
    /\ \A i \in lo .. hi : r.cells[i].src = i
    /\ \A i \in Cell : r.cells[i].seqs = {} =>
         IF i \in lo .. hi THEN Zeroed(b, r, r.cells[i].src0) ELSE Blank(b, r.cells[i].src)

(* The sources the cells were given are the states they have taken along.   *)
LEMMA DrewSo ==
    ASSUME NEW ub, WellUbatch(ub), NEW lo \in Cell, NEW hi \in Cell,
           hi - lo + 1 >= Len(ub.sets), Len(ub.sets) = 1 => lo = hi,
           NEW b, Sane(b), \A s \in Joined(ub.sets) : b.tail[s] = -1,
           NEW g, Gathering(g, ub.sets, Len(ub.sets), lo, hi), g.rs_idx = b.rs_idx,
           Continued(b, g, Mains(ub.sets, Len(ub.sets))),
           NEW q, Seated(g, q), q.cells = SeatCells(g, ub, lo), q.tail = SeatTails(g, ub, lo),
           NEW d, Drawn(q, d, lo, hi), d.rs_z >= 0 \/ \A i \in lo .. hi : q.cells[i].src >= 0,
           NEW z, z.cells = d.cells, z.tail = d.tail, z.rs_idx = g.rs_idx,
           z.head = lo, z.n = hi - lo + 1, z.rs_z = d.rs_z
    PROVE  Drew(b, z, ub, lo, hi)
<1> DEFINE sets == ub.sets
           N == Len(sets)
           D == Mains(sets, N)
           own(i) == i - lo + 1 \in 1 .. N
<1>1. /\ WellSets(sets) /\ N \in Nat /\ g \in Memory /\ lo + N <= NSeq
      /\ lo .. hi \subseteq Cell /\ lo \in Int /\ hi \in Int
  <2>1. WellSets(sets) /\ N \in Nat /\ g \in Memory
    BY SetsType DEF WellUbatch, Gathering
  <2> QED BY <2>1, CellsAndSequences DEF Cell
<1>2. /\ \A k \in 1 .. N : Main(sets[k]) \in sets[k] /\ Main(sets[k]) \in D /\ sets[k] # {} /\ sets[k] \subseteq SeqId
      /\ \A x \in D : \E k \in 1 .. N : x = Main(sets[k])
      /\ \A x : x \in UNION Range(sets) <=> \E k \in 1 .. N : x \in sets[k]
  BY <1>1, SetsType, JoinedIs DEF Mains, WellSets
<1>3. /\ \A i \in Cell :
           /\ own(i) => q.cells[i].seqs = sets[i - lo + 1] /\ q.cells[i].pos = ub.last[i - lo + 1]
           /\ ~own(i) => q.cells[i] = g.cells[i]
      /\ \A k \in 1 .. N : \A x \in sets[k] : q.tail[x] = lo + k - 1
      /\ \A x \in SeqId : x \notin UNION Range(sets) => q.tail[x] = g.tail[x]
  BY <1>1, SeatCellsIs, SeatTailsIs
<1>4. \A i \in Cell :
        /\ z.cells[i].seqs = q.cells[i].seqs
        /\ z.cells[i].pos = q.cells[i].pos
        /\ z.cells[i].src = IF i \in lo .. hi THEN i ELSE g.cells[i].src
        /\ i \in lo .. hi => z.cells[i].src0 = IF g.cells[i].src < 0 THEN z.rs_z ELSE g.cells[i].src
        /\ g.cells[i].src # z.rs_z \/ z.rs_z = -1
        /\ q.cells[i].src = g.cells[i].src
  BY DEF Seated, Drawn
<1>5. z.tail = q.tail /\ z.rs_z \in (lo .. hi) \cup {-1}
  BY DEF Drawn
<1>6. /\ Agree(g.cells, g.tail, D) /\ Owned(g.tail, D)
      /\ \A k \in 1 .. N : g.tail[Main(sets[k])] = lo + k - 1
      /\ \A x \in SeqId : g.tail[x] \in Cell => TakenOver(b, g.cells[g.tail[x]], x)
      /\ \A i \in Cell : Held(g.tail, i) = {} => Blank(b, g.cells[i].src)
      /\ \A x \in SeqId \ D : g.tail[x] \in Cell <=> b.tail[x] \in Cell
  BY DEF Gathering, Continued
<1> HIDE DEF N, D, sets
<1>7. ASSUME NEW i \in lo .. hi
      PROVE  IF g.cells[i].src \in Cell THEN z.cells[i].src0 = g.cells[i].src
             ELSE g.cells[i].src = -1 /\ z.cells[i].src0 = z.rs_z /\ z.rs_z \in Cell
  <2>1. i \in Cell
    BY <1>1
  <2>2. PICK x \in Cell \cup {-1} : x = g.cells[i].src
    BY <1>1, <2>1, CellFields
  <2>3. (x \in Cell => ~(x < 0)) /\ (x = -1 => x < 0 /\ ~(x >= 0) /\ x \notin Cell)
    BY CellsAndSequences
  <2>4. x = -1 => z.rs_z \in Cell
    <3> SUFFICES ASSUME x = -1 PROVE z.rs_z \in Cell
      OBVIOUS
    <3>1. z.rs_z >= 0
      BY <1>4, <2>1, <2>2, <2>3
    <3>2. z.rs_z # -1
      BY <3>1
    <3> QED BY <1>1, <1>5, <3>2
  <2> QED BY <1>4, <2>1, <2>2, <2>3, <2>4
<1>8. ASSUME NEW i \in lo .. hi, Blank(b, g.cells[i].src) PROVE Zeroed(b, z, z.cells[i].src0)
  BY <1>7, <1>8 DEF Zeroed
<1>9. ASSUME NEW s \in SeqId, g.tail[s] \in lo .. hi PROVE Draws(b, z, g.tail[s], s)
  <2>1. TakenOver(b, g.cells[g.tail[s]], s)
    BY <1>1, <1>6, <1>9
  <2>2. CASE b.tail[s] \in Cell
    BY <1>7, <1>9, <2>1, <2>2 DEF Draws, TakenOver
  <2>3. CASE b.tail[s] \notin Cell
    BY <1>8, <1>9, <2>1, <2>3 DEF Draws, TakenOver
  <2> QED BY <2>2, <2>3
<1>10. \A k \in 1 .. N : lo + k - 1 \in Cell /\ lo + k - 1 \in lo .. hi /\ own(lo + k - 1)
  <2>1. N <= hi - lo + 1
    BY DEF N, sets
  <2> QED BY <1>1, <2>1
<1>11. ASSUME NEW k \in 1 .. N
       PROVE  /\ z.cells[lo + k - 1].seqs = sets[k]
              /\ z.cells[lo + k - 1].pos = ub.last[k]
              /\ Draws(b, z, lo + k - 1, Main(sets[k]))
              /\ \A s \in sets[k] : z.tail[s] = lo + k - 1
  <2>1. PICK i \in Cell : i = lo + k - 1 /\ own(i) /\ i - lo + 1 = k /\ i \in lo .. hi
    BY <1>1, <1>10
  <2>2. z.cells[i].seqs = sets[k] /\ z.cells[i].pos = ub.last[k]
    BY <1>3, <1>4, <2>1
  <2>3. Main(sets[k]) \in SeqId /\ g.tail[Main(sets[k])] = i
    BY <1>2, <1>6, <2>1
  <2>4. Draws(b, z, i, Main(sets[k]))
    BY <1>9, <2>1, <2>3
  <2> QED BY <1>3, <1>5, <2>1, <2>2, <2>4
<1>12. ASSUME NEW s \in SeqId, b.tail[s] \in Cell PROVE z.rs_z = -1 \/ b.cells[b.tail[s]].src # z.rs_z
  <2>1. g.tail[s] \in Cell
    BY <1>6, <1>12 DEF Owned
  <2>2. b.cells[b.tail[s]].src = g.cells[g.tail[s]].src
    BY <1>6, <1>12, <2>1 DEF TakenOver
  <2> QED BY <1>4, <2>1, <2>2
<1>13. ASSUME NEW s \in SeqId, s \notin UNION Range(sets)
       PROVE  /\ z.tail[s] \in Cell <=> b.tail[s] \in Cell
              /\ z.tail[s] \in Cell =>
                   /\ z.cells[z.tail[s]].pos = b.cells[b.tail[s]].pos
                   /\ z.tail[s] \in lo .. hi => Draws(b, z, z.tail[s], s)
                   /\ z.tail[s] \notin lo .. hi => z.cells[z.tail[s]].src = b.cells[b.tail[s]].src
  <2>1. s \notin D /\ z.tail[s] = g.tail[s]
    <3>1. z.tail[s] = g.tail[s]
      BY <1>3, <1>5, <1>13
    <3>2. ASSUME s \in D PROVE FALSE
      <4>1. PICK k \in 1 .. N : s = Main(sets[k])
        BY <1>2, <3>2
      <4>2. s \in sets[k]
        BY <1>2, <4>1
      <4> QED BY <1>2, <1>13, <4>2
    <3> QED BY <3>1, <3>2
  <2>2. z.tail[s] \in Cell <=> b.tail[s] \in Cell
    BY <1>6, <2>1
  <2>3. ASSUME z.tail[s] \in Cell PROVE ~own(z.tail[s])
    <3> SUFFICES ASSUME own(z.tail[s]) PROVE FALSE
      OBVIOUS
    <3>1. PICK k \in 1 .. N : z.tail[s] - lo + 1 = k
      OBVIOUS
    <3>2. PICK t \in Cell : t = z.tail[s]
      BY <2>3
    <3>3. t = lo + k - 1
      <4>1. t \in Int /\ lo \in Int /\ k \in Int
        BY <1>1, <3>2, CellsAndSequences
      <4>2. t - lo + 1 = k
        BY <3>1, <3>2
      <4> HIDE DEF own
      <4> QED BY <4>1, <4>2
    <3>4. Held(g.tail, t) = {Main(sets[k])}
      BY <1>2, <1>6, <3>3 DEF Owned
    <3>5. s \in Held(g.tail, t)
      BY <2>1, <3>2 DEF Held
    <3> QED BY <1>2, <2>1, <3>4, <3>5
  <2>4. ASSUME z.tail[s] \in Cell
        PROVE  /\ z.cells[z.tail[s]].pos = b.cells[b.tail[s]].pos
               /\ z.tail[s] \notin lo .. hi => z.cells[z.tail[s]].src = b.cells[b.tail[s]].src
    <3>1. PICK t \in Cell : t = z.tail[s] /\ t = g.tail[s] /\ ~own(t)
      BY <2>1, <2>3, <2>4
    <3>2. TakenOver(b, g.cells[t], s) /\ b.tail[s] \in Cell
      BY <1>6, <2>2, <3>1
    <3>3. z.cells[t].pos = g.cells[t].pos /\ (t \notin lo .. hi => z.cells[t].src = g.cells[t].src)
      BY <1>3, <1>4, <3>1
    <3> QED BY <3>1, <3>2, <3>3 DEF TakenOver
  <2>5. z.tail[s] \in lo .. hi => Draws(b, z, z.tail[s], s)
    BY <1>9, <2>1
  <2> QED BY <2>2, <2>4, <2>5
<1>14. ASSUME NEW i \in Cell, z.cells[i].seqs = {}
       PROVE  IF i \in lo .. hi THEN Zeroed(b, z, z.cells[i].src0) ELSE Blank(b, z.cells[i].src)
  <2>1. ~own(i)
    BY <1>2, <1>3, <1>4, <1>14
  <2>2. g.cells[i].seqs = {}
    BY <1>3, <1>4, <1>14, <2>1
  <2>3. Held(g.tail, i) = {}
    <3> SUFFICES ASSUME NEW x \in D, Held(g.tail, i) = {x} PROVE FALSE
      BY <1>6, <2>2 DEF Agree
    <3>1. PICK k \in 1 .. N : x = Main(sets[k])
      BY <1>2
    <3>2. g.tail[x] = i
      BY DEF Held
    <3>3. i = lo + k - 1
      BY <1>6, <3>1, <3>2
    <3> QED BY <1>10, <2>1, <3>3
  <2>4. Blank(b, g.cells[i].src)
    BY <1>6, <2>3
  <2> QED BY <1>4, <1>8, <2>4
<1>15. \A i \in lo .. hi : z.cells[i].src = i
  BY <1>1, <1>4
<1>16. /\ lo \in Cell /\ hi \in Cell /\ hi - lo + 1 >= N /\ z.rs_idx = b.rs_idx
       /\ N = 1 => lo = hi
       /\ \A s \in Joined(sets) : b.tail[s] = -1
  BY DEF N, sets
<1> QED BY <1>5, <1>11, <1>12, <1>13, <1>14, <1>15, <1>16 DEF Drew, N, sets

(* find_slot succeeds on every memory and every micro batch, no assertion   *)
(* of it fails, and cells and tails agree again.                            *)
LEMMA FindSlotWorks ==
    ASSUME NEW m, Sane(m), NEW ub, WellUbatch(ub)
    PROVE  /\ FindSlot(m, ub).ok
           /\ Sane(FindSlot(m, ub).m)
           /\ FindSlot(m, ub).m.rs_idx = m.rs_idx
           /\ \E b, lo, hi : /\ Sane(b) /\ Left(m, b, Joined(ub.sets))
                             /\ Drew(b, FindSlot(m, ub).m, ub, lo, hi)
<1> DEFINE ns == Len(ub.sets)
           m0 == [m EXCEPT !.head = IF @ > m.used + 2 * ns THEN 0 ELSE @]
           m1 == Leave(m0, Joined(ub.sets))
           placed == Placed(m1, ub.sets)
           lo == Min(MainTails(placed.m, ub.sets))
           hi == Max(MainTails(placed.m, ub.sets))
           gathered == Gather(placed.m, ub.sets, lo)
           m2 == Seat(gathered, ub, lo)
           m3 == Source(m2, lo, hi)
<1>1. FindSlot(m, ub) =
        IF ~placed.ok \/ ~(hi - lo + 1 >= ns) THEN [m |-> placed.m, ok |-> FALSE]
        ELSE [m |-> Settle(m3, lo, hi), ok |-> m3.rs_z >= 0 \/ \A i \in lo .. hi : m2.cells[i].src >= 0]
  BY DEF FindSlot, Joined, MainTails, Settle
<1>2. WellSets(ub.sets)
  BY DEF WellUbatch
<1>3. Sane(m0) /\ m0.rs_idx = m.rs_idx /\ m0.cells = m.cells /\ m0.tail = m.tail
  BY HeadReset
<1> HIDE DEF m0
<1>4. /\ Sane(m1) /\ (\A s \in Joined(ub.sets) : m1.tail[s] = -1) /\ m1.rs_idx = m.rs_idx
      /\ Left(m, m1, Joined(ub.sets))
  <2>1. Left(m0, m1, Joined(ub.sets))
    BY <1>2, <1>3, JoinedLeave
  <2>2. Left(m, m1, Joined(ub.sets))
    BY <1>3, <2>1 DEF Left, Gone
  <2> QED BY <1>2, <1>3, <2>2, JoinedLeave
<1> HIDE DEF m1
<1>5. /\ Shared(placed.m, Mains(ub.sets, ns), Joined(ub.sets))
      /\ placed.ok
      /\ placed.m.rs_idx = m.rs_idx
      /\ Continued(m1, placed.m, Mains(ub.sets, ns))
  BY <1>2, <1>4, PlacedOk
<1>6. PICK p : p = placed.m
  OBVIOUS
<1> HIDE DEF placed
<1>7. /\ lo \in Cell /\ hi \in Cell /\ hi - lo + 1 >= ns /\ Gathering(p, ub.sets, 0, lo, hi)
      /\ ns = 1 => lo = hi
  BY <1>2, <1>5, <1>6, SpanIs
<1> HIDE DEF lo, hi
<1>8. /\ Gathering(gathered, ub.sets, ns, lo, hi) /\ gathered.rs_idx = m.rs_idx
      /\ Continued(m1, gathered, Mains(ub.sets, ns))
  <2>1. Continued(m1, p, Mains(ub.sets, ns)) /\ p.rs_idx = m.rs_idx
    BY <1>5, <1>6
  <2>2. /\ Gathering(Gather(p, ub.sets, lo), ub.sets, Len(ub.sets), lo, hi)
        /\ Gather(p, ub.sets, lo).rs_idx = p.rs_idx
        /\ Continued(m1, Gather(p, ub.sets, lo), Mains(ub.sets, ns))
    BY <1>2, <1>7, <2>1, GatherOk
  <2> QED BY <1>6, <2>1, <2>2
<1> HIDE DEF gathered
<1>9. Seated(gathered, m2)
  BY <1>7, <1>8, SeatOk
<1>9a. m2.cells = SeatCells(gathered, ub, lo) /\ m2.tail = SeatTails(gathered, ub, lo)
  <2>1. gathered \in Memory /\ lo + ns <= NSeq
    BY <1>2, <1>7, <1>8, SetsType, CellsAndSequences DEF Gathering, Cell
  <2> QED BY <1>7, <2>1, SeatGives
<1> HIDE DEF m2
<1>10. m2 \in Memory /\ \A i \in Cell \ (lo .. hi) : m2.cells[i].src \in {-1, i}
  BY <1>8, <1>9 DEF Seated, Gathering
<1>11. Drawn(m2, m3, lo, hi)
  BY <1>7, <1>10, SourceIs
<1>12. m3.rs_z >= 0 \/ \A i \in lo .. hi : m2.cells[i].src >= 0
  <2> SUFFICES ASSUME NEW i \in lo .. hi, ~(m2.cells[i].src >= 0) PROVE m3.rs_z >= 0
    OBVIOUS
  <2>1. m2.cells[i].src < 0
    <3>1. i \in Cell
      BY <1>7, CellsAndSequences DEF Cell
    <3>2. m2.cells[i].src \in Cell \cup {-1}
      BY <1>10, <3>1, CellFields
    <3>3. PICK x \in Cell \cup {-1} : x = m2.cells[i].src
      BY <3>2
    <3>4. x \in Int
      BY CellsAndSequences
    <3> QED BY <3>3, <3>4
  <2> QED BY <1>7, <1>10, <2>1, ZeroRow
<1> HIDE DEF m3
<1>13. /\ Sane(Settle(m3, lo, hi)) /\ Settle(m3, lo, hi).rs_idx = m.rs_idx
       /\ Drew(m1, Settle(m3, lo, hi), ub, lo, hi)
  <2>1. \A i \in Cell \ (lo .. hi) : gathered.cells[i].src \in {-1, i}
    BY <1>8 DEF Gathering
  <2>2. PICK z : z = Settle(m3, lo, hi)
    OBVIOUS
  <2>3. /\ Sane(z) /\ z.rs_idx = gathered.rs_idx
        /\ z.cells = m3.cells /\ z.tail = m3.tail
        /\ z.head = lo /\ z.n = hi - lo + 1 /\ z.rs_z = m3.rs_z
    <3>1. /\ Sane(Settle(m3, lo, hi)) /\ Settle(m3, lo, hi).rs_idx = gathered.rs_idx
          /\ Settle(m3, lo, hi).cells = m3.cells /\ Settle(m3, lo, hi).tail = m3.tail
          /\ Settle(m3, lo, hi).head = lo /\ Settle(m3, lo, hi).n = hi - lo + 1
          /\ Settle(m3, lo, hi).rs_z = m3.rs_z
      BY <1>7, <1>9, <1>11, <2>1, SettleSane
    <3> QED BY <2>2, <3>1
  <2>4. Drew(m1, z, ub, lo, hi)
    BY <1>4, <1>7, <1>8, <1>9, <1>9a, <1>11, <1>12, <2>3, DrewSo
  <2> QED BY <1>8, <2>2, <2>3, <2>4
<1>14. FindSlot(m, ub) = [m |-> Settle(m3, lo, hi), ok |-> TRUE]
  BY <1>1, <1>5, <1>7, <1>12
<1>15. PICK r : r = Settle(m3, lo, hi)
  OBVIOUS
<1>16. FindSlot(m, ub).ok /\ FindSlot(m, ub).m = r
  BY <1>14, <1>15
<1> QED BY <1>4, <1>13, <1>15, <1>16

-----------------------------------------------------------------------------
(* What the calls of the client do to the cells.                            *)

(* The memory between two calls, and no rollback beyond the rows there are. *)
Sound(m) == Sane(m) /\ \A s \in SeqId : m.rs_idx[s] <= setting.rs

(* The cell of a sequence that has one. *)
LEMMA TailCell ==
    ASSUME NEW m, Sane(m), NEW s \in SeqId
    PROVE  /\ m.tail[s] \in Cell \cup {-1} /\ m.tail[s] \in Int
           /\ m.tail[s] >= 0 => /\ m.tail[s] \in Cell
                                /\ s \in m.cells[m.tail[s]].seqs
                                /\ m.cells[m.tail[s]].pos \in Nat
<1>1. PICK t \in Cell \cup {-1} : t = m.tail[s]
  BY DEF Sane, Memory, Tails
<1>2. t \in Int /\ (t >= 0 => t \in Cell)
  BY CellsAndSequences
<1>3. ASSUME t \in Cell PROVE s \in m.cells[t].seqs /\ m.cells[t].pos \in Nat
  <2>1. s \in m.cells[t].seqs
    BY <1>1, <1>3, SaneAgree DEF Held
  <2>2. PICK p \in Int : p = m.cells[t].pos
    BY <1>3, CellFields DEF Sane
  <2>3. ~ (p < 0)
    BY <1>3, <2>1, <2>2 DEF Sane, Dated
  <2> QED BY <2>1, <2>2, <2>3
<1> QED BY <1>1, <1>2, <1>3

(* A cell in use is given another position. *)
Redated(m, c, p) == [m EXCEPT !.cells[c].pos = p]

(* Then cells, tails and counter still agree.                               *)
LEMMA CellDated ==
    ASSUME NEW m, Sane(m), NEW c \in Cell, m.cells[c].seqs # {}, NEW p \in Nat,
           NEW q, q = Redated(m, c, p)
    PROVE  /\ Sane(q) /\ q.rs_idx = m.rs_idx /\ q.tail = m.tail
           /\ \A i \in Cell : /\ q.cells[i].seqs = m.cells[i].seqs /\ q.cells[i].src = m.cells[i].src
                             /\ q.cells[i].pos = IF i = c THEN p ELSE m.cells[i].pos
<1> DEFINE cs == [m.cells EXCEPT ![c].pos = p]
<1>1. m \in Memory /\ m.cells \in [Cell -> CellRec]
  BY DEF Sane, Memory
<1>2. q = [m EXCEPT !.cells = cs]
  BY <1>1 DEF Redated
<1>3. \A i \in Cell : cs[i] = IF i = c THEN [m.cells[i] EXCEPT !.pos = p] ELSE m.cells[i]
  BY <1>1
<1>4. \A i \in Cell : /\ cs[i] \in CellRec
                      /\ cs[i].seqs = m.cells[i].seqs /\ cs[i].src = m.cells[i].src
                      /\ cs[i].pos = IF i = c THEN p ELSE m.cells[i].pos
  <2> SUFFICES ASSUME NEW i \in Cell
               PROVE  /\ cs[i] \in CellRec
                      /\ cs[i].seqs = m.cells[i].seqs /\ cs[i].src = m.cells[i].src
                      /\ cs[i].pos = IF i = c THEN p ELSE m.cells[i].pos
    OBVIOUS
  <2>1. m.cells[i] \in CellRec /\ p \in Int
    BY <1>1
  <2> HIDE DEF cs
  <2>2. CASE i = c
    <3>1. cs[i] = [m.cells[i] EXCEPT !.pos = p]
      BY <1>3, <2>2
    <3> QED BY <2>1, <2>2, <3>1 DEF CellRec
  <2>3. CASE i # c
    BY <1>3, <2>1, <2>3
  <2> QED BY <2>2, <2>3
<1>5. cs \in [Cell -> CellRec]
  <2>1. cs = [i \in Cell |-> cs[i]]
    BY <1>1
  <2> HIDE DEF cs
  <2> QED BY <1>4, <2>1
<1> HIDE DEF cs
<1>6. q \in Memory /\ q.cells = cs /\ q.tail = m.tail /\ q.used = m.used /\ q.rs_idx = m.rs_idx
  BY <1>1, <1>2, <1>5 DEF Memory
<1>7. Agree(q.cells, q.tail, {}) /\ OwnSources(q.cells)
  BY <1>4, <1>6 DEF Sane, Agree, OwnSources
<1>8. Dated(q.cells)
  <2>1. ASSUME NEW i \in Cell PROVE cs[i].seqs = {} <=> cs[i].pos < 0
    <3>1. m.cells[i].seqs = {} <=> m.cells[i].pos < 0
      BY DEF Sane, Dated
    <3>2. CASE i = c
      <4>1. ~ (p < 0)
        OBVIOUS
      <4> QED BY <1>4, <3>2, <4>1
    <3>3. CASE i # c
      BY <1>4, <3>1, <3>3
    <3> QED BY <3>2, <3>3
  <2> QED BY <1>6, <2>1 DEF Dated
<1>9. q.used = InUse(q.cells)
  <2>1. {i \in Cell : ~IsEmpty(cs[i])} = {i \in Cell : ~IsEmpty(m.cells[i])}
    BY <1>4 DEF IsEmpty
  <2> QED BY <1>6, <2>1 DEF Sane, InUse
<1> QED BY <1>4, <1>6, <1>7, <1>8, <1>9 DEF Sane

(* Another rollback index. *)
LEMMA IndexSet ==
    ASSUME NEW m, Sane(m), NEW f \in [SeqId -> Nat], NEW q, q = [m EXCEPT !.rs_idx = f]
    PROVE  Sane(q) /\ q.rs_idx = f /\ q.cells = m.cells /\ q.tail = m.tail
<1>1. /\ q \in Memory /\ q.rs_idx = f
      /\ q.cells = m.cells /\ q.tail = m.tail /\ q.used = m.used
  BY DEF Sane, Memory
<1> QED BY <1>1 DEF Sane

(* The rollback of one sequence is dropped. *)
Dropped(m, s) == [m EXCEPT !.rs_idx[s] = 0]

(* The others stay pending.                                                 *)
LEMMA IndexDropped ==
    ASSUME setting \in Settings, NEW m, Sound(m), NEW s \in SeqId,
           NEW q, q = Dropped(m, s)
    PROVE  /\ Sound(q) /\ q.cells = m.cells /\ q.tail = m.tail
           /\ \A x \in SeqId : q.rs_idx[x] = IF x = s THEN 0 ELSE m.rs_idx[x]
<1> DEFINE f == [m.rs_idx EXCEPT ![s] = 0]
<1>1. Sane(m) /\ m \in Memory /\ m.rs_idx \in [SeqId -> Nat]
  BY DEF Sound, Sane, Memory
<1>2. f \in [SeqId -> Nat] /\ q = [m EXCEPT !.rs_idx = f]
  BY <1>1 DEF Dropped
<1>3. setting.rs \in Nat
  BY MemoryAssumption
<1>7. \A x \in SeqId : f[x] = IF x = s THEN 0 ELSE m.rs_idx[x]
  BY <1>1
<1> HIDE DEF f
<1>4. \A x \in SeqId : f[x] <= setting.rs
  BY <1>3, <1>7 DEF Sound
<1>5. Sane(q) /\ q.rs_idx = f /\ q.cells = m.cells /\ q.tail = m.tail
  <2>1. PICK z : z = [m EXCEPT !.rs_idx = f]
    OBVIOUS
  <2>2. Sane(z) /\ z.rs_idx = f /\ z.cells = m.cells /\ z.tail = m.tail
    BY <1>1, <1>2, <2>1, IndexSet
  <2>3. z = q
    BY <1>2, <2>1
  <2> QED BY <2>2, <2>3
<1> QED BY <1>4, <1>5, <1>7 DEF Sound

(* Sequences leave their cells. *)
LEMMA LeaveSound ==
    ASSUME NEW m, Sound(m), NEW S \in SUBSET SeqId
    PROVE  Sound(Leave(m, S))
<1>1. Leave(m, S).rs_idx = m.rs_idx
  BY LeaveIs DEF Sound, Sane
<1>2. Sane(Leave(m, S))
  BY LeaveSane DEF Sound
<1> QED BY <1>1, <1>2 DEF Sound

(* A rollback that leaves the cell where it is. *)
Rolled(m, s, back, p) == [m EXCEPT !.rs_idx[s] = back, !.cells[m.tail[s]].pos = p]

(* Then the rollback is within the rows there are.                          *)
LEMMA RolledBack ==
    ASSUME setting \in Settings, NEW m, Sound(m), NEW s \in SeqId, NEW c \in Cell, c = m.tail[s],
           s \in m.cells[c].seqs, NEW p \in Nat, NEW back \in Nat, back <= setting.rs,
           NEW q, q = Rolled(m, s, back, p)
    PROVE  /\ Sound(q) /\ q.tail = m.tail
           /\ \A i \in Cell : /\ q.cells[i].seqs = m.cells[i].seqs /\ q.cells[i].src = m.cells[i].src
                             /\ q.cells[i].pos = IF i = c THEN p ELSE m.cells[i].pos
           /\ \A x \in SeqId : q.rs_idx[x] = IF x = s THEN back ELSE m.rs_idx[x]
<1> DEFINE f == [m.rs_idx EXCEPT ![s] = back]
           n == [m EXCEPT !.rs_idx = f]
<1>1. Sane(m) /\ m \in Memory /\ m.rs_idx \in [SeqId -> Nat]
  BY DEF Sound, Sane, Memory
<1>2. f \in [SeqId -> Nat] /\ \A x \in SeqId : f[x] = IF x = s THEN back ELSE m.rs_idx[x]
  BY <1>1
<1>3. n.cells = m.cells /\ q = Redated(n, c, p)
  BY <1>1 DEF Memory, Rolled, Redated
<1> HIDE DEF f
<1>4. Sane(n) /\ n.rs_idx = f /\ n.tail = m.tail
  BY <1>1, <1>2, IndexSet
<1> HIDE DEF n
<1>5. PICK x : x = n
  OBVIOUS
<1>6. /\ Sane(x) /\ x.rs_idx = f /\ x.cells[c].seqs # {} /\ q = Redated(x, c, p)
      /\ x.cells = m.cells /\ x.tail = m.tail
  BY <1>3, <1>4, <1>5
<1>7. /\ Sane(q) /\ q.rs_idx = f /\ q.tail = m.tail
      /\ \A i \in Cell : /\ q.cells[i].seqs = m.cells[i].seqs /\ q.cells[i].src = m.cells[i].src
                        /\ q.cells[i].pos = IF i = c THEN p ELSE m.cells[i].pos
  BY <1>6, CellDated
<1> QED BY <1>2, <1>7 DEF Sound

(* seq_rm, whatever positions it is given. *)
LEMMA SeqRmSound ==
    ASSUME setting \in Settings, NEW m0, Sound(m0), NEW s \in SeqId, NEW p0 \in Int, NEW p1 \in Int
    PROVE  Sound(SeqRm(m0, s, p0, p1).m)
<1> DEFINE m == IF p0 = 0 /\ p1 = Inf THEN [m0 EXCEPT !.rs_idx[s] = 0] ELSE m0
           back == PosOf(m, s) - (p0 - 1)
           pos == PosOf(m, s)
           partial == m.tail[s] >= 0 /\ 0 < p0 /\ p0 <= pos /\ pos < p1
           hit == m.tail[s] >= 0 /\ p0 <= pos /\ pos < p1
           freed == {i \in Cell : m.cells[i].seqs = {s}}
           small == partial /\ m.rs_idx[s] = 0 /\ back <= setting.rs
           rolled == Rolled(m, s, back, p0 - 1)
           left == MoveHead(Leave(m, {s}), freed)
<1>1. Sound(m)
  <2>1. PICK q : q = Dropped(m0, s)
    OBVIOUS
  <2>2. Sound(q)
    BY <2>1, IndexDropped
  <2>3. m = q \/ m = m0
    BY <2>1 DEF Dropped
  <2> QED BY <2>2, <2>3
<1>2. SeqRm(m0, s, p0, p1).m = IF small THEN rolled
                               ELSE IF partial THEN m ELSE IF hit THEN left ELSE m
  BY DEF SeqRm, Rolled
<1> HIDE DEF m
<1>3. ASSUME small PROVE Sound(rolled)
  <2>1. PICK c \in Cell : c = m.tail[s] /\ s \in m.cells[c].seqs /\ m.cells[c].pos \in Nat
    BY <1>1, <1>3, TailCell DEF Sound
  <2>2. pos = m.cells[c].pos
    BY <2>1, CellsAndSequences DEF PosOf
  <2>3. PICK x \in Nat, y \in Nat : x = p0 - 1 /\ y = back
    BY <1>3, <2>1, <2>2
  <2>4. rolled = Rolled(m, s, y, x) /\ y <= setting.rs
    BY <1>3, <2>3
  <2> HIDE DEF rolled, back, pos
  <2>5. PICK q : q = Rolled(m, s, y, x)
    OBVIOUS
  <2>6. Sound(q)
    BY <1>1, <2>1, <2>3, <2>4, <2>5, RolledBack
  <2> QED BY <2>4, <2>5, <2>6
<1>4. Sound(left)
  <2>1. Sound(Leave(m, {s}))
    BY <1>1, LeaveSound
  <2>2. PICK l : l = Leave(m, {s})
    OBVIOUS
  <2>3. Sane(MoveHead(l, freed)) /\ MoveHead(l, freed).rs_idx = l.rs_idx
    BY <2>1, <2>2, MoveHeadSane DEF Sound
  <2> QED BY <2>1, <2>2, <2>3 DEF Sound
<1> HIDE DEF small, rolled, partial, left, hit
<1> QED BY <1>1, <1>2, <1>3, <1>4

(* g[k] counts the tokens of the sequence s in the first k micro batches. *)
Counted(g, b, s, n) == g = [k \in 0 .. n |-> IF k = 0 THEN 0 ELSE (g[k - 1] + OwnTokens(b[k], s))]

(* The count, one micro batch after the other.                              *)
LEMMA CountedAt ==
    ASSUME NEW g, NEW b, NEW s, NEW n \in Nat, Counted(g, b, s, n)
    PROVE  g[0] = 0 /\ \A k \in 1 .. n : g[k] = (g[k - 1] + OwnTokens(b[k], s))
<1> DEFINE step(k) == IF k = 0 THEN 0 ELSE (g[k - 1] + OwnTokens(b[k], s))
<1>1. g = [k \in 0 .. n |-> step(k)]
  BY DEF Counted
<1>2. \A k \in 0 .. n : g[k] = step(k)
  <2> HIDE DEF step
  <2> QED BY <1>1
<1>3. \A k \in 1 .. n : k \in 0 .. n /\ k # 0
  OBVIOUS
<1> QED BY <1>2, <1>3

(* There is such a count.                                                   *)
LEMMA CountedExists ==
    ASSUME NEW b, NEW s, NEW n \in Nat
    PROVE  \E g : Counted(g, b, s, n)
<1> DEFINE S == {i \in Nat : \E g : Counted(g, b, s, i)}
<1>1. 0 \in S
  <2> DEFINE g == [k \in 0 .. 0 |-> 0]
  <2>1. Counted(g, b, s, 0)
    BY DEF Counted
  <2> QED BY <2>1
<1>2. ASSUME NEW i \in Nat, i \in S PROVE i + 1 \in S
  <2>1. PICK g : Counted(g, b, s, i)
    BY <1>2
  <2> DEFINE h == [k \in 0 .. i + 1 |-> IF k = i + 1 THEN (g[i] + OwnTokens(b[i + 1], s)) ELSE g[k]]
  <2>2. h[i + 1] = (g[i] + OwnTokens(b[i + 1], s)) /\ \A k \in 0 .. i : h[k] = g[k]
    OBVIOUS
  <2>3. h = [k \in 0 .. i + 1 |-> h[k]]
    OBVIOUS
  <2> HIDE DEF h
  <2>4. h[0] = 0
    BY <2>1, <2>2, CountedAt
  <2>5. ASSUME NEW k \in 1 .. i + 1 PROVE h[k] = (h[k - 1] + OwnTokens(b[k], s))
    <3>1. CASE k = i + 1
      <4>1. k - 1 = i /\ i \in 0 .. i
        BY <3>1
      <4> QED BY <2>2, <3>1, <4>1
    <3>2. CASE k # i + 1
      <4>1. k \in 1 .. i /\ k \in 0 .. i /\ k - 1 \in 0 .. i
        BY <3>2
      <4>2. g[k] = (g[k - 1] + OwnTokens(b[k], s))
        BY <2>1, <4>1, CountedAt
      <4> QED BY <2>2, <4>1, <4>2
    <3> QED BY <3>1, <3>2
  <2>6. \A k \in 0 .. i + 1 : h[k] = IF k = 0 THEN 0 ELSE (h[k - 1] + OwnTokens(b[k], s))
    BY <2>4, <2>5
  <2>7. Counted(h, b, s, i + 1)
    BY <2>3, <2>6 DEF Counted
  <2> QED BY <2>7
<1> HIDE DEF S
<1>3. Nat \subseteq S
  BY <1>1, <1>2, Induction
<1> QED BY <1>3 DEF S

(* It is what the batch's tokens are counted by.                            *)
LEMMA CountedIs ==
    ASSUME NEW b, NEW s, NEW n \in Nat
    PROVE  \E g : Counted(g, b, s, n) /\ TokensIn(b, n, s) = g[n]
<1> DEFINE g == CHOOSE g : g = [k \in 0 .. n |-> IF k = 0 THEN 0 ELSE (g[k - 1] + OwnTokens(b[k], s))]
<1>1. PICK h : Counted(h, b, s, n)
  BY CountedExists
<1>2. Counted(g, b, s, n)
  BY <1>1 DEF Counted
<1>3. TokensIn(b, n, s) = g[n]
  BY DEF TokensIn
<1> QED BY <1>2, <1>3

(* The trial before its first micro batch. *)
Untried(m) == [m |-> m, ok |-> TRUE]

(* g[k] is the trial after the first k micro batches. *)
TriedBy(g, m, b, n) == g = [k \in 0 .. n |-> IF k = 0 THEN Untried(m) ELSE Try(g[k - 1], b[k])]

(* The trial, one micro batch after the other.                              *)
LEMMA TriedByAt ==
    ASSUME NEW g, NEW m, NEW b, NEW n \in Nat, TriedBy(g, m, b, n)
    PROVE  g[0] = Untried(m) /\ \A k \in 1 .. n : g[k] = Try(g[k - 1], b[k])
<1> DEFINE step(k) == IF k = 0 THEN Untried(m) ELSE Try(g[k - 1], b[k])
<1>1. g = [k \in 0 .. n |-> step(k)]
  BY DEF TriedBy
<1>2. \A k \in 0 .. n : g[k] = step(k)
  <2> HIDE DEF step
  <2> QED BY <1>1
<1>3. \A k \in 1 .. n : k \in 0 .. n /\ k # 0
  OBVIOUS
<1> QED BY <1>2, <1>3

(* There is such a trial.                                                   *)
LEMMA TriedByExists ==
    ASSUME NEW m, NEW b, NEW n \in Nat
    PROVE  \E g : TriedBy(g, m, b, n)
<1> DEFINE S == {i \in Nat : \E g : TriedBy(g, m, b, i)}
<1>1. 0 \in S
  <2> DEFINE g == [k \in 0 .. 0 |-> Untried(m)]
  <2>1. TriedBy(g, m, b, 0)
    BY DEF TriedBy
  <2> QED BY <2>1
<1>2. ASSUME NEW i \in Nat, i \in S PROVE i + 1 \in S
  <2>1. PICK g : TriedBy(g, m, b, i)
    BY <1>2
  <2> DEFINE h == [k \in 0 .. i + 1 |-> IF k = i + 1 THEN Try(g[i], b[i + 1]) ELSE g[k]]
  <2>2. h[i + 1] = Try(g[i], b[i + 1]) /\ \A k \in 0 .. i : h[k] = g[k]
    OBVIOUS
  <2>3. h = [k \in 0 .. i + 1 |-> h[k]]
    OBVIOUS
  <2> HIDE DEF h
  <2>4. h[0] = Untried(m)
    BY <2>1, <2>2, TriedByAt
  <2>5. ASSUME NEW k \in 1 .. i + 1 PROVE h[k] = Try(h[k - 1], b[k])
    <3>1. CASE k = i + 1
      <4>1. k - 1 = i /\ i \in 0 .. i
        BY <3>1
      <4> QED BY <2>2, <3>1, <4>1
    <3>2. CASE k # i + 1
      <4>1. k \in 1 .. i /\ k \in 0 .. i /\ k - 1 \in 0 .. i
        BY <3>2
      <4>2. g[k] = Try(g[k - 1], b[k])
        BY <2>1, <4>1, TriedByAt
      <4> QED BY <2>2, <4>1, <4>2
    <3> QED BY <3>1, <3>2
  <2>6. \A k \in 0 .. i + 1 : h[k] = IF k = 0 THEN Untried(m) ELSE Try(h[k - 1], b[k])
    BY <2>4, <2>5
  <2>7. TriedBy(h, m, b, i + 1)
    BY <2>3, <2>6 DEF TriedBy
  <2> QED BY <2>7
<1> HIDE DEF S
<1>3. Nat \subseteq S
  BY <1>1, <1>2, Induction
<1> QED BY <1>3 DEF S

(* It is what prepare does.                                                 *)
LEMMA TriedByIs ==
    ASSUME NEW m, NEW b, Len(b) \in Nat
    PROVE  \E g : TriedBy(g, m, b, Len(b)) /\ Tried(m, b) = g[Len(b)]
<1> DEFINE g == CHOOSE g : g = [k \in 0 .. Len(b) |-> IF k = 0 THEN Untried(m) ELSE Try(g[k - 1], b[k])]
<1>1. PICK h : TriedBy(h, m, b, Len(b))
  BY TriedByExists
<1>2. TriedBy(g, m, b, Len(b))
  BY <1>1 DEF TriedBy
<1>3. Tried(m, b) = g[Len(b)]
  BY DEF Tried, Untried
<1> QED BY <1>2, <1>3

(* g[k] is the memory when the first k sequences of the micro batch are removed. *)
RemovedBy(g, m, ub, n) == g = [k \in 0 .. n |-> IF k = 0 THEN m ELSE RemoveOne(g[k - 1], ub, k)]

(* The removal, one sequence after the other.                               *)
LEMMA RemovedByAt ==
    ASSUME NEW g, NEW m, NEW ub, NEW n \in Nat, RemovedBy(g, m, ub, n)
    PROVE  g[0] = m /\ \A k \in 1 .. n : g[k] = RemoveOne(g[k - 1], ub, k)
<1> DEFINE step(k) == IF k = 0 THEN m ELSE RemoveOne(g[k - 1], ub, k)
<1>1. g = [k \in 0 .. n |-> step(k)]
  BY DEF RemovedBy
<1>2. \A k \in 0 .. n : g[k] = step(k)
  <2> HIDE DEF step
  <2> QED BY <1>1
<1>3. \A k \in 1 .. n : k \in 0 .. n /\ k # 0
  OBVIOUS
<1> QED BY <1>2, <1>3

(* There is such a removal.                                                 *)
LEMMA RemovedByExists ==
    ASSUME NEW m, NEW ub, NEW n \in Nat
    PROVE  \E g : RemovedBy(g, m, ub, n)
<1> DEFINE S == {i \in Nat : \E g : RemovedBy(g, m, ub, i)}
<1>1. 0 \in S
  <2> DEFINE g == [k \in 0 .. 0 |-> m]
  <2>1. RemovedBy(g, m, ub, 0)
    BY DEF RemovedBy
  <2> QED BY <2>1
<1>2. ASSUME NEW i \in Nat, i \in S PROVE i + 1 \in S
  <2>1. PICK g : RemovedBy(g, m, ub, i)
    BY <1>2
  <2> DEFINE h == [k \in 0 .. i + 1 |-> IF k = i + 1 THEN RemoveOne(g[i], ub, i + 1) ELSE g[k]]
  <2>2. h[i + 1] = RemoveOne(g[i], ub, i + 1) /\ \A k \in 0 .. i : h[k] = g[k]
    OBVIOUS
  <2>3. h = [k \in 0 .. i + 1 |-> h[k]]
    OBVIOUS
  <2> HIDE DEF h
  <2>4. h[0] = m
    BY <2>1, <2>2, RemovedByAt
  <2>5. ASSUME NEW k \in 1 .. i + 1 PROVE h[k] = RemoveOne(h[k - 1], ub, k)
    <3>1. CASE k = i + 1
      <4>1. k - 1 = i /\ i \in 0 .. i
        BY <3>1
      <4> QED BY <2>2, <3>1, <4>1
    <3>2. CASE k # i + 1
      <4>1. k \in 1 .. i /\ k \in 0 .. i /\ k - 1 \in 0 .. i
        BY <3>2
      <4>2. g[k] = RemoveOne(g[k - 1], ub, k)
        BY <2>1, <4>1, RemovedByAt
      <4> QED BY <2>2, <4>1, <4>2
    <3> QED BY <3>1, <3>2
  <2>6. \A k \in 0 .. i + 1 : h[k] = IF k = 0 THEN m ELSE RemoveOne(h[k - 1], ub, k)
    BY <2>4, <2>5
  <2>7. RemovedBy(h, m, ub, i + 1)
    BY <2>3, <2>6 DEF RemovedBy
  <2> QED BY <2>7
<1> HIDE DEF S
<1>3. Nat \subseteq S
  BY <1>1, <1>2, Induction
<1> QED BY <1>3 DEF S

(* It is what decode does.                                                  *)
LEMMA RemovedByIs ==
    ASSUME NEW m, NEW ub, Len(ub.sets) \in Nat
    PROVE  \E g : RemovedBy(g, m, ub, Len(ub.sets)) /\ Removed(m, ub) = g[Len(ub.sets)]
<1> DEFINE g == CHOOSE g : g = [k \in 0 .. Len(ub.sets) |-> IF k = 0 THEN m ELSE RemoveOne(g[k - 1], ub, k)]
<1>1. PICK h : RemovedBy(h, m, ub, Len(ub.sets))
  BY RemovedByExists
<1>2. RemovedBy(g, m, ub, Len(ub.sets))
  BY <1>1 DEF RemovedBy
<1>3. Removed(m, ub) = g[Len(ub.sets)]
  BY DEF Removed
<1> QED BY <1>2, <1>3

(* The trial of a batch succeeds. *)
LEMMA TriedOk ==
    ASSUME NEW m, Sane(m), NEW b, Len(b) \in Nat, \A k \in 1 .. Len(b) : WellUbatch(b[k])
    PROVE  Tried(m, b).ok
<1>1. PICK n \in Nat : n = Len(b)
  OBVIOUS
<1>2. PICK g : TriedBy(g, m, b, n) /\ Tried(m, b) = g[n]
  BY <1>1, TriedByIs
<1>3. g[0].ok /\ g[0].m = m /\ \A k \in 1 .. n : g[k] = Try(g[k - 1], b[k])
  <2>1. g[0] = Untried(m) /\ \A k \in 1 .. n : g[k] = Try(g[k - 1], b[k])
    BY <1>2, TriedByAt
  <2>2. Untried(m).ok /\ Untried(m).m = m
    BY DEF Untried
  <2> QED BY <2>1, <2>2
<1> DEFINE S == {i \in Nat : i <= n => g[i].ok /\ Sane(g[i].m)}
<1>4. 0 \in S
  BY <1>3
<1>5. ASSUME NEW i \in Nat, i \in S PROVE i + 1 \in S
  <2> SUFFICES ASSUME i + 1 <= n PROVE g[i + 1].ok /\ Sane(g[i + 1].m)
    OBVIOUS
  <2>1. i + 1 \in 1 .. n /\ i + 1 - 1 = i
    BY <1>1
  <2>2. g[i].ok /\ Sane(g[i].m)
    BY <1>1, <1>5
  <2>3. PICK a, ub : a = g[i] /\ ub = b[i + 1]
    OBVIOUS
  <2>4. g[i + 1] = Try(a, ub)
    BY <1>3, <2>1, <2>3
  <2>5. WellUbatch(ub)
    BY <1>1, <2>1, <2>3
  <2>6. PICK x : x = a.m
    OBVIOUS
  <2>7. FindSlot(x, ub).ok /\ Sane(FindSlot(x, ub).m)
    BY <2>2, <2>3, <2>5, <2>6, FindSlotWorks
  <2> QED BY <2>2, <2>3, <2>4, <2>6, <2>7 DEF Try
<1> HIDE DEF S
<1>6. Nat \subseteq S
  BY <1>4, <1>5, Induction
<1>7. n \in S
  BY <1>6
<1>8. g[n].ok
  BY <1>7 DEF S
<1> QED BY <1>2, <1>8

(* What is removed of a micro batch that failed. *)
LEMMA RemovedSound ==
    ASSUME setting \in Settings, NEW m, Sound(m), NEW ub, WellUbatch(ub), ub.n \in Nat
    PROVE  Sound(Removed(m, ub))
<1>1. PICK n \in Nat : n = Len(ub.sets)
  BY SetsType DEF WellUbatch
<1>2. PICK g : RemovedBy(g, m, ub, n) /\ Removed(m, ub) = g[n]
  BY <1>1, RemovedByIs
<1>3. g[0] = m /\ \A k \in 1 .. n : g[k] = RemoveOne(g[k - 1], ub, k)
  BY <1>2, RemovedByAt
<1> DEFINE S == {i \in Nat : i <= n => Sound(g[i])}
<1>4. 0 \in S
  BY <1>3
<1>5. ASSUME NEW i \in Nat, i \in S PROVE i + 1 \in S
  <2> SUFFICES ASSUME i + 1 <= n PROVE Sound(g[i + 1])
    OBVIOUS
  <2>1. i + 1 \in 1 .. n /\ i + 1 - 1 = i
    BY <1>1
  <2>2. Sound(g[i])
    BY <1>1, <1>5
  <2>3. PICK k \in 1 .. n : k = i + 1
    BY <2>1
  <2>10. PICK a : a = g[i]
    OBVIOUS
  <2>4. g[k] = RemoveOne(a, ub, k)
    BY <1>3, <2>1, <2>3, <2>10
  <2>5. Main(ub.sets[k]) \in SeqId
    BY <1>1, MainIs DEF WellUbatch, WellSets
  <2>6. ub.last[k] \in Nat
    BY <1>1, SetsType DEF WellUbatch
  <2>7. PICK s \in SeqId, p0 \in Int : s = Main(ub.sets[k]) /\ p0 = ub.last[k] - ub.n + 1
    BY <2>5, <2>6
  <2>8. Inf \in Int
    BY DEF Inf
  <2>9. Sound(SeqRm(a, s, p0, Inf).m)
    BY <2>2, <2>7, <2>8, <2>10, SeqRmSound
  <2> QED BY <2>3, <2>4, <2>7, <2>9 DEF RemoveOne
<1> HIDE DEF S
<1>6. Nat \subseteq S
  BY <1>4, <1>5, Induction
<1>7. n \in S
  BY <1>6
<1>8. Sound(g[n])
  BY <1>7 DEF S
<1> QED BY <1>2, <1>8

(* A micro batch counts the tokens of its own sequences. *)
LEMMA TokensInType ==
    ASSUME NEW b, NEW s, NEW n \in Nat, \A k \in 1 .. n : b[k].n \in Nat
    PROVE  /\ TokensIn(b, n, s) \in Nat
           /\ n > 0 /\ s \in UNION Range(b[n].sets) => TokensIn(b, n, s) >= b[n].n
<1>1. PICK g : Counted(g, b, s, n) /\ TokensIn(b, n, s) = g[n]
  BY CountedIs
<1>2. g[0] = 0 /\ \A k \in 1 .. n : g[k] = g[k - 1] + OwnTokens(b[k], s)
  BY <1>1, CountedAt
<1>3. \A k \in 1 .. n : OwnTokens(b[k], s) \in Nat
  BY DEF OwnTokens
<1> DEFINE S == {i \in Nat : i <= n => g[i] \in Nat}
<1>4. 0 \in S
  BY <1>2
<1>5. ASSUME NEW i \in Nat, i \in S PROVE i + 1 \in S
  <2> SUFFICES ASSUME i + 1 <= n PROVE g[i + 1] \in Nat
    OBVIOUS
  <2>1. i + 1 \in 1 .. n /\ i + 1 - 1 = i /\ g[i] \in Nat
    BY <1>5
  <2> QED BY <1>2, <1>3, <2>1
<1> HIDE DEF S
<1>6. Nat \subseteq S
  BY <1>4, <1>5, Induction
<1>7. \A i \in 0 .. n : g[i] \in Nat
  BY <1>6 DEF S
<1>8. ASSUME n > 0, s \in UNION Range(b[n].sets) PROVE g[n] >= b[n].n
  <2>1. n \in 1 .. n /\ n - 1 \in 0 .. n
    BY <1>8
  <2>2. OwnTokens(b[n], s) = b[n].n
    BY <1>8 DEF OwnTokens
  <2> QED BY <1>2, <1>7, <2>1, <2>2
<1>9. n \in 0 .. n
  OBVIOUS
<1> QED BY <1>1, <1>7, <1>8, <1>9

(* find_slot, with the rollbacks. *)
LEMMA FindSlotSound ==
    ASSUME NEW m, Sound(m), NEW ub, WellUbatch(ub)
    PROVE  FindSlot(m, ub).ok /\ Sound(FindSlot(m, ub).m)
<1>1. FindSlot(m, ub).ok /\ Sane(FindSlot(m, ub).m) /\ FindSlot(m, ub).m.rs_idx = m.rs_idx
  BY FindSlotWorks DEF Sound
<1> QED BY <1>1 DEF Sound

(* The cells differ at most in the source staged for the compute. *)
SameCell(x, y) == x.seqs = y.seqs /\ x.src = y.src /\ x.pos = y.pos

(* What the compute leaves behind of the search. *)
LEMMA ForgetSound ==
    ASSUME NEW m, Sound(m)
    PROVE  /\ Sound(Forget(m)) /\ Forget(m).rs_idx = m.rs_idx /\ Forget(m).tail = m.tail
           /\ \A i \in Cell : SameCell(Forget(m).cells[i], m.cells[i])
<1> DEFINE cs == [i \in Cell |-> [m.cells[i] EXCEPT !.src0 = -1]]
<1>1. m \in Memory /\ m.cells \in [Cell -> CellRec] /\ m.rs_idx \in [SeqId -> Nat]
  BY DEF Sound, Sane, Memory
<1>2. Forget(m) = [m EXCEPT !.cells = cs, !.n = 0, !.rs_z = -1]
  BY DEF Forget
<1>3. PICK x \in Int : x = -1
  <2>1. -1 \in Int
    OBVIOUS
  <2> QED BY <2>1
<1>4. \A i \in Cell : /\ cs[i] \in CellRec
                      /\ cs[i].seqs = m.cells[i].seqs /\ cs[i].src = m.cells[i].src
                      /\ cs[i].pos = m.cells[i].pos
  <2> SUFFICES ASSUME NEW i \in Cell
               PROVE  /\ cs[i] \in CellRec
                      /\ cs[i].seqs = m.cells[i].seqs /\ cs[i].src = m.cells[i].src
                      /\ cs[i].pos = m.cells[i].pos
    OBVIOUS
  <2>1. m.cells[i] \in CellRec /\ cs[i] = [m.cells[i] EXCEPT !.src0 = x] /\ x \in Cell \cup {-1}
    BY <1>1, <1>3
  <2> HIDE DEF cs
  <2> QED BY <2>1 DEF CellRec
<1>5. cs \in [Cell -> CellRec]
  <2>1. cs = [i \in Cell |-> cs[i]]
    OBVIOUS
  <2> HIDE DEF cs
  <2> QED BY <1>4, <2>1
<1> HIDE DEF cs
<1>6. PICK q : q = Forget(m)
  OBVIOUS
<1>7. /\ q \in Memory /\ q.cells = cs /\ q.tail = m.tail /\ q.used = m.used
      /\ q.rs_idx = m.rs_idx
  <2>1. PICK y \in Int : y = 0
    OBVIOUS
  <2>2. q = [m EXCEPT !.cells = cs, !.n = y, !.rs_z = x]
    BY <1>2, <1>3, <1>6, <2>1
  <2> QED BY <1>1, <1>5, <2>2 DEF Memory
<1>8. Agree(q.cells, q.tail, {}) /\ OwnSources(q.cells) /\ Dated(q.cells)
  BY <1>4, <1>7 DEF Sound, Sane, Agree, OwnSources, Dated
<1>9. q.used = InUse(q.cells)
  <2>1. {i \in Cell : ~IsEmpty(cs[i])} = {i \in Cell : ~IsEmpty(m.cells[i])}
    BY <1>4 DEF IsEmpty
  <2> QED BY <1>7, <2>1 DEF Sound, Sane, InUse
<1>10. Sound(q)
  BY <1>7, <1>8, <1>9 DEF Sound, Sane
<1>11. \A i \in Cell : SameCell(q.cells[i], m.cells[i])
  BY <1>4, <1>7 DEF SameCell
<1> QED BY <1>6, <1>7, <1>10, <1>11

(* Reading the sources of a micro batch ends pending rollbacks only.        *)
LEMMA ConsumedSound ==
    ASSUME setting \in Settings, NEW m, Sound(m)
    PROVE  /\ Sound(Consumed(m)) /\ Consumed(m).tail = m.tail
           /\ \A i \in Cell : SameCell(Consumed(m).cells[i], m.cells[i])
           /\ \A s \in SeqId :
                Consumed(m).rs_idx[s] = IF setting.rs > 0 /\ \E i \in InRange(m) : s \in First(m, i)
                                        THEN 0 ELSE m.rs_idx[s]
<1>1. PICK q : q = Forget(m)
  OBVIOUS
<1>2. /\ Sound(q) /\ q.rs_idx = m.rs_idx /\ q.rs_idx \in [SeqId -> Nat]
      /\ q.tail = m.tail /\ \A i \in Cell : SameCell(q.cells[i], m.cells[i])
  BY <1>1, ForgetSound DEF Sound, Sane, Memory
<1> DEFINE done(s) == setting.rs > 0 /\ \E i \in InRange(m) : s \in First(m, i)
           f == [s \in SeqId |-> IF done(s) THEN 0 ELSE q.rs_idx[s]]
<1>3. Consumed(m) = [q EXCEPT !.rs_idx = f]
  BY <1>1 DEF Consumed
<1> HIDE DEF done
<1>4. f \in [SeqId -> Nat]
  BY <1>2
<1>5. setting.rs \in Nat
  BY MemoryAssumption
<1>6. \A s \in SeqId : f[s] <= setting.rs
  BY <1>2, <1>5 DEF Sound
<1>9. \A s \in SeqId : f[s] = IF done(s) THEN 0 ELSE q.rs_idx[s]
  OBVIOUS
<1> HIDE DEF f
<1>7. PICK c : c = Consumed(m)
  OBVIOUS
<1>8. Sane(c) /\ c.rs_idx = f /\ c.cells = q.cells /\ c.tail = q.tail
  BY <1>2, <1>3, <1>4, <1>7, IndexSet DEF Sound
<1>10. \A s \in SeqId : c.rs_idx[s] = IF done(s) THEN 0 ELSE m.rs_idx[s]
  BY <1>2, <1>8, <1>9
<1> QED BY <1>2, <1>6, <1>7, <1>8, <1>10 DEF Sound, done

(* The memory before the first call, and after clear. *)
Emptied(m) == [m EXCEPT !.cells = [i \in Cell |-> Free], !.tail = [s \in SeqId |-> -1],
                        !.head = 0, !.used = 0, !.rs_idx = [s \in SeqId |-> 0]]

(* An emptied memory is a sound one.                                        *)
LEMMA EmptySound ==
    ASSUME setting \in Settings, NEW m \in Memory
    PROVE  /\ Sound(Emptied(m))
           /\ \A s \in SeqId : Emptied(m).tail[s] = -1 /\ Emptied(m).rs_idx[s] = 0
           /\ \A i \in Cell : Emptied(m).cells[i].src = -1
<1> DEFINE cs == [i \in Cell |-> Free]
           ts == [s \in SeqId |-> -1]
           zs == [s \in SeqId |-> 0]
<1>1. PICK q : q = Emptied(m)
  OBVIOUS
<1>2. Free \in CellRec /\ Free.seqs = {} /\ Free.pos < 0 /\ Free.src = -1
  BY DEF Free, CellRec
<1>3. cs \in [Cell -> CellRec] /\ \A i \in Cell : cs[i] = Free
  BY <1>2
<1>4. ts \in Tails /\ \A s \in SeqId : ts[s] = -1
  BY DEF Tails
<1>5. zs \in [SeqId -> Nat] /\ \A s \in SeqId : zs[s] = 0
  OBVIOUS
<1>6. q = [m EXCEPT !.cells = cs, !.tail = ts, !.head = 0, !.used = 0, !.rs_idx = zs]
  BY <1>1 DEF Emptied
<1> HIDE DEF cs, ts, zs
<1>7. q \in Memory /\ q.cells = cs /\ q.tail = ts /\ q.used = 0 /\ q.rs_idx = zs
  <2>1. PICK x \in Int, y \in Cell : x = 0 /\ y = 0
    BY CellsAndSequences
  <2>2. q = [m EXCEPT !.cells = cs, !.tail = ts, !.head = y, !.used = x, !.rs_idx = zs]
    BY <1>6, <2>1
  <2>3. q \in Memory /\ q.cells = cs /\ q.tail = ts /\ q.used = x /\ q.rs_idx = zs
    BY <1>3, <1>4, <1>5, <2>2 DEF Memory
  <2> QED BY <2>1, <2>3
<1>8. Agree(q.cells, q.tail, {})
  BY <1>2, <1>3, <1>4, <1>7, CellsAndSequences DEF Agree, Held
<1>9. Dated(q.cells) /\ OwnSources(q.cells)
  BY <1>2, <1>3, <1>7 DEF Dated, OwnSources
<1>10. q.used = InUse(q.cells)
  <2>1. {i \in Cell : ~IsEmpty(cs[i])} = {}
    BY <1>2, <1>3 DEF IsEmpty
  <2> QED BY <1>7, <2>1, FS_EmptySet DEF InUse
<1>11. setting.rs \in Nat
  BY MemoryAssumption
<1>12. \A s \in SeqId : q.rs_idx[s] <= setting.rs
  BY <1>5, <1>7, <1>11
<1> QED BY <1>1, <1>2, <1>3, <1>4, <1>5, <1>7, <1>8, <1>9, <1>10, <1>12 DEF Sound, Sane

(* A sequence joins the cell of another. *)
JoinCell(m, c, t) == [m EXCEPT !.cells[c].seqs = @ \cup {t}, !.tail[t] = c]

(* Then cells, tails and counter still agree.                               *)
LEMMA JoinSound ==
    ASSUME NEW m, Sound(m), NEW t \in SeqId, m.tail[t] = -1,
           NEW c \in Cell, m.cells[c].seqs # {}
    PROVE  /\ Sound(JoinCell(m, c, t)) /\ JoinCell(m, c, t).rs_idx = m.rs_idx
           /\ \A s \in SeqId : JoinCell(m, c, t).tail[s] = IF s = t THEN c ELSE m.tail[s]
           /\ \A i \in Cell :
                /\ JoinCell(m, c, t).cells[i].src = m.cells[i].src
                /\ JoinCell(m, c, t).cells[i].pos = m.cells[i].pos
                /\ JoinCell(m, c, t).cells[i].seqs
                     = IF i = c THEN m.cells[i].seqs \cup {t} ELSE m.cells[i].seqs
<1> DEFINE cs == [m.cells EXCEPT ![c].seqs = @ \cup {t}]
           ts == [m.tail EXCEPT ![t] = c]
<1>1. m \in Memory /\ m.cells \in [Cell -> CellRec] /\ m.tail \in Tails
  BY DEF Sound, Sane, Memory
<1>2. PICK q : q = JoinCell(m, c, t)
  OBVIOUS
<1>3. q = [m EXCEPT !.cells = cs, !.tail = ts]
  BY <1>1, <1>2 DEF JoinCell
<1>4. \A i \in Cell : /\ cs[i] \in CellRec
                      /\ cs[i].src = m.cells[i].src /\ cs[i].pos = m.cells[i].pos
                      /\ cs[i].seqs = IF i = c THEN m.cells[i].seqs \cup {t} ELSE m.cells[i].seqs
  <2> SUFFICES ASSUME NEW i \in Cell
               PROVE  /\ cs[i] \in CellRec
                      /\ cs[i].src = m.cells[i].src /\ cs[i].pos = m.cells[i].pos
                      /\ cs[i].seqs = IF i = c THEN m.cells[i].seqs \cup {t} ELSE m.cells[i].seqs
    OBVIOUS
  <2>1. m.cells[i] \in CellRec
    BY <1>1
  <2>2. PICK N \in SUBSET SeqId : N = m.cells[i].seqs \cup {t}
    BY <2>1 DEF CellRec
  <2>3. cs[i] = IF i = c THEN [m.cells[i] EXCEPT !.seqs = N] ELSE m.cells[i]
    BY <1>1, <2>2
  <2> HIDE DEF cs
  <2>4. CASE i = c
    BY <2>1, <2>2, <2>3, <2>4 DEF CellRec
  <2>5. CASE i # c
    BY <2>1, <2>3, <2>5
  <2> QED BY <2>4, <2>5
<1>5. cs \in [Cell -> CellRec]
  <2>1. cs = [i \in Cell |-> cs[i]]
    BY <1>1
  <2> HIDE DEF cs
  <2> QED BY <1>4, <2>1
<1>6. ts \in Tails /\ \A s \in SeqId : ts[s] = IF s = t THEN c ELSE m.tail[s]
  BY <1>1 DEF Tails
<1> HIDE DEF cs, ts
<1>7. /\ q \in Memory /\ q.cells = cs /\ q.tail = ts /\ q.used = m.used
      /\ q.rs_idx = m.rs_idx
  BY <1>1, <1>3, <1>5, <1>6 DEF Memory
<1>8. \A i \in Cell : m.cells[i].seqs = Held(m.tail, i)
  BY SaneAgree DEF Sound
<1>9. Agree(cs, ts, {})
  <2>1. ASSUME NEW i \in Cell PROVE cs[i].seqs = Held(ts, i)
    <3>1. i # -1
      BY CellsAndSequences
    <3>2. CASE i = c
      <4>1. Held(ts, i) = Held(m.tail, i) \cup {t}
        BY <1>6, <3>2 DEF Held
      <4> QED BY <1>4, <1>8, <3>2, <4>1
    <3>3. CASE i # c
      <4>1. Held(ts, i) = Held(m.tail, i)
        BY <1>6, <3>1, <3>3 DEF Held
      <4> QED BY <1>4, <1>8, <3>3, <4>1
    <3> QED BY <3>2, <3>3
  <2> QED BY <2>1 DEF Agree
<1>10. \A i \in Cell : cs[i].seqs = {} <=> m.cells[i].seqs = {}
  BY <1>4
<1>11. Dated(cs) /\ OwnSources(cs)
  BY <1>4, <1>10 DEF Sound, Sane, Dated, OwnSources
<1>12. m.used = InUse(cs)
  <2>1. {i \in Cell : ~IsEmpty(cs[i])} = {i \in Cell : ~IsEmpty(m.cells[i])}
    BY <1>10 DEF IsEmpty
  <2> QED BY <2>1 DEF Sound, Sane, InUse
<1>13. Sound(q)
  BY <1>7, <1>9, <1>11, <1>12 DEF Sound, Sane
<1> QED BY <1>2, <1>4, <1>6, <1>7, <1>13

(* One sequence is kept and the others leave. *)
Freed(m, s) == {i \in Cell : s \notin m.cells[i].seqs}

KeptAlone(m, s) ==
    [m EXCEPT !.cells = [i \in Cell |->
                IF i \in Freed(m, s) THEN [@[i] EXCEPT !.pos = -1, !.src = -1, !.seqs = {}]
                ELSE [@[i] EXCEPT !.seqs = {s}]],
              !.tail = [t \in SeqId |-> IF t = s THEN @[t] ELSE -1],
              !.used = @ - Cardinality({i \in Freed(m, s) : m.cells[i].pos >= 0})]

(* Then cells, tails and counter still agree.                               *)
LEMMA KeepSound ==
    ASSUME NEW m, Sound(m), NEW s \in SeqId
    PROVE  /\ Sound(KeptAlone(m, s)) /\ KeptAlone(m, s).rs_idx = m.rs_idx
           /\ \A t \in SeqId : KeptAlone(m, s).tail[t] = IF t = s THEN m.tail[t] ELSE -1
           /\ \A i \in Cell :
                /\ KeptAlone(m, s).cells[i].seqs = IF i \in Freed(m, s) THEN {} ELSE {s}
                /\ KeptAlone(m, s).cells[i].pos = IF i \in Freed(m, s) THEN -1 ELSE m.cells[i].pos
                /\ KeptAlone(m, s).cells[i].src = IF i \in Freed(m, s) THEN -1 ELSE m.cells[i].src
<1> DEFINE U == {i \in Freed(m, s) : m.cells[i].pos >= 0}
           cs == [i \in Cell |->
                    IF i \in Freed(m, s) THEN [m.cells[i] EXCEPT !.pos = -1, !.src = -1, !.seqs = {}]
                    ELSE [m.cells[i] EXCEPT !.seqs = {s}]]
           ts == [t \in SeqId |-> IF t = s THEN m.tail[t] ELSE -1]
           us == m.used - Cardinality(U)
<1>1. m \in Memory /\ m.cells \in [Cell -> CellRec] /\ m.tail \in Tails
  BY DEF Sound, Sane, Memory
<1>2. PICK q : q = KeptAlone(m, s)
  OBVIOUS
<1>3. q = [m EXCEPT !.cells = cs, !.tail = ts, !.used = us]
  BY <1>2 DEF KeptAlone
<1>4. \A i \in Cell :
        /\ cs[i] \in CellRec
        /\ cs[i].seqs = IF i \in Freed(m, s) THEN {} ELSE {s}
        /\ cs[i].pos = IF i \in Freed(m, s) THEN -1 ELSE m.cells[i].pos
        /\ cs[i].src = IF i \in Freed(m, s) THEN -1 ELSE m.cells[i].src
  <2> SUFFICES ASSUME NEW i \in Cell
               PROVE  /\ cs[i] \in CellRec
                      /\ cs[i].seqs = IF i \in Freed(m, s) THEN {} ELSE {s}
                      /\ cs[i].pos = IF i \in Freed(m, s) THEN -1 ELSE m.cells[i].pos
                      /\ cs[i].src = IF i \in Freed(m, s) THEN -1 ELSE m.cells[i].src
    OBVIOUS
  <2>1. m.cells[i] \in CellRec
    BY <1>1
  <2>2. PICK x \in Int, N \in SUBSET SeqId, O \in SUBSET SeqId : x = -1 /\ N = {} /\ O = {s}
    <3>1. -1 \in Int /\ {} \in SUBSET SeqId /\ {s} \in SUBSET SeqId
      OBVIOUS
    <3> QED BY <3>1
  <2>3. cs[i] = IF i \in Freed(m, s) THEN [m.cells[i] EXCEPT !.pos = x, !.src = x, !.seqs = N]
                ELSE [m.cells[i] EXCEPT !.seqs = O]
    BY <2>2
  <2>4. x \in Cell \cup {-1}
    BY <2>2
  <2> HIDE DEF cs
  <2>5. CASE i \in Freed(m, s)
    <3>1. cs[i] = [m.cells[i] EXCEPT !.pos = x, !.src = x, !.seqs = N]
      BY <2>3, <2>5
    <3>2. cs[i] \in CellRec /\ cs[i].pos = x /\ cs[i].src = x /\ cs[i].seqs = N
      BY <2>1, <2>4, <3>1 DEF CellRec
    <3> QED BY <2>2, <2>5, <3>2
  <2>6. CASE i \notin Freed(m, s)
    <3>1. cs[i] = [m.cells[i] EXCEPT !.seqs = O]
      BY <2>3, <2>6
    <3>2. cs[i] \in CellRec /\ cs[i].pos = m.cells[i].pos /\ cs[i].src = m.cells[i].src /\ cs[i].seqs = O
      BY <2>1, <3>1 DEF CellRec
    <3> QED BY <2>2, <2>6, <3>2
  <2> QED BY <2>5, <2>6
<1>5. cs \in [Cell -> CellRec]
  <2>1. cs = [i \in Cell |-> cs[i]]
    OBVIOUS
  <2> HIDE DEF cs
  <2> QED BY <1>4, <2>1
<1>6. ts \in Tails /\ \A t \in SeqId : ts[t] = IF t = s THEN m.tail[t] ELSE -1
  BY <1>1 DEF Tails
<1>7. U \in SUBSET Cell
  BY DEF Freed
<1> HIDE DEF U
<1>8. us \in Int /\ Cardinality(U) \in Int
  <2>1. Cardinality(U) \in Int
    <3>1. IsFiniteSet(U)
      BY <1>7, CellsAndSequences, FS_Subset
    <3> QED BY <3>1, FS_CardinalityType
  <2>2. m.used \in Int
    BY <1>1 DEF Memory
  <2> QED BY <2>1, <2>2
<1>13. us = m.used - Cardinality(U)
  OBVIOUS
<1> HIDE DEF cs, ts, us
<1>9. /\ q \in Memory /\ q.cells = cs /\ q.tail = ts /\ q.used = us
      /\ q.rs_idx = m.rs_idx
  BY <1>1, <1>3, <1>5, <1>6, <1>8 DEF Memory
<1>10. Agree(cs, ts, {})
  <2>1. ASSUME NEW i \in Cell PROVE cs[i].seqs = Held(ts, i)
    <3>1. s \in m.cells[i].seqs <=> m.tail[s] = i
      BY SaneAgree DEF Sound, Held
    <3>2. i # -1
      BY CellsAndSequences
    <3>3. Held(ts, i) = IF m.tail[s] = i THEN {s} ELSE {}
      BY <1>6, <3>2 DEF Held
    <3> QED BY <1>4, <3>1, <3>3 DEF Freed
  <2> QED BY <2>1 DEF Agree
<1>11. Dated(cs) /\ OwnSources(cs)
  <2>1. ASSUME NEW i \in Cell PROVE cs[i].seqs = {} <=> cs[i].pos < 0
    <3>1. m.cells[i].seqs = {} <=> m.cells[i].pos < 0
      BY DEF Sound, Sane, Dated
    <3> QED BY <1>4, <3>1 DEF Freed
  <2> QED BY <1>4, <2>1 DEF Sound, Sane, Dated, OwnSources
<1>12. us = InUse(cs)
  <2> DEFINE A == {i \in Cell : ~IsEmpty(m.cells[i])}
             B == {i \in Cell : ~IsEmpty(cs[i])}
  <2>1. ASSUME NEW i \in Cell PROVE i \in B <=> i \in A /\ i \notin U
    <3>1. PICK p \in Int : p = m.cells[i].pos
      BY <1>1, CellFields
    <3>2. m.cells[i].seqs = {} <=> p < 0
      BY <3>1 DEF Sound, Sane, Dated
    <3>3. i \in U <=> i \in Freed(m, s) /\ p >= 0
      BY <3>1 DEF U
    <3>4. i \in B <=> i \notin Freed(m, s)
      BY <1>4 DEF IsEmpty
    <3>5. i \in A <=> m.cells[i].seqs # {}
      BY DEF IsEmpty
    <3>6. i \notin Freed(m, s) <=> s \in m.cells[i].seqs
      BY DEF Freed
    <3> QED BY <3>2, <3>3, <3>4, <3>5, <3>6
  <2>2. ASSUME NEW i \in U PROVE i \in A
    <3>1. i \in Cell
      BY <1>7
    <3>2. PICK p \in Int : p = m.cells[i].pos
      BY <1>1, <3>1, CellFields
    <3>3. p >= 0
      BY <3>2 DEF U
    <3>4. m.cells[i].seqs = {} <=> p < 0
      BY <3>1, <3>2 DEF Sound, Sane, Dated
    <3> QED BY <3>1, <3>3, <3>4 DEF IsEmpty
  <2>3. B = A \ U /\ A \cap U = U
    BY <2>1, <2>2
  <2>4. IsFiniteSet(A)
    BY CellsAndSequences, FS_Subset
  <2>5. Cardinality(B) = Cardinality(A) - Cardinality(U)
    BY <2>3, <2>4, FS_Difference
  <2>6. m.used = Cardinality(A)
    BY DEF Sound, Sane, InUse
  <2> QED BY <1>13, <2>5, <2>6 DEF InUse
<1>14. Sound(q)
  BY <1>9, <1>10, <1>11, <1>12 DEF Sound, Sane
<1> QED BY <1>2, <1>4, <1>6, <1>9, <1>14

-----------------------------------------------------------------------------
(* The inductive invariant.                                                 *)

(* The micro batches still to process are well formed. *)
Queued(b) == \E S : b \in Seq(S) /\ \A ub \in S : WellUbatch(ub) /\ ub.n \in Nat

(* The positions the client has reached. *)
Reached(r) == \E x : \E p \in Int : p >= -1 /\ r = [toks |-> x, pos |-> p]

Followed(t) == t = [s \in SeqId |-> t[s]] /\ \A s \in SeqId : Reached(t[s])

(* The checkpoints. *)
Checkpointed(cs) == \A c \in cs : c.pos \in Nat /\ Reached(c.told)

IInv ==
    /\ setting \in Settings
    /\ Sound(mem)
    /\ ~broken
    /\ Queued(batch)
    /\ phase = "decode" => batch # << >>
    /\ Followed(told)
    /\ Checkpointed(saved)

(* What a sequence has reached is a record with a position from -1 on.      *)
LEMMA Reaches ==
    ASSUME NEW r, Reached(r)
    PROVE  r.pos \in Int /\ r.pos >= -1 /\ r = [toks |-> r.toks, pos |-> r.pos]
BY DEF Reached

(* A sequence reaches another position. *)
LEMMA FollowedOn ==
    ASSUME NEW t, Followed(t), NEW s \in SeqId, NEW r, Reached(r)
    PROVE  Followed([t EXCEPT ![s] = r])
<1>1. t = [x \in SeqId |-> t[x]] /\ \A x \in SeqId : Reached(t[x])
  BY DEF Followed
<1>2. PICK u : u = [t EXCEPT ![s] = r]
  OBVIOUS
<1>3. u = [x \in SeqId |-> u[x]]
  BY <1>1, <1>2
<1>4. \A x \in SeqId : u[x] = IF x = s THEN r ELSE t[x]
  BY <1>1, <1>2
<1>5. \A x \in SeqId : Reached(u[x])
  BY <1>1, <1>4
<1> QED BY <1>2, <1>3, <1>5 DEF Followed

(* A sequence the client has put nothing into.                              *)
LEMMA NothingReached == Reached(Nothing)
<1>1. -1 \in Int /\ -1 >= -1
  OBVIOUS
<1> QED BY <1>1 DEF Reached, Nothing

(* A client that has put nothing anywhere.                                  *)
LEMMA NothingFollowed == Followed([s \in SeqId |-> Nothing])
<1>1. PICK t : t = [s \in SeqId |-> Nothing]
  OBVIOUS
<1>2. \A s \in SeqId : t[s] = Nothing
  BY <1>1
<1> QED BY <1>1, <1>2, NothingReached DEF Followed

(* An action leaves the invariant when it leaves the memory sound. *)
LEMMA Keeps ==
    ASSUME setting \in Settings, UNCHANGED setting, Sound(mem'), ~broken', Queued(batch'),
           phase' = "decode" => batch' # << >>, Followed(told'), Checkpointed(saved')
    PROVE  IInv'
<1>1. Sound(mem)'
  BY DEF Sound
<1> QED BY <1>1 DEF IInv

(* A call of the client that changes neither the queue nor the checkpoints. *)
LEMMA CallKeeps ==
    ASSUME IInv, UNCHANGED <<setting, batch, phase, client, broken>>, Sound(mem'), Followed(told')
    PROVE  IInv'
<1>1. /\ setting \in Settings /\ ~broken /\ Queued(batch)
      /\ phase = "decode" => batch # << >>
      /\ Checkpointed(saved)
  BY DEF IInv
<1>2. ~broken' /\ batch' = batch /\ phase' = phase /\ saved' = saved /\ UNCHANGED setting
  BY <1>1 DEF client
<1> QED BY <1>1, <1>2, Keeps

(* The memory the first call finds is an emptied one.                       *)
LEMMA InitEmpty ==
    ASSUME Init
    PROVE  mem \in Memory /\ Emptied(mem) = mem
<1> DEFINE m0 == [cells |-> [i \in Cell |-> Free], tail |-> [s \in SeqId |-> -1], head |-> 0,
                  used |-> 0, n |-> 0, rs_z |-> -1, rs_idx |-> [s \in SeqId |-> 0]]
<1>1. setting \in Settings /\ mem = m0
  BY DEF Init
<1>2. mem \in Memory
  <2> DEFINE cs == [i \in Cell |-> Free]
             ts == [s \in SeqId |-> -1]
             zs == [s \in SeqId |-> 0]
  <2>1. Free \in CellRec
    BY DEF Free, CellRec
  <2>2. cs \in [Cell -> CellRec] /\ ts \in Tails /\ zs \in [SeqId -> Nat]
    BY <2>1 DEF Tails
  <2>3. PICK x \in Int, y \in Cell, z \in Int : x = 0 /\ y = 0 /\ z = -1
    <3>1. 0 \in Int /\ -1 \in Int /\ 0 \in Cell
      BY CellsAndSequences
    <3> QED BY <3>1
  <2>4. mem = [cells |-> cs, tail |-> ts, head |-> y, used |-> x, n |-> x, rs_z |-> z, rs_idx |-> zs]
    BY <1>1, <2>3
  <2> HIDE DEF cs, ts, zs
  <2> QED BY <2>2, <2>4 DEF Memory
<1>3. Emptied(mem) = mem
  <2> DEFINE cs == [i \in Cell |-> Free]
             ts == [s \in SeqId |-> -1]
             zs == [s \in SeqId |-> 0]
  <2>1. PICK z : z = -1
    OBVIOUS
  <2>2. mem = [cells |-> cs, tail |-> ts, head |-> 0, used |-> 0, n |-> 0, rs_z |-> z, rs_idx |-> zs]
    BY <1>1, <2>1
  <2>3. Emptied(mem) = [mem EXCEPT !.cells = cs, !.tail = ts, !.head = 0, !.used = 0, !.rs_idx = zs]
    BY DEF Emptied
  <2> HIDE DEF cs, ts, zs
  <2> QED BY <2>2, <2>3
<1> QED BY <1>2, <1>3

(* The invariant holds at first.                                            *)
LEMMA InitSound == Init => IInv
<1> SUFFICES ASSUME Init PROVE IInv
  OBVIOUS
<1>1. setting \in Settings
  BY DEF Init
<1>2. mem \in Memory /\ Emptied(mem) = mem
  BY InitEmpty
<1>3. Sound(mem)
  BY <1>1, <1>2, EmptySound
<1>4. Queued(batch)
  <2>1. batch \in Seq({}) /\ \A ub \in {} : WellUbatch(ub) /\ ub.n \in Nat
    BY DEF Init
  <2> QED BY <2>1 DEF Queued
<1>5. Followed(told) /\ Checkpointed(saved)
  BY NothingFollowed DEF Init, Checkpointed
<1> QED BY <1>1, <1>3, <1>4, <1>5 DEF IInv, Init

(* A sequence is removed.                                                   *)
LEMMA RemoveSeqKeeps ==
    ASSUME IInv, NEW s \in SeqId, RemoveSeq(s)
    PROVE  IInv'
<1>1. 0 \in Int /\ Inf \in Int
  BY DEF Inf
<1>2. Sound(mem')
  <2>1. Sound(SeqRm(mem, s, 0, Inf).m)
    BY <1>1, SeqRmSound DEF IInv
  <2> QED BY <2>1 DEF RemoveSeq
<1>3. Followed(told')
  BY FollowedOn, NothingReached DEF RemoveSeq, IInv
<1> QED BY <1>2, <1>3, CallKeeps DEF RemoveSeq

(* Tokens of a draft are taken back; none of them is at position 0.         *)
LEMMA RollbackKeeps ==
    ASSUME IInv, NEW s \in SeqId, NEW d \in Nat, Rollback(s, d)
    PROVE  IInv'
<1>1. told[s].pos \in Int /\ Reached(told[s])
  BY Reaches DEF IInv, Followed
<1>2. PICK p0 \in Int, p1 \in Int : p0 = told[s].pos - d + 1 /\ p1 = Inf
  BY <1>1 DEF Inf
<1>3. Sound(mem')
  <2>1. Sound(SeqRm(mem, s, p0, p1).m)
    BY SeqRmSound DEF IInv
  <2> QED BY <1>2, <2>1 DEF Rollback
<1>4. Followed(told')
  <2> DEFINE r == [toks |-> SubSeq(told[s].toks, 1, Len(told[s].toks) - d), pos |-> told[s].pos - d]
  <2>1. told' = [told EXCEPT ![s] = r] \/ told' = told
    BY DEF Rollback
  <2>2. d <= told[s].pos
    BY DEF Rollback
  <2>3. Reached(r)
    <3>1. told[s].pos - d \in Int /\ told[s].pos - d >= -1
      BY <1>1, <2>2
    <3> QED BY <3>1 DEF Reached
  <2> HIDE DEF r
  <2> QED BY <2>1, <2>3, FollowedOn DEF IInv
<1> QED BY <1>3, <1>4, CallKeeps DEF Rollback

(* A sequence is copied.                                                    *)
LEMMA CopyKeeps ==
    ASSUME IInv, NEW s \in SeqId, NEW t \in SeqId, Copy(s, t)
    PROVE  IInv'
<1> DEFINE m == IF mem.tail[t] >= 0 THEN Leave(mem, {t}) ELSE mem
           c == m.tail[s]
<1>1. mem' = (IF c < 0 THEN m ELSE JoinCell(m, c, t)) /\ s # t
  BY DEF Copy, JoinCell
<1>2. Sound(m)
  BY LeaveSound DEF IInv
<1>3. m.tail[t] = -1
  <2>1. CASE mem.tail[t] >= 0
    <3>1. m = Leave(mem, {t})
      BY <2>1
    <3>2. {t} \in SUBSET SeqId /\ mem \in Memory
      BY DEF IInv, Sound, Sane
    <3>3. m.tail = [x \in SeqId |-> IF x \in {t} THEN -1 ELSE mem.tail[x]]
      BY <3>1, <3>2, LeaveIs
    <3> HIDE DEF m
    <3> QED BY <3>3
  <2>2. CASE ~ (mem.tail[t] >= 0)
    <3>1. PICK x \in Cell \cup {-1} : x = mem.tail[t]
      BY TailCell DEF IInv, Sound
    <3>2. x = -1
      BY <2>2, <3>1, CellsAndSequences
    <3> QED BY <2>2, <3>1, <3>2
  <2> QED BY <2>1, <2>2
<1> HIDE DEF m
<1>4. Sound(mem')
  <2>1. CASE c < 0
    BY <1>1, <1>2, <2>1
  <2>2. CASE ~ (c < 0)
    <3>1. PICK x \in Int : x = c
      BY <1>2, TailCell DEF Sound
    <3>2. x >= 0
      BY <2>2, <3>1
    <3>3. c \in Cell /\ m.cells[c].seqs # {}
      BY <1>2, <3>1, <3>2, TailCell DEF Sound
    <3> HIDE DEF c
    <3>4. Sound(JoinCell(m, c, t))
      BY <1>2, <1>3, <3>3, JoinSound
    <3> QED BY <1>1, <2>2, <3>4
  <2> QED BY <2>1, <2>2
<1>5. Followed(told')
  <2>1. Reached(told[s]) /\ Followed(told)
    BY DEF IInv, Followed
  <2> QED BY <2>1, FollowedOn DEF Copy
<1> QED BY <1>4, <1>5, CallKeeps DEF Copy

(* All sequences but one are removed.                                       *)
LEMMA KeepKeeps ==
    ASSUME IInv, NEW s \in SeqId, Keep(s)
    PROVE  IInv'
<1>1. mem' = MoveHead(KeptAlone(mem, s), Freed(mem, s))
  BY DEF Keep, KeptAlone, Freed
<1>2. PICK m : m = KeptAlone(mem, s)
  OBVIOUS
<1>3. Sound(m)
  BY <1>2, KeepSound DEF IInv
<1>4. Sound(mem')
  <2>1. Freed(mem, s) \in SUBSET Cell
    BY DEF Freed
  <2>2. Sane(MoveHead(m, Freed(mem, s))) /\ MoveHead(m, Freed(mem, s)).rs_idx = m.rs_idx
    BY <1>3, <2>1, MoveHeadSane DEF Sound
  <2>3. mem' = MoveHead(m, Freed(mem, s))
    BY <1>1, <1>2
  <2> QED BY <1>3, <2>2, <2>3 DEF Sound
<1>5. Followed(told')
  <2>1. \A t \in SeqId : Reached(told[t])
    BY DEF IInv, Followed
  <2>2. told' = [t \in SeqId |-> IF t = s THEN told[t] ELSE Nothing]
    BY DEF Keep
  <2>3. \A t \in SeqId : told'[t] = IF t = s THEN told[t] ELSE Nothing
    BY <2>2
  <2>4. \A t \in SeqId : Reached(told'[t])
    BY <2>1, <2>3, NothingReached
  <2>5. told' = [t \in SeqId |-> told'[t]]
    BY <2>2
  <2> QED BY <2>4, <2>5 DEF Followed
<1> QED BY <1>4, <1>5, CallKeeps DEF Keep

(* A sequence that has its cell alone gets another position.                *)
LEMMA EditKeeps ==
    ASSUME IInv, NEW s \in SeqId, NEW p \in Nat, Edit(s, p)
    PROVE  IInv'
<1>1. mem.tail[s] >= 0
  BY DEF Edit
<1>2. PICK c \in Cell : c = mem.tail[s] /\ mem.cells[c].seqs # {}
  BY <1>1, TailCell DEF IInv, Sound
<1>3. mem' = Redated(mem, c, p)
  BY <1>2 DEF Edit, Redated
<1>4. PICK q : q = Redated(mem, c, p)
  OBVIOUS
<1>5. Sane(q) /\ q.rs_idx = mem.rs_idx
  BY <1>2, <1>4, CellDated DEF IInv, Sound
<1>6. Sound(mem')
  BY <1>3, <1>4, <1>5 DEF IInv, Sound
<1>7. Followed(told')
  <2>1. Reached(told[s]) /\ Followed(told) /\ told = [x \in SeqId |-> told[x]]
    BY DEF IInv, Followed
  <2> DEFINE r == [toks |-> told[s].toks, pos |-> p]
  <2>2. p \in Int /\ p >= -1
    OBVIOUS
  <2>3. Reached(r)
    BY <2>2 DEF Reached
  <2>4. told' = [told EXCEPT ![s] = [told[s] EXCEPT !.pos = p]]
    BY DEF Edit
  <2>5. [told[s] EXCEPT !.pos = p] = r
    <3>1. PICK x, y : told[s] = [toks |-> x, pos |-> y]
      BY <2>1 DEF Reached
    <3> QED BY <3>1
  <2>6. told' = [told EXCEPT ![s] = r]
    BY <2>4, <2>5
  <2> HIDE DEF r
  <2> QED BY <2>1, <2>3, <2>6, FollowedOn
<1> QED BY <1>6, <1>7, CallKeeps DEF Edit

(* The position of a sequence. *)
LEMMA PosOfType ==
    ASSUME IInv, NEW s \in SeqId
    PROVE  PosOf(mem, s) \in Int /\ (mem.tail[s] >= 0 => PosOf(mem, s) \in Nat)
<1>1. PICK x \in Int : x = mem.tail[s]
  BY TailCell DEF IInv, Sound
<1>2. CASE x >= 0
  <2>1. mem.cells[mem.tail[s]].pos \in Nat
    BY <1>1, <1>2, TailCell DEF IInv, Sound
  <2> QED BY <1>1, <1>2, <2>1 DEF PosOf
<1>3. CASE ~ (x >= 0)
  <2>1. PosOf(mem, s) = -1
    BY <1>1, <1>3 DEF PosOf
  <2> QED BY <1>1, <1>3, <2>1
<1> QED BY <1>2, <1>3

(* Its position is moved.                                                   *)
LEMMA SeqAddKeeps ==
    ASSUME IInv, NEW s \in SeqId, SeqAdd(s)
    PROVE  IInv'
<1>1. PICK p \in Int : p = PosOf(mem, s)
  BY PosOfType
<1>2. p >= 1 /\ Edit(s, p - 1)
  BY <1>1 DEF SeqAdd
<1>3. p - 1 \in Nat
  BY <1>2
<1> QED BY <1>2, <1>3, EditKeeps

(* Its position is divided.                                                 *)
LEMMA SeqDivKeeps ==
    ASSUME IInv, NEW s \in SeqId, SeqDiv(s)
    PROVE  IInv'
<1>1. PICK p \in Int : p = PosOf(mem, s)
  BY PosOfType
<1>2. p >= 2 /\ Edit(s, p \div 2)
  BY <1>1 DEF SeqDiv
<1>3. p \div 2 \in Nat
  BY <1>2
<1> QED BY <1>2, <1>3, EditKeeps

(* The memory is cleared.                                                   *)
LEMMA ClearKeeps ==
    ASSUME IInv, Clear
    PROVE  IInv'
<1>1. mem' = Emptied(mem)
  BY DEF Clear, Emptied
<1>2. Sound(mem')
  BY <1>1, EmptySound DEF IInv, Sound, Sane
<1>3. Followed(told')
  BY NothingFollowed DEF Clear
<1>4. /\ ~broken' /\ batch' = batch /\ phase' = "idle" /\ saved' = saved
      /\ UNCHANGED setting /\ setting \in Settings /\ Queued(batch) /\ Checkpointed(saved)
  BY DEF Clear, client, IInv
<1> QED BY <1>2, <1>3, <1>4, Keeps

(* A checkpoint is written.                                                 *)
LEMMA StateWriteKeeps ==
    ASSUME IInv, NEW s \in SeqId, StateWrite(s)
    PROVE  IInv'
<1>1. PosOf(mem, s) \in Nat
  BY PosOfType DEF StateWrite
<1>2. Reached(told[s])
  BY DEF IInv, Followed
<1>3. Checkpointed(saved')
  <2>1. \A c \in saved' : c \in saved \/ c = [pos |-> PosOf(mem, s), state |-> State(s), told |-> told[s]]
    BY DEF StateWrite
  <2> QED BY <1>1, <1>2, <2>1 DEF IInv, Checkpointed
<1>4. UNCHANGED <<setting, mem, batch, phase, told, broken>>
  BY DEF StateWrite
<1>5. Sound(mem')
  BY <1>4 DEF IInv
<1> QED BY <1>3, <1>4, <1>5, Keeps DEF IInv

-----------------------------------------------------------------------------
(* Decoding keeps the invariant.                                            *)

(* The sequence sets of a batch. *)
LEMMA UbSetsAreWell ==
    ASSUME NEW q \in UbSets
    PROVE  WellSets(q)
<1>1. SeqSets \subseteq SUBSET SeqId /\ \A x \in SeqSets : x # {}
  <2>1. CASE "couple" \in setting.calls
    BY <2>1 DEF SeqSets
  <2>2. CASE ~ ("couple" \in setting.calls)
    BY <2>2 DEF SeqSets
  <2> QED BY <2>1, <2>2
<1>2. \A j \in DOMAIN q, k \in DOMAIN q : j # k => q[j] \cap q[k] = {}
  BY DEF UbSets
<1>3. PICK n \in 1 .. NSeq : q \in [1 .. n -> SeqSets]
  BY DEF UbSets
<1>4. n \in Nat /\ n > 0
  BY CellsAndSequences
<1>5. q \in Seq(SUBSET SeqId) /\ Len(q) = n
  <2>1. q \in [1 .. n -> SUBSET SeqId]
    BY <1>1, <1>3
  <2> QED BY <1>4, <2>1
<1>6. \A k \in 1 .. n : q[k] # {}
  BY <1>1, <1>3
<1>7. DOMAIN q = 1 .. n
  BY <1>3
<1> QED BY <1>2, <1>4, <1>5, <1>6, <1>7 DEF WellSets

(* A batch of the client. *)
LEMMA BatchIs ==
    ASSUME setting \in Settings, NEW b \in Batches
    PROVE  \E n \in Nat : /\ n > 0
                          /\ DOMAIN b = 1 .. n
                          /\ \A k \in 1 .. n : /\ WellSets(b[k].sets)
                                               /\ b[k].n \in Nat /\ b[k].n > 0
<1> DEFINE ub == [sets : {q \in UbSets : \A j \in DOMAIN q : Coupled(q[j])}, n : 1 .. setting.tok]
<1>1. b \in UNION {[1 .. k -> ub] : k \in 1 .. setting.ubs}
  BY DEF Batches
<1>2. setting.ubs \in Nat /\ setting.tok \in Nat
  BY MemoryAssumption
<1>3. PICK n \in 1 .. setting.ubs : b \in [1 .. n -> ub]
  BY <1>1
<1>4. n \in Nat /\ n > 0
  BY <1>2
<1>5. ASSUME NEW u \in ub PROVE WellSets(u.sets) /\ u.n \in Nat /\ u.n > 0
  <2>1. u.sets \in UbSets /\ u.n \in 1 .. setting.tok
    OBVIOUS
  <2> QED BY <1>2, <2>1, UbSetsAreWell
<1> HIDE DEF ub
<1>6. DOMAIN b = 1 .. n /\ \A k \in 1 .. n : b[k] \in ub
  BY <1>3
<1> QED BY <1>4, <1>5, <1>6

(* The positions of a batch follow those the client has reached. *)
LEMMA PositionsAreWell ==
    ASSUME IInv, NEW b \in Batches
    PROVE  /\ Queued(Positions(b)) /\ Positions(b) # << >>
           /\ Len(Positions(b)) \in Nat
           /\ \A k \in 1 .. Len(Positions(b)) : WellUbatch(Positions(b)[k])
<1>1. PICK n \in Nat : /\ n > 0 /\ DOMAIN b = 1 .. n
                       /\ \A k \in 1 .. n : /\ WellSets(b[k].sets)
                                            /\ b[k].n \in Nat /\ b[k].n > 0
  BY BatchIs DEF IInv
<1>2. PICK p : p = Positions(b)
  OBVIOUS
<1> DEFINE at(k) == [sets |-> b[k].sets, n |-> b[k].n,
                     last |-> [j \in DOMAIN b[k].sets |-> Position(b, k, b[k].sets[j])]]
<1>3. p = [k \in 1 .. n |-> at(k)]
  BY <1>1, <1>2 DEF Positions
<1>4. ASSUME NEW k \in 1 .. n PROVE WellUbatch(at(k)) /\ at(k).n \in Nat
  <2>1. WellSets(b[k].sets) /\ b[k].n \in Nat /\ b[k].n > 0 /\ k \in Nat /\ k > 0
    BY <1>1
  <2>2. DOMAIN b[k].sets = 1 .. Len(b[k].sets)
    BY <2>1, SetsType
  <2>3. ASSUME NEW j \in 1 .. Len(b[k].sets) PROVE Position(b, k, b[k].sets[j]) \in Nat
    <3>1. PICK s \in SeqId : s = Main(b[k].sets[j]) /\ s \in b[k].sets[j]
      BY <2>1, MainIs DEF WellSets
    <3>2. s \in UNION Range(b[k].sets)
      BY <2>2, <3>1 DEF Range
    <3>3. \A i \in 1 .. k : b[i].n \in Nat
      BY <1>1
    <3>4. TokensIn(b, k, s) \in Nat /\ TokensIn(b, k, s) >= b[k].n
      BY <2>1, <3>2, <3>3, TokensInType
    <3>5. told[s].pos \in Int /\ told[s].pos >= -1
      BY Reaches DEF IInv, Followed
    <3>6. PICK x \in Nat, y \in Int, z \in Nat : x = TokensIn(b, k, s) /\ y = told[s].pos /\ z = b[k].n
      BY <2>1, <3>4, <3>5
    <3>7. y + x \in Nat
      BY <2>1, <3>4, <3>5, <3>6
    <3> QED BY <3>1, <3>6, <3>7 DEF Position
  <2>4. at(k).sets = b[k].sets /\ at(k).n = b[k].n
    OBVIOUS
  <2>5. \A j \in 1 .. Len(b[k].sets) : at(k).last[j] \in Nat
    BY <2>2, <2>3
  <2> QED BY <2>1, <2>4, <2>5 DEF WellUbatch
<1> HIDE DEF at
<1>5. p \in Seq({at(k) : k \in 1 .. n}) /\ Len(p) = n
  <2>1. PICK S : S = {at(k) : k \in 1 .. n}
    OBVIOUS
  <2>2. p \in [1 .. n -> S]
    BY <1>3, <2>1
  <2>3. p \in Seq(S) /\ Len(p) = n
    BY <2>2
  <2> QED BY <2>1, <2>3
<1>6. Queued(p)
  BY <1>4, <1>5 DEF Queued
<1>7. \A k \in 1 .. n : WellUbatch(p[k])
  BY <1>3, <1>4
<1>8. p # << >>
  BY <1>1, <1>5
<1> QED BY <1>2, <1>5, <1>6, <1>7, <1>8

(* A batch is tried and accepted: no batch is refused for want of cells.    *)
LEMMA DecodeKeeps ==
    ASSUME IInv, NEW b0 \in Batches, Decode(b0)
    PROVE  IInv'
<1>1. PICK b : b = Positions(b0)
  OBVIOUS
<1>2. Queued(b) /\ b # << >> /\ Len(b) \in Nat /\ \A k \in 1 .. Len(b) : WellUbatch(b[k])
  BY <1>1, PositionsAreWell
<1>3. Tried(mem, b).ok
  BY <1>2, TriedOk DEF IInv, Sound
<1>4. batch' = b /\ ~broken' /\ UNCHANGED <<setting, mem, client, told>>
  BY <1>1, <1>3 DEF Decode, IInv
<1>5. Sound(mem') /\ Followed(told') /\ Checkpointed(saved')
  BY <1>4 DEF IInv, client
<1> QED BY <1>2, <1>4, <1>5, Keeps DEF IInv

(* The next micro batch of a batch. *)
LEMMA NextUbatch ==
    ASSUME NEW b, Queued(b), b # << >>
    PROVE  /\ WellUbatch(Head(b)) /\ Head(b).n \in Nat
           /\ Queued(Tail(b)) /\ Len(b) \in Nat
           /\ Len(b) # 1 => Tail(b) # << >>
<1>1. PICK S : b \in Seq(S) /\ \A ub \in S : WellUbatch(ub) /\ ub.n \in Nat
  BY DEF Queued
<1>2. Head(b) \in S /\ Tail(b) \in Seq(S) /\ Len(Tail(b)) = Len(b) - 1 /\ Len(b) \in Nat
  BY <1>1
<1>3. Len(b) # 1 => Tail(b) # << >>
  <2> SUFFICES ASSUME Tail(b) = << >> PROVE Len(b) = 1
    OBVIOUS
  <2>1. PICK t \in Seq(S) : t = Tail(b) /\ Len(t) = Len(b) - 1
    BY <1>2
  <2>2. Len(t) = 0
    BY <2>1
  <2>3. PICK n \in Nat : n = Len(b)
    BY <1>2
  <2> QED BY <2>1, <2>2, <2>3
<1>4. Queued(Tail(b))
  BY <1>1, <1>2 DEF Queued
<1> QED BY <1>1, <1>2, <1>3, <1>4

(* The client follows the positions of the micro batch.                     *)
LEMMA AdvanceFollowed ==
    ASSUME Followed(told), NEW ub, WellUbatch(ub)
    PROVE  Followed(Advance(ub))
<1> DEFINE js(s) == {k \in DOMAIN ub.sets : s \in ub.sets[k]}
           r(s, k) == [toks |-> told[s].toks \o [x \in 1 .. ub.n |-> Main(ub.sets[k])], pos |-> ub.last[k]]
           to(s) == IF js(s) = {} THEN told[s] ELSE r(s, Min(js(s)))
<1>1. Advance(ub) = [s \in SeqId |-> to(s)]
  BY DEF Advance
<1>2. ASSUME NEW s \in SeqId PROVE Reached(to(s))
  <2>1. CASE js(s) = {}
    BY <2>1 DEF Followed
  <2>2. CASE js(s) # {}
    <3>1. js(s) \subseteq 1 .. Len(ub.sets) /\ Len(ub.sets) \in Nat
      BY SetsType DEF WellUbatch
    <3>2. js(s) \subseteq Nat
      BY <3>1
    <3>3. Min(js(s)) \in js(s)
      BY <2>2, <3>2, MinIs
    <3>4. PICK k \in 1 .. Len(ub.sets) : k = Min(js(s))
      BY <3>1, <3>3
    <3>5. ub.last[k] \in Int /\ ub.last[k] >= -1
      <4>1. ub.last[k] \in Nat
        BY DEF WellUbatch
      <4> QED BY <4>1
    <3>6. to(s) = r(s, k)
      BY <2>2, <3>4
    <3> QED BY <3>5, <3>6 DEF Reached
  <2> QED BY <2>1, <2>2
<1> HIDE DEF to
<1>3. PICK t : t = [s \in SeqId |-> to(s)]
  OBVIOUS
<1>4. t = [s \in SeqId |-> t[s]] /\ \A s \in SeqId : Reached(t[s])
  BY <1>2, <1>3
<1> QED BY <1>1, <1>3, <1>4 DEF Followed

(* A micro batch is processed.                                              *)
LEMMA ProcessUbatchKeeps ==
    ASSUME IInv, ProcessUbatch
    PROVE  IInv'
<1>1. PICK ub : ub = Head(batch)
  OBVIOUS
<1>2. Queued(batch) /\ batch # << >>
  BY DEF ProcessUbatch, IInv
<1>3. /\ WellUbatch(ub) /\ Queued(Tail(batch)) /\ Len(batch) \in Nat
      /\ Len(batch) # 1 => Tail(batch) # << >>
  BY <1>1, <1>2, NextUbatch
<1>4. FindSlot(mem, ub).ok /\ Sound(FindSlot(mem, ub).m)
  BY <1>3, FindSlotSound DEF IInv
<1>5. PICK m : m = FindSlot(mem, ub).m
  OBVIOUS
<1>6. Sound(Consumed(m))
  BY <1>4, <1>5, ConsumedSound DEF IInv
<1>7. /\ mem' = Consumed(m) /\ told' = Advance(ub) /\ ~broken'
      /\ batch' = Tail(batch) /\ phase' = (IF Len(batch) = 1 THEN "idle" ELSE "decode")
      /\ UNCHANGED <<setting, client>>
  BY <1>1, <1>4, <1>5 DEF ProcessUbatch, IInv
<1>8. Sound(mem')
  BY <1>6, <1>7
<1>9. Followed(told')
  BY <1>3, <1>7, AdvanceFollowed DEF IInv
<1>10. Queued(batch') /\ (phase' = "decode" => batch' # << >>) /\ Checkpointed(saved')
  BY <1>3, <1>7 DEF IInv, client
<1> QED BY <1>7, <1>8, <1>9, <1>10, Keeps DEF IInv

(* A micro batch fails, and its positions are removed.                      *)
LEMMA ProcessUbatchFailsKeeps ==
    ASSUME IInv, ProcessUbatchFails
    PROVE  IInv'
<1>1. PICK ub : ub = Head(batch)
  OBVIOUS
<1>2. Queued(batch) /\ batch # << >>
  BY DEF ProcessUbatchFails, IInv
<1>3. WellUbatch(ub) /\ ub.n \in Nat
  BY <1>1, <1>2, NextUbatch
<1>4. FindSlot(mem, ub).ok /\ Sound(FindSlot(mem, ub).m)
  BY <1>3, FindSlotSound DEF IInv
<1>5. PICK m : m = FindSlot(mem, ub).m
  OBVIOUS
<1>6. Sound(Consumed(m))
  BY <1>4, <1>5, ConsumedSound DEF IInv
<1>7. PICK c : c = Consumed(m)
  OBVIOUS
<1>8. Sound(Removed(c, ub))
  BY <1>3, <1>6, <1>7, RemovedSound DEF IInv
<1>9. /\ mem' = Removed(c, ub) /\ told' = [s \in SeqId |-> Nothing] /\ ~broken'
      /\ batch' = << >> /\ phase' = "failed"
      /\ UNCHANGED <<setting, client>>
  BY <1>1, <1>4, <1>5, <1>7 DEF ProcessUbatchFails, IInv
<1>10. Sound(mem')
  BY <1>8, <1>9
<1>11. Followed(told')
  BY <1>9, NothingFollowed
<1>12. Queued(batch')
  <2>1. batch' \in Seq({}) /\ \A u \in {} : WellUbatch(u) /\ u.n \in Nat
    BY <1>9
  <2> QED BY <2>1 DEF Queued
<1>13. Checkpointed(saved')
  BY <1>9 DEF IInv, client
<1> QED BY <1>9, <1>10, <1>11, <1>12, <1>13, Keeps DEF IInv

(* A checkpoint is restored, or its data do not arrive.                     *)
LEMMA StateReadKeeps ==
    ASSUME IInv, NEW s \in SeqId, NEW c \in saved, NEW arrives \in BOOLEAN, StateRead(s, c, arrives)
    PROVE  IInv'
<1>1. PICK ub : ub = [sets |-> <<{s}>>, n |-> 1, last |-> <<c.pos>>]
  OBVIOUS
<1>2. WellUbatch(ub)
  <2>1. c.pos \in Nat
    BY DEF IInv, Checkpointed
  <2>2. PICK q : q = <<{s}>>
    OBVIOUS
  <2>3. q \in Seq(SUBSET SeqId) /\ Len(q) = 1 /\ q[1] = {s}
    BY <2>2
  <2>4. WellSets(q)
    BY <2>3 DEF WellSets
  <2>5. ub.sets = q /\ ub.last[1] = c.pos
    BY <1>1, <2>2
  <2>6. \A k \in 1 .. Len(ub.sets) : ub.last[k] \in Nat
    <3>1. ASSUME NEW k \in 1 .. 1 PROVE k = 1
      OBVIOUS
    <3> QED BY <2>1, <2>3, <2>5, <3>1
  <2> QED BY <2>4, <2>5, <2>6 DEF WellUbatch
<1>3. 0 \in Int /\ Inf \in Int
  BY DEF Inf
<1>4. PICK m : m = SeqRm(mem, s, 0, Inf).m
  OBVIOUS
<1>5. Sound(m)
  BY <1>3, <1>4, SeqRmSound DEF IInv
<1>6. FindSlot(m, ub).ok /\ Sound(FindSlot(m, ub).m)
  BY <1>2, <1>5, FindSlotSound
<1>7. PICK f : f = Forget(FindSlot(m, ub).m)
  OBVIOUS
<1>8. Sound(f)
  <2>1. PICK r : r = FindSlot(m, ub).m
    OBVIOUS
  <2> QED BY <1>6, <1>7, <2>1, ForgetSound
<1>9. /\ mem' = IF arrives THEN [f EXCEPT !.rs_idx[s] = 0] ELSE SeqRm(f, s, 0, Inf).m
      /\ told' = [told EXCEPT ![s] = IF arrives THEN c.told ELSE Nothing]
      /\ ~broken'
      /\ UNCHANGED <<setting, batch, phase, client>>
  BY <1>1, <1>4, <1>6, <1>7 DEF StateRead, IInv
<1>10. Sound(mem')
  <2>1. Sound(SeqRm(f, s, 0, Inf).m)
    BY <1>3, <1>8, SeqRmSound DEF IInv
  <2>2. PICK g : g = Dropped(f, s)
    OBVIOUS
  <2>3. Sound(g)
    BY <1>8, <2>2, IndexDropped DEF IInv
  <2>4. mem' = IF arrives THEN g ELSE SeqRm(f, s, 0, Inf).m
    BY <1>9, <2>2 DEF Dropped
  <2> QED BY <2>1, <2>3, <2>4
<1>11. Followed(told')
  <2>1. Reached(c.told) /\ Followed(told)
    BY DEF IInv, Checkpointed
  <2>2. PICK r : r = IF arrives THEN c.told ELSE Nothing
    OBVIOUS
  <2>3. Reached(r)
    BY <2>1, <2>2, NothingReached
  <2> QED BY <1>9, <2>1, <2>2, <2>3, FollowedOn
<1>12. Queued(batch') /\ (phase' = "decode" => batch' # << >>) /\ Checkpointed(saved')
  BY <1>9 DEF IInv, client
<1> QED BY <1>9, <1>10, <1>11, <1>12, Keeps DEF IInv

(* Every step keeps the invariant. *)
LEMMA NextKeeps ==
    ASSUME IInv, [Next]_vars
    PROVE  IInv'
<1>1. Known \subseteq SeqId
  BY DEF Known
<1>2. setting \in Settings
  BY DEF IInv
<1>3. ASSUME NEW s \in Known, RemoveSeq(s) PROVE IInv'
  BY <1>1, <1>3, RemoveSeqKeeps
<1>4. ASSUME NEW s \in Known, SeqAdd(s) PROVE IInv'
  BY <1>1, <1>4, SeqAddKeeps
<1>5. ASSUME NEW s \in Known, SeqDiv(s) PROVE IInv'
  BY <1>1, <1>5, SeqDivKeeps
<1>6. ASSUME NEW s \in Known, StateWrite(s) PROVE IInv'
  BY <1>1, <1>6, StateWriteKeeps
<1>7. ASSUME NEW s \in Known, NEW d \in 1 .. setting.tok, Rollback(s, d) PROVE IInv'
  <2>1. setting.tok \in Nat
    BY <1>2, MemoryAssumption
  <2>2. d \in Nat
    BY <2>1
  <2> QED BY <1>1, <1>7, <2>2, RollbackKeeps
<1>8. ASSUME NEW s \in SeqId, NEW t \in SeqId, Copy(s, t) PROVE IInv'
  BY <1>8, CopyKeeps
<1>9. ASSUME NEW s \in SeqId, Keep(s) PROVE IInv'
  BY <1>9, KeepKeeps
<1>10. ASSUME Clear PROVE IInv'
  BY <1>10, ClearKeeps
<1>11. ASSUME NEW b \in Batches, Decode(b) PROVE IInv'
  BY <1>11, DecodeKeeps
<1>12. ASSUME ProcessUbatch PROVE IInv'
  BY <1>12, ProcessUbatchKeeps
<1>13. ASSUME ProcessUbatchFails PROVE IInv'
  BY <1>13, ProcessUbatchFailsKeeps
<1>14. ASSUME NEW s \in SeqId, NEW c \in saved, NEW arrives \in BOOLEAN, StateRead(s, c, arrives)
       PROVE  IInv'
  BY <1>14, StateReadKeeps
<1>15. ASSUME UNCHANGED vars PROVE IInv'
  <2>1. UNCHANGED <<setting, mem, batch, phase, client, told, broken>>
    BY <1>15 DEF vars, client
  <2>2. Sound(mem') /\ Followed(told')
    BY <2>1 DEF IInv
  <2> QED BY <2>1, <2>2, CallKeeps
<1> QED BY <1>3, <1>4, <1>5, <1>6, <1>7, <1>8, <1>9, <1>10, <1>11, <1>12, <1>13, <1>14, <1>15
        DEF Next

(* The invariant holds in every state of every run.                         *)
LEMMA Invariant == Spec => []IInv
<1>1. IInv /\ [Next]_vars => IInv'
  BY NextKeeps
<1> QED BY InitSound, <1>1, PTL DEF Spec

-----------------------------------------------------------------------------
(* The states: what the rows hold.                                          *)

(* The tensors have a row 0 and n_rs_seq more. *)
Shaped(r) == r = [d \in 0 .. setting.rs |-> [i \in Cell |-> r[d][i]]]

(* The cell of the sequence s is where the client has come to with it, and  *)
(* the row it will continue from holds its tokens.  A rollback is pending   *)
(* only for a sequence that has its cell alone.                             *)
Continues(m, r, t, s) ==
    IF m.tail[s] \in Cell
    THEN /\ m.cells[m.tail[s]].pos = t[s].pos
         /\ m.cells[m.tail[s]].src = m.tail[s]
         /\ r[m.rs_idx[s]][m.tail[s]] = t[s].toks
         /\ m.rs_idx[s] # 0 => m.cells[m.tail[s]].seqs = {s}
    ELSE t[s] = Nothing /\ m.rs_idx[s] = 0

(* So it is of all sequences but those of S, and a cell that is empty but   *)
(* not without a source holds no state.                                     *)
ExactBut(m, r, t, S) ==
    /\ \A s \in SeqId \ S : Continues(m, r, t, s)
    /\ \A i \in Cell : Blank(m, i) => r[0][i] = << >>

Exact(m, r, t) == ExactBut(m, r, t, {})

(* The rows behind hold what the sequences were before the last tokens of   *)
(* the draft f.                                                             *)
Snapshots(m, r, t, f) == \A s \in SeqId : m.tail[s] \in Cell =>
    \A d \in 1 .. f[s] : d <= setting.rs =>
       r[d][m.tail[s]] = SubSeq(t[s].toks, 1, Len(t[s].toks) - d)

(* The sequence s stays where it is, and so does what the client thinks.    *)
Stays(m, r, t, q, p, u, s) ==
    /\ q.tail[s] = m.tail[s] /\ q.rs_idx[s] = m.rs_idx[s] /\ u[s] = t[s]
    /\ \A e \in Cell : e = m.tail[s] =>
         /\ q.cells[e].pos = m.cells[e].pos
         /\ q.cells[e].src = m.cells[e].src
         /\ m.rs_idx[s] # 0 => q.cells[e].seqs = m.cells[e].seqs
         /\ p[m.rs_idx[s]][e] = r[m.rs_idx[s]][e]

(* Then it goes on as before.                                               *)
LEMMA ContinuesOn ==
    ASSUME NEW m, NEW r, NEW t, NEW s, NEW q, NEW p, NEW u,
           Continues(m, r, t, s), Stays(m, r, t, q, p, u, s)
    PROVE  Continues(q, p, u, s)
<1>1. PICK c : c = m.tail[s]
  OBVIOUS
<1>2. CASE c \in Cell
  <2>1. /\ m.cells[c].pos = t[s].pos /\ m.cells[c].src = c /\ r[m.rs_idx[s]][c] = t[s].toks
        /\ m.rs_idx[s] # 0 => m.cells[c].seqs = {s}
    BY <1>1, <1>2 DEF Continues
  <2>2. /\ q.tail[s] = c /\ q.rs_idx[s] = m.rs_idx[s] /\ u[s] = t[s]
        /\ q.cells[c].pos = m.cells[c].pos /\ q.cells[c].src = m.cells[c].src
        /\ m.rs_idx[s] # 0 => q.cells[c].seqs = m.cells[c].seqs
        /\ p[m.rs_idx[s]][c] = r[m.rs_idx[s]][c]
    BY <1>1, <1>2 DEF Stays
  <2> QED BY <1>2, <2>1, <2>2 DEF Continues
<1>3. CASE c \notin Cell
  BY <1>1, <1>3 DEF Continues, Stays
<1> QED BY <1>2, <1>3

(* The cell c is what the sequence s goes on in, from the row d.            *)
Resumes(q, p, u, s, c, d) ==
    /\ c \in Cell /\ q.tail[s] = c /\ q.cells[c].pos = u[s].pos /\ q.cells[c].src = c
    /\ q.rs_idx[s] = d /\ p[d][c] = u[s].toks
    /\ d # 0 => q.cells[c].seqs = {s}

(* Then it goes on there.                                                   *)
LEMMA ContinuesIn ==
    ASSUME NEW q, NEW p, NEW u, NEW s, NEW c, NEW d, Resumes(q, p, u, s, c, d)
    PROVE  Continues(q, p, u, s)
BY DEF Continues, Resumes

(* A row some cell or draft still needs is kept. *)
LEMMA KeptRow ==
    ASSUME NEW m, NEW r, Shaped(r), NEW f
    PROVE  /\ Shaped(Kept(r, m, f))
           /\ \A d \in 0 .. setting.rs, i \in Cell :
                (IF d = 0 THEN m.cells[i].src = i
                 ELSE \E s \in m.cells[i].seqs : m.rs_idx[s] = d \/ f[s] >= d)
                => Kept(r, m, f)[d][i] = r[d][i]
<1> DEFINE need(d, i) == \/ d = 0 /\ m.cells[i].src = i
                         \/ d > 0 /\ \E s \in m.cells[i].seqs : m.rs_idx[s] = d \/ f[s] >= d
<1>1. PICK k : k = Kept(r, m, f)
  OBVIOUS
<1>2. PICK D : D = 0 .. setting.rs
  OBVIOUS
<1>3. DOMAIN r = D
  BY <1>2 DEF Shaped
<1>4. k = [d \in D |-> [i \in Cell |-> IF need(d, i) THEN r[d][i] ELSE Junk]]
  BY <1>1, <1>3 DEF Kept
<1>5. \A d \in D : d = 0 \/ (d # 0 /\ d > 0)
  BY <1>2
<1> HIDE DEF need
<1>6. k = [d \in D |-> [i \in Cell |-> k[d][i]]]
  BY <1>4
<1>7. \A d \in D, i \in Cell : need(d, i) => k[d][i] = r[d][i]
  BY <1>4
<1>8. \A d \in D, i \in Cell :
        (IF d = 0 THEN m.cells[i].src = i
         ELSE \E s \in m.cells[i].seqs : m.rs_idx[s] = d \/ f[s] >= d) => need(d, i)
  BY <1>5 DEF need
<1> QED BY <1>1, <1>2, <1>6, <1>7, <1>8 DEF Shaped

(* Forgetting the other rows loses no state. *)
LEMMA KeptExact ==
    ASSUME setting \in Settings, NEW m, Sound(m), NEW r, Shaped(r), NEW t, Exact(m, r, t), NEW f
    PROVE  Exact(m, Kept(r, m, f), t)
<1>1. PICK k : k = Kept(r, m, f)
  OBVIOUS
<1>2. \A d \in 0 .. setting.rs, i \in Cell :
        (IF d = 0 THEN m.cells[i].src = i
         ELSE \E s \in m.cells[i].seqs : m.rs_idx[s] = d \/ f[s] >= d) => k[d][i] = r[d][i]
  BY <1>1, KeptRow
<1>3. setting.rs \in Nat /\ 0 \in 0 .. setting.rs
  BY MemoryAssumption
<1>4. ASSUME NEW s \in SeqId PROVE Continues(m, k, t, s)
  <2>1. Continues(m, r, t, s)
    BY DEF Exact, ExactBut
  <2>2. CASE m.tail[s] \in Cell
    <3>1. PICK i \in Cell, d \in 0 .. setting.rs : i = m.tail[s] /\ d = m.rs_idx[s]
      <4>1. m.rs_idx[s] \in Nat /\ m.rs_idx[s] <= setting.rs
        BY DEF Sound, Sane, Memory
      <4> QED BY <1>3, <2>2, <4>1
    <3>2. s \in m.cells[i].seqs
      BY <3>1, SaneAgree DEF Sound, Held
    <3>3. m.cells[i].src = i
      BY <2>1, <2>2, <3>1 DEF Continues
    <3>4. k[d][i] = r[d][i]
      BY <1>2, <3>1, <3>2, <3>3
    <3> QED BY <2>1, <2>2, <3>1, <3>4 DEF Continues
  <2>3. CASE m.tail[s] \notin Cell
    BY <2>1, <2>3 DEF Continues
  <2> QED BY <2>2, <2>3
<1>5. ASSUME NEW i \in Cell, Blank(m, i) PROVE k[0][i] = << >>
  <2>1. m.cells[i].src = i
    BY <1>5, CellsAndSequences DEF Blank
  <2>2. r[0][i] = << >>
    BY <1>5 DEF Exact, ExactBut
  <2>3. k[0][i] = r[0][i]
    BY <1>2, <1>3, <2>1
  <2> QED BY <2>2, <2>3
<1> QED BY <1>1, <1>4, <1>5 DEF Exact, ExactBut

(* Nor is a snapshot of the draft lost. *)
LEMMA KeptSnapshots ==
    ASSUME setting \in Settings, NEW m, Sound(m), NEW r, Shaped(r), NEW t, NEW f \in [SeqId -> Nat],
           Snapshots(m, r, t, f)
    PROVE  Snapshots(m, Kept(r, m, f), t, f)
<1>1. PICK k : k = Kept(r, m, f)
  OBVIOUS
<1>2. \A d \in 0 .. setting.rs, i \in Cell :
        (IF d = 0 THEN m.cells[i].src = i
         ELSE \E s \in m.cells[i].seqs : m.rs_idx[s] = d \/ f[s] >= d) => k[d][i] = r[d][i]
  BY <1>1, KeptRow
<1>3. setting.rs \in Nat
  BY MemoryAssumption
<1>4. ASSUME NEW s \in SeqId, m.tail[s] \in Cell, NEW d \in 1 .. f[s], d <= setting.rs
      PROVE  k[d][m.tail[s]] = r[d][m.tail[s]]
  <2>1. d \in 0 .. setting.rs /\ d # 0 /\ f[s] >= d
    BY <1>3, <1>4
  <2>2. s \in m.cells[m.tail[s]].seqs
    BY <1>4, SaneAgree DEF Sound, Held
  <2> QED BY <1>2, <1>4, <2>1, <2>2
<1> QED BY <1>1, <1>4 DEF Snapshots

(* Sequences that leave their cells take no state of the others along. *)
LEMMA LeaveExact ==
    ASSUME NEW m, Sane(m), NEW b, Sane(b), NEW S \in SUBSET SeqId, Left(m, b, S),
           NEW r, NEW t, ExactBut(m, r, t, S),
           \A s \in SeqId : b.rs_idx[s] = IF s \in S THEN 0 ELSE m.rs_idx[s],
           NEW u, \A s \in SeqId : u[s] = IF s \in S THEN Nothing ELSE t[s]
    PROVE  Exact(b, r, u)
<1>2. \A s \in SeqId : /\ u[s] = IF s \in S THEN Nothing ELSE t[s]
                       /\ b.tail[s] = IF s \in S THEN -1 ELSE m.tail[s]
  BY DEF Left
<1>3. ASSUME NEW s \in SeqId PROVE Continues(b, r, u, s)
  <2>1. CASE s \in S
    <3>1. -1 \notin Cell
      BY CellsAndSequences
    <3> QED BY <1>2, <2>1, <3>1 DEF Continues
  <2>2. CASE s \notin S
    <3>1. Continues(m, r, t, s) /\ b.tail[s] = m.tail[s] /\ u[s] = t[s] /\ b.rs_idx[s] = m.rs_idx[s]
      BY <1>2, <2>2 DEF ExactBut
    <3>2. CASE m.tail[s] \in Cell
      <4>1. PICK i \in Cell : i = m.tail[s]
        BY <3>2
      <4>2. s \in m.cells[i].seqs
        BY <4>1, SaneAgree DEF Held
      <4>3. i \notin Gone(m, S)
        BY <2>2, <4>2 DEF Gone
      <4>4. b.cells[i].pos = m.cells[i].pos /\ b.cells[i].src = m.cells[i].src
            /\ b.cells[i].seqs = m.cells[i].seqs \ S
        BY <4>3 DEF Left
      <4> QED BY <2>2, <3>1, <4>1, <4>4 DEF Continues
    <3>3. CASE m.tail[s] \notin Cell
      BY <3>1, <3>3 DEF Continues
    <3> QED BY <3>2, <3>3
  <2> QED BY <2>1, <2>2
<1>4. ASSUME NEW i \in Cell, Blank(b, i) PROVE r[0][i] = << >>
  <2>1. b.cells[i].seqs = {} /\ b.cells[i].src = i /\ i # -1
    BY <1>4, CellsAndSequences DEF Blank
  <2>2. i \notin Gone(m, S) /\ m.cells[i].src = i /\ m.cells[i].seqs \ S = {}
    BY <2>1 DEF Left
  <2>3. m.cells[i].seqs = {}
    BY <2>2 DEF Gone, IsEmpty
  <2>4. Blank(m, i)
    BY <2>2, <2>3 DEF Blank
  <2> QED BY <2>4 DEF ExactBut
<1> QED BY <1>3, <1>4 DEF Exact, ExactBut

(* seq_rm of a whole sequence takes it out of its cell, and its rollback    *)
(* with it.                                                                 *)
LEMMA RemoveIs ==
    ASSUME setting \in Settings, NEW m0, Sound(m0), NEW s \in SeqId, PosOf(m0, s) < Inf,
           NEW b, b = SeqRm(m0, s, 0, Inf).m
    PROVE  /\ Sound(b) /\ Left(m0, b, {s})
           /\ \A x \in SeqId : b.rs_idx[x] = IF x \in {s} THEN 0 ELSE m0.rs_idx[x]
<1>1. PICK m : m = Dropped(m0, s)
  OBVIOUS
<1>2. /\ Sound(m) /\ m.cells = m0.cells /\ m.tail = m0.tail
      /\ \A x \in SeqId : m.rs_idx[x] = IF x = s THEN 0 ELSE m0.rs_idx[x]
  BY <1>1, IndexDropped
<1>3. PosOf(m, s) = PosOf(m0, s)
  BY <1>2 DEF PosOf
<1> DEFINE freed == {i \in Cell : m.cells[i].seqs = {s}}
           partial == m.tail[s] >= 0 /\ 0 < 0 /\ 0 <= PosOf(m, s) /\ PosOf(m, s) < Inf
           hit == m.tail[s] >= 0 /\ 0 <= PosOf(m, s) /\ PosOf(m, s) < Inf
           left == MoveHead(Leave(m, {s}), freed)
<1>4. ~partial
  OBVIOUS
<1>5. b = IF hit THEN left ELSE m
  <2>1. m = [m0 EXCEPT !.rs_idx[s] = 0]
    BY <1>1 DEF Dropped
  <2> QED BY <1>4, <2>1 DEF SeqRm
<1>6. CASE m.tail[s] >= 0
  <2>1. PICK c \in Cell : c = m.tail[s] /\ m.cells[c].pos \in Nat
    BY <1>2, <1>6, TailCell DEF Sound
  <2>2. PICK p \in Nat : p = m.cells[c].pos
    BY <2>1
  <2>3. PosOf(m, s) = p
    BY <2>1, <2>2, CellsAndSequences DEF PosOf
  <2>4. hit
    BY <1>3, <1>6, <2>3
  <2> HIDE DEF hit, partial
  <2>5. b = left
    BY <1>5, <2>4
  <2>6. PICK l : l = Leave(m, {s})
    OBVIOUS
  <2>7. Sound(l)
    BY <1>2, <2>6, LeaveSound
  <2>8. Left(m, l, {s}) /\ l.rs_idx = m.rs_idx
    <3>1. m \in Memory /\ {s} \in SUBSET SeqId
      BY <1>2 DEF Sound, Sane
    <3> QED BY <2>6, <3>1, LeaveIs DEF Left
  <2>9. /\ Sane(MoveHead(l, freed)) /\ MoveHead(l, freed).rs_idx = l.rs_idx
        /\ MoveHead(l, freed).cells = l.cells /\ MoveHead(l, freed).tail = l.tail
    BY <2>7, MoveHeadSane DEF Sound
  <2>10. b = MoveHead(l, freed)
    BY <2>5, <2>6
  <2>11. Sane(b) /\ b.rs_idx = l.rs_idx /\ b.cells = l.cells /\ b.tail = l.tail
    BY <2>9, <2>10
  <2>12. Sound(b)
    BY <2>7, <2>11 DEF Sound
  <2>13. Left(m0, b, {s})
    BY <1>2, <2>8, <2>11 DEF Left, Gone
  <2> QED BY <1>2, <2>8, <2>11, <2>12, <2>13
<1>7. CASE ~ (m.tail[s] >= 0)
  <2>1. b = m
    BY <1>5, <1>7
  <2>2. m.tail[s] = -1
    <3>1. PICK x \in Cell \cup {-1} : x = m.tail[s]
      BY <1>2, TailCell DEF Sound
    <3>2. x \in Cell => x >= 0
      BY CellsAndSequences
    <3> QED BY <1>7, <3>1, <3>2
  <2>3. ASSUME NEW i \in Cell PROVE s \notin m0.cells[i].seqs
    <3>1. m0.cells[i].seqs = Held(m0.tail, i)
      BY SaneAgree DEF Sound
    <3> QED BY <1>2, <2>2, <3>1, CellsAndSequences DEF Held
  <2>4. Gone(m0, {s}) = {} /\ \A i \in Cell : m0.cells[i].seqs \ {s} = m0.cells[i].seqs
    BY <2>3 DEF Gone, IsEmpty
  <2>5. m.tail = [x \in SeqId |-> IF x \in {s} THEN -1 ELSE m0.tail[x]]
    <3>1. m.tail = [x \in SeqId |-> m.tail[x]]
      BY <1>2 DEF Sound, Sane, Memory, Tails
    <3>2. \A x \in SeqId : m.tail[x] = IF x \in {s} THEN -1 ELSE m0.tail[x]
      BY <1>2, <2>2
    <3> QED BY <3>1, <3>2
  <2>6. Left(m0, m, {s})
    BY <1>2, <2>4, <2>5 DEF Left
  <2> QED BY <1>2, <2>1, <2>6
<1> QED BY <1>6, <1>7

(* A sequence is removed whole; what it held need not have been exact.      *)
LEMMA RemoveExact ==
    ASSUME setting \in Settings, NEW m, Sound(m), NEW s \in SeqId, PosOf(m, s) < Inf,
           NEW r, NEW t, ExactBut(m, r, t, {s}),
           NEW u, \A x \in SeqId : u[x] = IF x = s THEN Nothing ELSE t[x]
    PROVE  Exact(SeqRm(m, s, 0, Inf).m, r, u)
<1>1. PICK b : b = SeqRm(m, s, 0, Inf).m
  OBVIOUS
<1>2. /\ Sound(b) /\ Left(m, b, {s})
      /\ \A x \in SeqId : b.rs_idx[x] = IF x \in {s} THEN 0 ELSE m.rs_idx[x]
  BY <1>1, RemoveIs
<1>3. {s} \in SUBSET SeqId /\ Sane(m) /\ Sane(b)
  BY <1>2 DEF Sound
<1>4. \A x \in SeqId : u[x] = IF x \in {s} THEN Nothing ELSE t[x]
  OBVIOUS
<1>5. Exact(b, r, u)
  BY <1>2, <1>3, <1>4, LeaveExact
<1> QED BY <1>1, <1>5

(* What is exact for all is exact for all but some. *)
LEMMA ExactForSome ==
    ASSUME NEW m, NEW r, NEW t, Exact(m, r, t), NEW S
    PROVE  ExactBut(m, r, t, S)
BY DEF Exact, ExactBut

(* The memory as a whole is emptied.                                        *)
LEMMA EmptyExact ==
    ASSUME setting \in Settings, NEW m \in Memory, NEW r,
           NEW u, \A x \in SeqId : u[x] = Nothing
    PROVE  Exact(Emptied(m), r, u)
<1>1. PICK q : q = Emptied(m)
  OBVIOUS
<1>2. /\ \A s \in SeqId : q.tail[s] = -1 /\ q.rs_idx[s] = 0
      /\ \A i \in Cell : q.cells[i].src = -1
  BY <1>1, EmptySound
<1>3. -1 \notin Cell
  BY CellsAndSequences
<1>4. \A s \in SeqId : Continues(q, r, u, s)
  BY <1>2, <1>3 DEF Continues
<1>5. \A i \in Cell : ~Blank(q, i)
  BY <1>2, <1>3 DEF Blank
<1> QED BY <1>1, <1>4, <1>5 DEF Exact, ExactBut

(* A sequence joins the cell of another, neither with a pending rollback.   *)
LEMMA JoinExact ==
    ASSUME NEW m, Sound(m), NEW t \in SeqId, m.tail[t] = -1, NEW s \in SeqId, s # t,
           NEW c \in Cell, m.tail[s] = c, m.rs_idx[s] = 0, m.rs_idx[t] = 0,
           NEW r, NEW v, Exact(m, r, v),
           NEW u, \A x \in SeqId : u[x] = IF x = t THEN v[s] ELSE v[x]
    PROVE  Exact(JoinCell(m, c, t), r, u)
<1>1. PICK q : q = JoinCell(m, c, t)
  OBVIOUS
<1>2. s \in m.cells[c].seqs
  BY SaneAgree DEF Sound, Held
<1>3. /\ q.rs_idx = m.rs_idx
      /\ \A x \in SeqId : q.tail[x] = IF x = t THEN c ELSE m.tail[x]
      /\ \A i \in Cell :
           /\ q.cells[i].src = m.cells[i].src /\ q.cells[i].pos = m.cells[i].pos
           /\ q.cells[i].seqs = IF i = c THEN m.cells[i].seqs \cup {t} ELSE m.cells[i].seqs
  BY <1>1, <1>2, JoinSound
<1>4. Continues(m, r, v, s)
  BY DEF Exact, ExactBut
<1>5. Continues(q, r, u, t)
  <2>1. m.cells[c].pos = v[s].pos /\ m.cells[c].src = c /\ r[0][c] = v[s].toks
    BY <1>4 DEF Continues
  <2>2. /\ q.tail[t] = c /\ q.rs_idx[t] = 0 /\ u[t] = v[s]
        /\ q.cells[c].pos = m.cells[c].pos /\ q.cells[c].src = m.cells[c].src
    BY <1>3
  <2>3. Resumes(q, r, u, t, c, 0)
    BY <2>1, <2>2 DEF Resumes
  <2> QED BY <2>3, ContinuesIn
<1>6. ASSUME NEW x \in SeqId, x # t PROVE Continues(q, r, u, x)
  <2>1. Continues(m, r, v, x) /\ q.tail[x] = m.tail[x] /\ u[x] = v[x]
    BY <1>3, <1>6 DEF Exact, ExactBut
  <2>2. m.tail[x] = c => m.rs_idx[x] = 0
    BY <1>2, <2>1 DEF Continues
  <2>3. q.rs_idx[x] = m.rs_idx[x]
    BY <1>3
  <2>4. ASSUME NEW e \in Cell, e = m.tail[x]
        PROVE  /\ q.cells[e].pos = m.cells[e].pos /\ q.cells[e].src = m.cells[e].src
               /\ m.rs_idx[x] # 0 => q.cells[e].seqs = m.cells[e].seqs
    <3>1. e = c => m.rs_idx[x] = 0
      BY <2>2, <2>4
    <3>2. q.cells[e].pos = m.cells[e].pos /\ q.cells[e].src = m.cells[e].src
      BY <1>3
    <3>3. e # c => q.cells[e].seqs = m.cells[e].seqs
      BY <1>3
    <3> QED BY <3>1, <3>2, <3>3
  <2>5. Stays(m, r, v, q, r, u, x)
    BY ONLY <2>1, <2>3, <2>4 DEF Stays
  <2> QED BY <2>1, <2>5, ContinuesOn
<1>7. ASSUME NEW i \in Cell, Blank(q, i) PROVE r[0][i] = << >>
  <2>1. q.cells[i].seqs = {} /\ q.cells[i].src = i
    BY <1>7, CellsAndSequences DEF Blank
  <2>2. Blank(m, i)
    BY <1>3, <2>1 DEF Blank
  <2> QED BY <2>2 DEF Exact, ExactBut
<1> QED BY <1>1, <1>5, <1>6, <1>7 DEF Exact, ExactBut

(* One sequence is kept; none of the others had a pending rollback.         *)
LEMMA KeepExact ==
    ASSUME NEW m, Sound(m), NEW s \in SeqId, \A x \in SeqId : x # s => m.rs_idx[x] = 0,
           NEW r, NEW t, Exact(m, r, t), NEW a, a = KeptAlone(m, s),
           NEW q, q.cells = a.cells, q.tail = a.tail, q.rs_idx = m.rs_idx,
           NEW u, \A x \in SeqId : u[x] = IF x = s THEN t[x] ELSE Nothing
    PROVE  Exact(q, r, u)
<1>1. /\ \A x \in SeqId : q.tail[x] = IF x = s THEN m.tail[x] ELSE -1
      /\ \A i \in Cell :
           /\ q.cells[i].seqs = IF i \in Freed(m, s) THEN {} ELSE {s}
           /\ q.cells[i].pos = IF i \in Freed(m, s) THEN -1 ELSE m.cells[i].pos
           /\ q.cells[i].src = IF i \in Freed(m, s) THEN -1 ELSE m.cells[i].src
  <2>1. /\ \A x \in SeqId : a.tail[x] = IF x = s THEN m.tail[x] ELSE -1
        /\ \A i \in Cell :
             /\ a.cells[i].seqs = IF i \in Freed(m, s) THEN {} ELSE {s}
             /\ a.cells[i].pos = IF i \in Freed(m, s) THEN -1 ELSE m.cells[i].pos
             /\ a.cells[i].src = IF i \in Freed(m, s) THEN -1 ELSE m.cells[i].src
    <3>1. PICK b : b = KeptAlone(m, s)
      OBVIOUS
    <3>2. /\ \A x \in SeqId : b.tail[x] = IF x = s THEN m.tail[x] ELSE -1
          /\ \A i \in Cell :
               /\ b.cells[i].seqs = IF i \in Freed(m, s) THEN {} ELSE {s}
               /\ b.cells[i].pos = IF i \in Freed(m, s) THEN -1 ELSE m.cells[i].pos
               /\ b.cells[i].src = IF i \in Freed(m, s) THEN -1 ELSE m.cells[i].src
      BY <3>1, KeepSound
    <3> QED BY <3>1, <3>2
  <2> QED BY <2>1
<1>2. Continues(m, r, t, s)
  BY DEF Exact, ExactBut
<1>3. -1 \notin Cell
  BY CellsAndSequences
<1>4. Continues(q, r, u, s)
  <2>1. CASE m.tail[s] \in Cell
    <3>1. PICK i \in Cell : i = m.tail[s]
      BY <2>1
    <3>2. i \notin Freed(m, s)
      BY <3>1, SaneAgree DEF Sound, Held, Freed
    <3> QED BY <1>1, <1>2, <3>1, <3>2 DEF Continues
  <2>2. CASE m.tail[s] \notin Cell
    BY <1>1, <1>2, <2>2 DEF Continues
  <2> QED BY <2>1, <2>2
<1>5. ASSUME NEW x \in SeqId, x # s PROVE Continues(q, r, u, x)
  BY <1>1, <1>3, <1>5 DEF Continues
<1>6. \A i \in Cell : ~Blank(q, i)
  BY <1>1, <1>3 DEF Blank
<1> QED BY <1>4, <1>5, <1>6 DEF Exact, ExactBut

(* Only the position of the cell c changes, and the rollback of s.          *)
OnlyRedated(m, q, s, c) ==
    /\ \A x \in SeqId : q.tail[x] = m.tail[x]
    /\ \A i \in Cell : q.cells[i].seqs = m.cells[i].seqs
    /\ \A i \in Cell : q.cells[i].src = m.cells[i].src
    /\ \A i \in Cell : i # c => q.cells[i].pos = m.cells[i].pos
    /\ \A x \in SeqId : x # s => q.rs_idx[x] = m.rs_idx[x]

(* The position of a sequence that has its cell alone, its cell's and what  *)
(* the client thinks it is, changes together with the rollback.             *)
LEMMA RedatedExact ==
    ASSUME NEW m, Sane(m), NEW s \in SeqId, NEW c \in Cell, m.tail[s] = c, m.cells[c].seqs = {s},
           NEW q, OnlyRedated(m, q, s, c), NEW r, NEW t, Exact(m, r, t),
           NEW u, \A x \in SeqId : x # s => u[x] = t[x],
           q.cells[c].pos = u[s].pos, NEW d, q.rs_idx[s] = d, r[d][c] = u[s].toks
    PROVE  Exact(q, r, u)
<1>1. Continues(m, r, t, s)
  BY DEF Exact, ExactBut
<1>2. Continues(q, r, u, s)
  <2>1. m.cells[c].src = c
    BY <1>1 DEF Continues
  <2>2. q.tail[s] = c
    BY DEF OnlyRedated
  <2>3. q.cells[c].src = c
    BY <2>1 DEF OnlyRedated
  <2>4. q.cells[c].seqs = {s}
    BY DEF OnlyRedated
  <2>5. Resumes(q, r, u, s, c, d)
    BY <2>2, <2>3, <2>4 DEF Resumes
  <2> QED BY <2>5, ContinuesIn
<1>3. ASSUME NEW x \in SeqId, x # s PROVE Continues(q, r, u, x)
  <2>1. Continues(m, r, t, x) /\ q.tail[x] = m.tail[x] /\ u[x] = t[x] /\ q.rs_idx[x] = m.rs_idx[x]
    BY <1>3 DEF Exact, ExactBut, OnlyRedated
  <2>2. m.tail[x] # c
    BY <1>3, SaneAgree DEF Held
  <2>3. ASSUME NEW e \in Cell, e = m.tail[x]
        PROVE  /\ q.cells[e].pos = m.cells[e].pos /\ q.cells[e].src = m.cells[e].src
               /\ q.cells[e].seqs = m.cells[e].seqs
    <3>1. e # c
      BY <2>2, <2>3
    <3>2. q.cells[e].pos = m.cells[e].pos
      BY <3>1 DEF OnlyRedated
    <3>3. q.cells[e].src = m.cells[e].src
      BY DEF OnlyRedated
    <3>4. q.cells[e].seqs = m.cells[e].seqs
      BY DEF OnlyRedated
    <3> QED BY <3>2, <3>3, <3>4
  <2>4. Stays(m, r, t, q, r, u, x)
    BY ONLY <2>1, <2>3 DEF Stays
  <2> QED BY <2>1, <2>4, ContinuesOn
<1>4. ASSUME NEW i \in Cell, Blank(q, i) PROVE r[0][i] = << >>
  <2>1. q.cells[i].seqs = {} /\ q.cells[i].src = i
    BY <1>4, CellsAndSequences DEF Blank
  <2>2. m.cells[i].seqs = {}
    BY <2>1 DEF OnlyRedated
  <2>3. m.cells[i].src = i
    BY <2>1 DEF OnlyRedated
  <2>4. Blank(m, i)
    BY <2>2, <2>3 DEF Blank
  <2> QED BY <2>4 DEF Exact, ExactBut
<1> QED BY <1>2, <1>3, <1>4 DEF Exact, ExactBut

-----------------------------------------------------------------------------
(* Tokens.                                                                  *)

(* What a sequence is continued by. *)
Same(n, c) == [x \in 1 .. n |-> c]

(* A token put behind so and so often. *)
LEMMA PutBehind ==
    ASSUME NEW t \in Seq(Nat), NEW n \in Nat, NEW c \in Nat
    PROVE  t \o Same(n, c) \in Seq(Nat) /\ Len(t \o Same(n, c)) = Len(t) + n
<1>1. Same(n, c) \in Seq(Nat) /\ Len(Same(n, c)) = n
  BY DEF Same
<1>2. PICK q \in Seq(Nat) : q = Same(n, c)
  BY <1>1
<1>3. t \o q \in Seq(Nat) /\ Len(t \o q) = Len(t) + Len(q)
  BY ConcatProperties
<1> QED BY <1>1, <1>2, <1>3

(* Taking back some of them leaves the others behind. *)
LEMMA TakenBehind ==
    ASSUME NEW t \in Seq(Nat), NEW n \in Nat, NEW c \in Nat, NEW d \in Nat, d <= n
    PROVE  SubSeq(t \o Same(n, c), 1, Len(t \o Same(n, c)) - d) = t \o Same(n - d, c)
<1>1. PICK l \in Nat : l = Len(t)
  OBVIOUS
<1>2. PICK e \in Nat : e = n - d
  OBVIOUS
<1>3. PICK q : q = t \o Same(n, c)
  OBVIOUS
<1>4. q \in Seq(Nat) /\ Len(q) = l + n
  BY <1>1, <1>3, PutBehind
<1>5. \A i \in 1 .. l + n : q[i] = IF i <= l THEN t[i] ELSE c
  <2>1. Same(n, c) \in Seq(Nat) /\ Len(Same(n, c)) = n /\ \A j \in 1 .. n : Same(n, c)[j] = c
    BY DEF Same
  <2> QED BY <1>1, <1>3, <2>1
<1>6. PICK p : p = t \o Same(e, c)
  OBVIOUS
<1>7. p \in Seq(Nat) /\ Len(p) = l + e
  BY <1>1, <1>6, PutBehind
<1>8. \A i \in 1 .. l + e : p[i] = IF i <= l THEN t[i] ELSE c
  <2>1. Same(e, c) \in Seq(Nat) /\ Len(Same(e, c)) = e /\ \A j \in 1 .. e : Same(e, c)[j] = c
    BY DEF Same
  <2> QED BY <1>1, <1>6, <2>1
<1>9. PICK b : b = SubSeq(q, 1, l + e)
  OBVIOUS
<1>10. b \in Seq(Nat) /\ Len(b) = l + e /\ \A i \in 1 .. l + e : b[i] = q[i]
  BY <1>2, <1>4, <1>9
<1>11. \A i \in 1 .. l + e : b[i] = p[i]
  BY <1>2, <1>5, <1>8, <1>10
<1>12. b = p
  BY <1>7, <1>10, <1>11
<1>13. Len(q) - d = l + e
  BY <1>2, <1>4
<1>14. SubSeq(q, 1, Len(q) - d) = t \o Same(e, c)
  BY <1>6, <1>9, <1>12, <1>13
<1> QED BY <1>2, <1>3, <1>14

(* Tokens taken back. *)
LEMMA TakenShort ==
    ASSUME NEW t \in Seq(Nat), NEW d \in Nat, d <= Len(t)
    PROVE  SubSeq(t, 1, Len(t) - d) \in Seq(Nat) /\ Len(SubSeq(t, 1, Len(t) - d)) = Len(t) - d
OBVIOUS

-----------------------------------------------------------------------------
(* What the compute makes of the states.                                    *)

(* The rows with the zeroed one cleared. *)
Cleared(r, m) == IF m.rs_z < 0 THEN r ELSE [r EXCEPT ![0][m.rs_z] = << >>]

(* The state the cell i is given. *)
From(r, m, i) == Cleared(r, m)[Plane(m, i)][m.cells[i].src0]

(* Clearing changes one row at most. *)
LEMMA ClearedIs ==
    ASSUME setting \in Settings, NEW r, Shaped(r), NEW lo \in Cell, NEW hi \in Cell,
           NEW m, m.rs_z \in (lo .. hi) \cup {-1}
    PROVE  \A d \in 0 .. setting.rs, i \in Cell :
             Cleared(r, m)[d][i] = IF d = 0 /\ i = m.rs_z THEN << >> ELSE r[d][i]
<1>1. PICK z \in (lo .. hi) \cup {-1} : z = m.rs_z
  OBVIOUS
<1>2. lo .. hi \subseteq Cell /\ \A x \in lo .. hi : x >= 0
  BY CellsAndSequences DEF Cell
<1>3. PICK D : D = 0 .. setting.rs
  OBVIOUS
<1>4. 0 \in D
  BY <1>3, MemoryAssumption
<1>5. PICK f : f = [d \in D |-> [i \in Cell |-> r[d][i]]]
  OBVIOUS
<1>6. r = f
  BY <1>3, <1>5 DEF Shaped
<1>7. CASE z = -1
  <2>1. Cleared(r, m) = r
    BY <1>1, <1>7 DEF Cleared
  <2>2. \A i \in Cell : i # m.rs_z
    BY <1>1, <1>7, CellsAndSequences
  <2> QED BY <2>1, <2>2
<1>8. CASE z # -1
  <2>1. z \in Cell /\ ~ (z < 0)
    BY <1>2, <1>8
  <2>2. Cleared(r, m) = [f EXCEPT ![0][z] = << >>]
    BY <1>1, <1>6, <2>1 DEF Cleared
  <2>3. \A d \in D, i \in Cell :
          [f EXCEPT ![0][z] = << >>][d][i] = IF d = 0 /\ i = z THEN << >> ELSE f[d][i]
    BY <1>4, <1>5, <2>1
  <2> QED BY <1>1, <1>3, <1>6, <2>2, <2>3
<1> QED BY <1>7, <1>8

(* What the rows hold after the compute: the states of the micro batch's    *)
(* own cells go on, those of the others of the range have moved.            *)
Computed(r, m, ub, lo, hi, g) ==
    /\ Shaped(g)
    /\ \A k \in 1 .. Len(ub.sets), d \in 0 .. setting.rs : d < ub.n =>
         g[d][lo + k - 1] = From(r, m, lo + k - 1) \o Same(ub.n - d, Main(ub.sets[k]))
    /\ \A i \in lo .. hi : i - lo + 1 \notin 1 .. Len(ub.sets) => g[0][i] = From(r, m, i)
    /\ \A i \in Cell : i \notin lo .. hi =>
         \A d \in 0 .. setting.rs : g[d][i] = Cleared(r, m)[d][i]

(* So they do. *)
LEMMA GraphIs ==
    ASSUME setting \in Settings, Shaped(rows), NEW ub, WellUbatch(ub), ub.n \in Nat, ub.n > 0,
           NEW lo \in Cell, NEW hi \in Cell, hi - lo + 1 >= Len(ub.sets),
           NEW m, m.head = lo, m.n = hi - lo + 1
    PROVE  Computed(rows, m, ub, lo, hi, Graph(m, ub))
<1> DEFINE own(i) == i - lo + 1 \in 1 .. Len(ub.sets)
           to(d, i) == IF i \in lo .. hi /\ own(i) /\ d < ub.n
                       THEN From(rows, m, i) \o Same(ub.n - d, Main(ub.sets[i - lo + 1]))
                       ELSE IF i \in lo .. hi /\ ~own(i) /\ d = 0 THEN From(rows, m, i)
                       ELSE Cleared(rows, m)[d][i]
<1>1. PICK D : D = 0 .. setting.rs
  OBVIOUS
<1>2. DOMAIN rows = D
  BY <1>1 DEF Shaped
<1>3. InRange(m) = lo .. hi
  <2>1. lo + (hi - lo + 1) - 1 = hi /\ lo \in Int /\ hi \in Int
    BY CellsAndSequences
  <2> QED BY <2>1 DEF InRange
<1>4. DOMAIN ub.sets = 1 .. Len(ub.sets) /\ Len(ub.sets) \in Nat
  BY SetsType DEF WellUbatch
<1>5. PICK g : g = Graph(m, ub)
  OBVIOUS
<1> DEFINE with(d, i, h, R, S) ==
             IF i \in R /\ i - h + 1 \in S /\ d < ub.n
             THEN From(rows, m, i) \o [j \in 1 .. ub.n - d |-> Main(ub.sets[i - h + 1])]
             ELSE IF i \in R /\ i - h + 1 \notin S /\ d = 0 THEN From(rows, m, i)
             ELSE Cleared(rows, m)[d][i]
<1>6. g = [d \in D |-> [i \in Cell |-> to(d, i)]]
  <2>1. g = [d \in DOMAIN rows |-> [i \in Cell |-> with(d, i, m.head, InRange(m), DOMAIN ub.sets)]]
    BY <1>5 DEF Graph, Cleared, From
  <2>2. g = [d \in D |-> [i \in Cell |-> with(d, i, lo, lo .. hi, 1 .. Len(ub.sets))]]
    <3> HIDE DEF with
    <3> QED BY <1>2, <1>3, <1>4, <2>1
  <2>3. \A d, i : with(d, i, lo, lo .. hi, 1 .. Len(ub.sets)) = to(d, i)
    BY DEF Same
  <2> HIDE DEF with, to
  <2> QED BY <2>2, <2>3
<1> HIDE DEF to
<1>7. g = [d \in D |-> [i \in Cell |-> g[d][i]]] /\ \A d \in D, i \in Cell : g[d][i] = to(d, i)
  BY <1>6
<1> USE DEF to
<1>8. lo .. hi \subseteq Cell /\ lo \in Int /\ hi \in Int /\ 0 \in D
  BY <1>1, CellsAndSequences, MemoryAssumption DEF Cell
<1>9. ASSUME NEW k \in 1 .. Len(ub.sets), NEW d \in D, d < ub.n
      PROVE  g[d][lo + k - 1] = From(rows, m, lo + k - 1) \o Same(ub.n - d, Main(ub.sets[k]))
  <2>1. PICK i \in lo .. hi : i = lo + k - 1 /\ i - lo + 1 = k
    BY <1>4, <1>8
  <2>2. own(i) /\ i \in Cell
    BY <1>8, <2>1
  <2>3. g[d][i] = to(d, i)
    BY <1>7, <2>2
  <2>4. to(d, i) = From(rows, m, i) \o Same(ub.n - d, Main(ub.sets[k]))
    BY <1>9, <2>1, <2>2
  <2> QED BY <2>1, <2>3, <2>4
<1>10. ASSUME NEW i \in lo .. hi, i - lo + 1 \notin 1 .. Len(ub.sets)
       PROVE  g[0][i] = From(rows, m, i)
  BY <1>7, <1>8, <1>10
<1>11. ASSUME NEW i \in Cell, i \notin lo .. hi, NEW d \in D PROVE g[d][i] = Cleared(rows, m)[d][i]
  BY <1>7, <1>11
<1> HIDE DEF to, own
<1>12. Shaped(g)
  BY <1>1, <1>7 DEF Shaped
<1> QED BY <1>1, <1>5, <1>9, <1>10, <1>11, <1>12 DEF Computed

(* A cell that draws on the state of a sequence is given its tokens.        *)
LEMMA FromIs ==
    ASSUME setting \in Settings, NEW r, Shaped(r), NEW b, Sound(b), NEW t, Exact(b, r, t),
           NEW lo \in Cell, NEW hi \in Cell, NEW ub, NEW f, Drew(b, f, ub, lo, hi),
           NEW i \in lo .. hi, NEW s \in SeqId, Draws(b, f, i, s), Plane(f, i) = b.rs_idx[s]
    PROVE  From(r, f, i) = t[s].toks
<1>1. f.rs_z \in (lo .. hi) \cup {-1}
  BY DEF Drew
<1>2. \A d \in 0 .. setting.rs, j \in Cell :
        Cleared(r, f)[d][j] = IF d = 0 /\ j = f.rs_z THEN << >> ELSE r[d][j]
  BY <1>1, ClearedIs
<1>3. setting.rs \in Nat /\ 0 \in 0 .. setting.rs
  BY MemoryAssumption
<1>4. PICK d \in 0 .. setting.rs : d = b.rs_idx[s]
  <2>1. b.rs_idx[s] \in Nat /\ b.rs_idx[s] <= setting.rs
    BY DEF Sound, Sane, Memory
  <2> QED BY <1>3, <2>1
<1>5. Continues(b, r, t, s)
  BY DEF Exact, ExactBut
<1>6. PICK x : x = f.cells[i].src0
  OBVIOUS
<1>7. From(r, f, i) = Cleared(r, f)[d][x]
  BY <1>4, <1>6 DEF From
<1>8. CASE b.tail[s] \in Cell
  <2>1. PICK c \in Cell : c = b.tail[s]
    BY <1>8
  <2>2. b.cells[c].src = c /\ r[d][c] = t[s].toks
    BY <1>4, <1>5, <2>1 DEF Continues
  <2>3. x = c
    BY <1>6, <2>1, <2>2 DEF Draws
  <2>4. f.rs_z = -1 \/ b.cells[c].src # f.rs_z
    BY <1>8, <2>1 DEF Drew
  <2>5. c # f.rs_z
    BY <2>2, <2>4, CellsAndSequences
  <2> QED BY <1>2, <1>7, <2>2, <2>3, <2>5
<1>9. CASE b.tail[s] \notin Cell
  <2>1. t[s] = Nothing /\ b.rs_idx[s] = 0
    BY <1>5, <1>9 DEF Continues
  <2>2. d = 0
    BY <1>4, <2>1
  <2>3. t[s].toks = << >>
    BY <2>1 DEF Nothing
  <2>4. x \in Cell /\ (x = f.rs_z \/ Blank(b, x))
    BY <1>6, <1>9 DEF Draws, Zeroed
  <2>5. Blank(b, x) => r[0][x] = << >>
    BY <2>4 DEF Exact, ExactBut
  <2> QED BY <1>2, <1>7, <2>2, <2>3, <2>4, <2>5
<1> QED BY <1>8, <1>9

(* An empty cell of the range is given nothing. *)
LEMMA FromNothing ==
    ASSUME setting \in Settings, NEW r, Shaped(r), NEW b, NEW t, Exact(b, r, t),
           NEW lo \in Cell, NEW hi \in Cell, NEW f, f.rs_z \in (lo .. hi) \cup {-1},
           NEW i \in lo .. hi, f.cells[i].seqs = {}, Zeroed(b, f, f.cells[i].src0)
    PROVE  From(r, f, i) = << >>
<1>1. \A d \in 0 .. setting.rs, j \in Cell :
        Cleared(r, f)[d][j] = IF d = 0 /\ j = f.rs_z THEN << >> ELSE r[d][j]
  BY ClearedIs
<1>2. 0 \in 0 .. setting.rs
  BY MemoryAssumption
<1>3. PICK x : x = f.cells[i].src0
  OBVIOUS
<1>4. Plane(f, i) = 0
  BY DEF Plane, IsEmpty
<1>5. From(r, f, i) = Cleared(r, f)[0][x]
  BY <1>3, <1>4 DEF From
<1>6. x \in Cell /\ (x = f.rs_z \/ Blank(b, x))
  BY <1>3 DEF Zeroed
<1>7. Blank(b, x) => r[0][x] = << >>
  BY <1>6 DEF Exact, ExactBut
<1> QED BY <1>1, <1>2, <1>5, <1>6, <1>7

(* Sequences of one set have the same content, and no rollback is pending   *)
(* for them unless the set is one sequence.                                 *)
Coupling(m, t, sets) == \A k \in 1 .. Len(sets) : \A x, y \in sets[k] :
    x # y => t[x] = t[y] /\ m.rs_idx[x] = 0

(* find_slot makes the memory f of m: the states are drawn from b, which is *)
(* exact for what the client has told, the joined sequences aside.          *)
Slotted(m, r, t, ub, f, b, lo, hi, v) ==
    /\ Sound(f) /\ Sound(b) /\ lo \in Cell /\ hi \in Cell
    /\ Drew(b, f, ub, lo, hi)
    /\ f.rs_idx = m.rs_idx /\ b.rs_idx = m.rs_idx
    /\ Exact(b, r, v)
    /\ \A s \in SeqId : v[s] = IF s \in Joined(ub.sets) THEN Nothing ELSE t[s]

(* So it does. *)
LEMMA SlotExact ==
    ASSUME NEW m, Sound(m), NEW r, NEW t, NEW ub, WellUbatch(ub), Coupling(m, t, ub.sets),
           ExactBut(m, r, t, Joined(ub.sets))
    PROVE  \E b, lo, hi, v : Slotted(m, r, t, ub, FindSlot(m, ub).m, b, lo, hi, v)
<1>1. Sane(m) /\ WellSets(ub.sets)
  BY DEF Sound, WellUbatch
<1>2. PICK f : f = FindSlot(m, ub).m
  OBVIOUS
<1>3. /\ Sane(f) /\ f.rs_idx = m.rs_idx
      /\ \E b, lo, hi : Sane(b) /\ Left(m, b, Joined(ub.sets)) /\ Drew(b, f, ub, lo, hi)
  BY <1>1, <1>2, FindSlotWorks
<1>4. PICK b, lo, hi : Sane(b) /\ Left(m, b, Joined(ub.sets)) /\ Drew(b, f, ub, lo, hi)
  BY <1>3
<1>5. lo \in Cell /\ hi \in Cell /\ f.rs_idx = b.rs_idx
  BY <1>4 DEF Drew
<1>6. Sound(f) /\ Sound(b)
  BY <1>3, <1>4, <1>5 DEF Sound
<1>7. PICK J \in SUBSET SeqId : J = Joined(ub.sets)
  BY <1>1, JoinedIs
<1>8. PICK v : v = [s \in SeqId |-> IF s \in J THEN Nothing ELSE t[s]]
  OBVIOUS
<1>9. \A s \in SeqId : v[s] = IF s \in J THEN Nothing ELSE t[s]
  BY <1>8
<1>10. ASSUME NEW s \in SeqId PROVE b.rs_idx[s] = IF s \in J THEN 0 ELSE m.rs_idx[s]
  <2>1. CASE s \in J
    <3>1. PICK k \in 1 .. Len(ub.sets) : s \in ub.sets[k] /\ s # Main(ub.sets[k])
      BY <1>1, <1>7, <2>1, JoinedIs
    <3>2. Main(ub.sets[k]) \in ub.sets[k]
      BY <1>1, SetsType
    <3>3. m.rs_idx[s] = 0
      BY <3>1, <3>2 DEF Coupling
    <3> QED BY <1>3, <1>5, <2>1, <3>3
  <2>2. CASE s \notin J
    BY <1>3, <1>5, <2>2
  <2> QED BY <2>1, <2>2
<1>11. Left(m, b, J) /\ ExactBut(m, r, t, J)
  BY <1>4, <1>7
<1>12. Exact(b, r, v)
  BY <1>1, <1>4, <1>9, <1>10, <1>11, LeaveExact
<1>13. b.rs_idx = m.rs_idx
  BY <1>3, <1>5
<1>14. Slotted(m, r, t, ub, f, b, lo, hi, v)
  BY <1>3, <1>4, <1>5, <1>6, <1>7, <1>9, <1>12, <1>13 DEF Slotted
<1> QED BY <1>2, <1>14

(* What the sequences of the micro batch have come to.                      *)
Advanced(t, u, ub) ==
    /\ \A k \in 1 .. Len(ub.sets) : \A s \in ub.sets[k] :
         /\ u[s].toks = t[s].toks \o Same(ub.n, Main(ub.sets[k]))
         /\ u[s].pos = ub.last[k]
    /\ \A s \in SeqId : s \notin UNION Range(ub.sets) => u[s] = t[s]

(* So they have. *)
LEMMA AdvanceIs ==
    ASSUME NEW ub, WellUbatch(ub)
    PROVE  Advanced(told, Advance(ub), ub)
<1> DEFINE js(s) == {k \in DOMAIN ub.sets : s \in ub.sets[k]}
           r(s, k) == [toks |-> told[s].toks \o Same(ub.n, Main(ub.sets[k])), pos |-> ub.last[k]]
           to(s) == IF js(s) = {} THEN told[s] ELSE r(s, Min(js(s)))
<1>1. Advance(ub) = [s \in SeqId |-> to(s)]
  BY DEF Advance, Same
<1>2. WellSets(ub.sets)
  BY DEF WellUbatch
<1>3. DOMAIN ub.sets = 1 .. Len(ub.sets) /\ Len(ub.sets) \in Nat
  BY <1>2, SetsType
<1>4. ASSUME NEW k \in 1 .. Len(ub.sets), NEW s \in ub.sets[k] PROVE s \in SeqId /\ to(s) = r(s, k)
  <2>1. s \in SeqId
    BY <1>2, SetsType
  <2>2. js(s) = {k}
    BY <1>2, <1>3 DEF WellSets
  <2>3. Min({k}) = k
    <3>1. {k} \subseteq Nat /\ {k} # {}
      BY <1>3
    <3>2. Min({k}) \in {k}
      BY <3>1, MinIs
    <3> QED BY <3>2
  <2>4. js(s) # {} /\ Min(js(s)) = k
    BY <2>2, <2>3
  <2> HIDE DEF js, r
  <2> QED BY <2>1, <2>4
<1>5. ASSUME NEW s \in SeqId, s \notin UNION Range(ub.sets) PROVE to(s) = told[s]
  <2>1. js(s) = {}
    BY <1>2, <1>3, <1>5, JoinedIs
  <2> QED BY <2>1
<1>6. PICK u : u = Advance(ub)
  OBVIOUS
<1> HIDE DEF to
<1>7. \A s \in SeqId : u[s] = to(s)
  BY <1>1, <1>6
<1>8. ASSUME NEW k \in 1 .. Len(ub.sets), NEW s \in ub.sets[k]
      PROVE  u[s].toks = told[s].toks \o Same(ub.n, Main(ub.sets[k])) /\ u[s].pos = ub.last[k]
  <2>1. u[s] = r(s, k)
    <3> HIDE DEF r
    <3> QED BY <1>4, <1>7
  <2>2. r(s, k).toks = told[s].toks \o Same(ub.n, Main(ub.sets[k])) /\ r(s, k).pos = ub.last[k]
    OBVIOUS
  <2> HIDE DEF r
  <2> QED BY <2>1, <2>2
<1>9. ASSUME NEW s \in SeqId, s \notin UNION Range(ub.sets) PROVE u[s] = told[s]
  BY <1>5, <1>7, <1>9
<1> QED BY <1>6, <1>8, <1>9 DEF Advanced

(* The compute has read its sources: no rollback is pending any more for    *)
(* the first sequences of the cells of the range.                           *)
Ended(c, f, lo, hi) ==
    /\ Sound(c)
    /\ \A s \in SeqId : c.tail[s] = f.tail[s]
    /\ \A i \in Cell : SameCell(c.cells[i], f.cells[i])
    /\ \A s \in SeqId : (\E i \in lo .. hi : s \in First(f, i)) => c.rs_idx[s] = 0
    /\ \A s \in SeqId : c.rs_idx[s] \in {0, f.rs_idx[s]}
    /\ \A s \in SeqId : (\A i \in lo .. hi : s \notin f.cells[i].seqs) => c.rs_idx[s] = f.rs_idx[s]

(* So it is after the reading. *)
LEMMA ConsumedIs ==
    ASSUME setting \in Settings, NEW f, Sound(f), NEW lo \in Cell, NEW hi \in Cell,
           f.head = lo, f.n = hi - lo + 1
    PROVE  Ended(Consumed(f), f, lo, hi)
<1>1. PICK c : c = Consumed(f)
  OBVIOUS
<1>2. InRange(f) = lo .. hi
  <2>1. lo + (hi - lo + 1) - 1 = hi /\ lo \in Int /\ hi \in Int
    BY CellsAndSequences
  <2> QED BY <2>1 DEF InRange
<1>3. /\ Sound(c) /\ c.tail = f.tail
      /\ \A i \in Cell : SameCell(c.cells[i], f.cells[i])
      /\ \A s \in SeqId :
           c.rs_idx[s] = IF setting.rs > 0 /\ \E i \in InRange(f) : s \in First(f, i)
                         THEN 0 ELSE f.rs_idx[s]
  BY <1>1, ConsumedSound
<1>4. \A s \in SeqId :
        c.rs_idx[s] = IF setting.rs > 0 /\ \E i \in lo .. hi : s \in First(f, i)
                      THEN 0 ELSE f.rs_idx[s]
  BY <1>2, <1>3
<1>5. \A s \in SeqId : f.rs_idx[s] \in Nat /\ f.rs_idx[s] <= setting.rs
  BY DEF Sound, Sane, Memory
<1>6. ASSUME NEW s \in SeqId, \E i \in lo .. hi : s \in First(f, i) PROVE c.rs_idx[s] = 0
  <2>1. CASE setting.rs > 0
    BY <1>4, <1>6, <2>1
  <2>2. CASE ~ (setting.rs > 0)
    <3>1. f.rs_idx[s] = 0
      BY <1>5, <2>2, MemoryAssumption
    <3> QED BY <1>4, <3>1
  <2> QED BY <2>1, <2>2
<1>7. ASSUME NEW s \in SeqId, \A i \in lo .. hi : s \notin f.cells[i].seqs
      PROVE  c.rs_idx[s] = f.rs_idx[s]
  <2>1. \A i \in lo .. hi : s \notin First(f, i)
    BY <1>7 DEF First
  <2> QED BY <1>4, <2>1
<1>8. \A s \in SeqId : c.rs_idx[s] \in {0, f.rs_idx[s]}
  BY <1>4
<1>9. \A s \in SeqId : c.tail[s] = f.tail[s]
  BY <1>3
<1> QED BY <1>1, <1>3, <1>6, <1>7, <1>8, <1>9 DEF Ended

(* A cell and the first of its sequences. *)
LEMMA FirstIs ==
    ASSUME NEW f, Sane(f), NEW i \in Cell, f.cells[i].seqs # {}
    PROVE  /\ Min(f.cells[i].seqs) \in f.cells[i].seqs
           /\ Min(f.cells[i].seqs) \in SeqId
           /\ Min(f.cells[i].seqs) \in First(f, i)
           /\ Plane(f, i) = f.rs_idx[Min(f.cells[i].seqs)]
<1>1. f.cells[i].seqs \subseteq SeqId
  BY CellFields DEF Sane
<1>2. f.cells[i].seqs \subseteq Nat
  BY <1>1, CellsAndSequences
<1>3. Min(f.cells[i].seqs) \in f.cells[i].seqs
  BY <1>2, MinIs
<1> QED BY <1>1, <1>3 DEF First, Plane, IsEmpty

(* A micro batch was computed.                                              *)
Ran(m, r, t, ub, f, b, lo, hi, v, g, c, u) ==
    /\ Slotted(m, r, t, ub, f, b, lo, hi, v)
    /\ Shaped(r) /\ WellUbatch(ub) /\ ub.n \in Nat /\ ub.n > 0
    /\ Coupling(m, t, ub.sets)
    /\ Computed(r, f, ub, lo, hi, g)
    /\ Ended(c, f, lo, hi)
    /\ Advanced(t, u, ub)

(* The cells of the micro batch are in the range, and hold its sequences. *)
LEMMA OwnCell ==
    ASSUME NEW ub, WellUbatch(ub), NEW lo, NEW hi, NEW b, NEW f, Sound(f), Drew(b, f, ub, lo, hi),
           NEW k \in 1 .. Len(ub.sets)
    PROVE  \E i \in lo .. hi :
             /\ i = lo + k - 1 /\ i \in Cell /\ i - lo + 1 = k
             /\ f.cells[i].seqs = ub.sets[k] /\ f.cells[i].pos = ub.last[k] /\ f.cells[i].src = i
             /\ Draws(b, f, i, Main(ub.sets[k]))
             /\ \A s \in SeqId : s \in ub.sets[k] <=> f.tail[s] = i
<1>1. /\ lo \in Cell /\ hi \in Cell /\ hi - lo + 1 >= Len(ub.sets)
      /\ f.cells[lo + k - 1].seqs = ub.sets[k]
      /\ f.cells[lo + k - 1].pos = ub.last[k]
      /\ Draws(b, f, lo + k - 1, Main(ub.sets[k]))
      /\ \A i \in lo .. hi : f.cells[i].src = i
  BY DEF Drew
<1>2. Len(ub.sets) \in Nat
  BY SetsType DEF WellUbatch
<1>3. lo \in Nat /\ hi \in Nat /\ lo .. hi \subseteq Cell
  BY <1>1, CellsAndSequences DEF Cell
<1>4. PICK i \in lo .. hi : i = lo + k - 1 /\ i \in Cell /\ i - lo + 1 = k
  BY <1>1, <1>2, <1>3
<1>5. f.cells[i].seqs = Held(f.tail, i)
  BY <1>4, SaneAgree DEF Sound
<1>6. f.cells[i].seqs = ub.sets[k]
  BY <1>1, <1>4
<1>7. \A s \in SeqId : s \in ub.sets[k] <=> f.tail[s] = i
  BY <1>5, <1>6 DEF Held
<1> QED BY <1>1, <1>4, <1>6, <1>7

(* The rows of its cell hold what the sequence s of the k-th set was before *)
(* its last tokens.                                                         *)
Trailed(t, ub, g, c, k, s) == \A d \in 0 .. setting.rs : d < ub.n =>
    g[d][c.tail[s]] = t[s].toks \o Same(ub.n - d, Main(ub.sets[k]))

(* The sequences of the micro batch continue from the rows behind their new *)
(* tokens, as many rows as there are tokens.                                *)
LEMMA OwnExact ==
    ASSUME setting \in Settings, NEW m, NEW r, NEW t, NEW ub, NEW f, NEW b, NEW lo, NEW hi, NEW v,
           NEW g, NEW c, NEW u, Ran(m, r, t, ub, f, b, lo, hi, v, g, c, u),
           NEW k \in 1 .. Len(ub.sets), NEW s \in ub.sets[k]
    PROVE  /\ Continues(c, g, u, s)
           /\ Trailed(t, ub, g, c, k, s)
<1>1. /\ Sound(f) /\ Sound(b) /\ lo \in Cell /\ hi \in Cell
      /\ Drew(b, f, ub, lo, hi)
      /\ f.rs_idx = m.rs_idx /\ b.rs_idx = m.rs_idx
      /\ Exact(b, r, v)
      /\ \A x \in SeqId : v[x] = IF x \in Joined(ub.sets) THEN Nothing ELSE t[x]
  BY DEF Ran, Slotted
<1>2. /\ Shaped(r) /\ WellUbatch(ub) /\ WellSets(ub.sets) /\ ub.n \in Nat /\ ub.n > 0
      /\ Coupling(m, t, ub.sets)
  BY DEF Ran, WellUbatch
<1>3. PICK y \in SeqId : y = Main(ub.sets[k])
  BY <1>2, SetsType
<1>4. y \in ub.sets[k] /\ s \in SeqId
  BY <1>2, <1>3, SetsType
<1>5. PICK i \in lo .. hi :
             /\ i = lo + k - 1 /\ i \in Cell /\ i - lo + 1 = k
             /\ f.cells[i].seqs = ub.sets[k] /\ f.cells[i].pos = ub.last[k] /\ f.cells[i].src = i
             /\ Draws(b, f, i, y)
             /\ \A x \in SeqId : x \in ub.sets[k] <=> f.tail[x] = i
  BY <1>1, <1>2, <1>3, OwnCell
<1>6. v[y] = t[y]
  <2>1. y \notin Joined(ub.sets)
    BY <1>2, <1>3, JoinedIs
  <2> QED BY <1>1, <2>1
<1>7. t[y] = t[s]
  BY <1>2, <1>4 DEF Coupling
<1>8. Min(f.cells[i].seqs) = y
  BY <1>3, <1>5 DEF Main
<1>9. f.cells[i].seqs # {} /\ Sane(f)
  BY <1>1, <1>4, <1>5 DEF Sound
<1>10. y \in First(f, i) /\ Plane(f, i) = b.rs_idx[y]
  BY <1>1, <1>5, <1>8, <1>9, FirstIs
<1>11. From(r, f, i) = t[s].toks
  BY <1>1, <1>2, <1>5, <1>6, <1>7, <1>10, FromIs
<1>12. \A d \in 0 .. setting.rs : d < ub.n =>
         g[d][i] = From(r, f, i) \o Same(ub.n - d, y)
  BY <1>3, <1>5 DEF Ran, Computed
<1>13. c.tail[s] = i
  BY <1>4, <1>5 DEF Ran, Ended
<1>14. \A d \in 0 .. setting.rs : d < ub.n =>
         g[d][c.tail[s]] = t[s].toks \o Same(ub.n - d, Main(ub.sets[k]))
  BY <1>3, <1>11, <1>12, <1>13
<1>15. c.rs_idx[s] = 0
  <2>1. CASE s = y
    BY <1>4, <1>5, <1>10, <2>1 DEF Ran, Ended
  <2>2. CASE s # y
    <3>1. m.rs_idx[s] = 0
      BY <1>2, <1>4, <2>2 DEF Coupling
    <3>2. f.rs_idx[s] = 0
      BY <1>1, <3>1
    <3>3. c.rs_idx[s] \in {0, f.rs_idx[s]}
      BY <1>4 DEF Ran, Ended
    <3> QED BY <3>2, <3>3
  <2> QED BY <2>1, <2>2
<1>16. SameCell(c.cells[i], f.cells[i])
  BY <1>5 DEF Ran, Ended
<1>17. u[s].toks = t[s].toks \o Same(ub.n, y) /\ u[s].pos = ub.last[k]
  BY <1>3 DEF Ran, Advanced
<1>18. g[0][i] = u[s].toks
  <2>1. 0 \in 0 .. setting.rs /\ 0 < ub.n /\ ub.n - 0 = ub.n
    BY <1>2, MemoryAssumption
  <2>2. g[0][i] = From(r, f, i) \o Same(ub.n - 0, y)
    BY <1>12, <2>1
  <2> QED BY <1>11, <1>17, <2>1, <2>2
<1>19. c.cells[i].pos = u[s].pos /\ c.cells[i].src = i
  BY <1>5, <1>16, <1>17 DEF SameCell
<1>20. Resumes(c, g, u, s, i, 0)
  BY <1>5, <1>13, <1>15, <1>18, <1>19 DEF Resumes
<1>21. Continues(c, g, u, s)
  BY <1>20, ContinuesIn
<1> QED BY <1>14, <1>21 DEF Trailed

(* The sequence s that is in the cell i of f was in the cell e of b.        *)
Origin(b, f, v, s, i, lo, hi, e) ==
    /\ b.tail[s] = e /\ b.cells[e].src = e
    /\ s \in b.cells[e].seqs
    /\ b.rs_idx[s] # 0 => b.cells[e].seqs = {s}
    /\ f.cells[i].pos = v[s].pos
    /\ i \in lo .. hi => Draws(b, f, i, s) /\ f.cells[i].src0 = e
    /\ i \notin lo .. hi => e = i

(* Another sequence whose cell is in f where it has a state: it had one in  *)
(* b, and the two sources are the same.                                     *)
LEMMA OtherCell ==
    ASSUME NEW ub, NEW lo, NEW hi, NEW b, Sound(b), NEW f, Sound(f), Drew(b, f, ub, lo, hi),
           NEW r, NEW v, Exact(b, r, v),
           NEW s \in SeqId, s \notin UNION Range(ub.sets), NEW i \in Cell, f.tail[s] = i
    PROVE  \E e \in Cell : Origin(b, f, v, s, i, lo, hi, e)
<1>1. /\ f.tail[s] \in Cell <=> b.tail[s] \in Cell
      /\ f.tail[s] \in Cell =>
              /\ f.cells[f.tail[s]].pos = b.cells[b.tail[s]].pos
              /\ f.tail[s] \in lo .. hi => Draws(b, f, f.tail[s], s)
              /\ f.tail[s] \notin lo .. hi => f.cells[f.tail[s]].src = b.cells[b.tail[s]].src
  BY DEF Drew
<1>2. PICK e \in Cell : e = b.tail[s]
  BY <1>1
<1>3. /\ f.cells[i].pos = b.cells[e].pos
      /\ i \in lo .. hi => Draws(b, f, i, s)
      /\ i \notin lo .. hi => f.cells[i].src = b.cells[e].src
  BY <1>1, <1>2
<1>4. Continues(b, r, v, s)
  BY DEF Exact, ExactBut
<1>5. b.cells[e].pos = v[s].pos /\ b.cells[e].src = e /\ (b.rs_idx[s] # 0 => b.cells[e].seqs = {s})
  BY <1>2, <1>4 DEF Continues
<1>6. s \in b.cells[e].seqs
  BY <1>2, SaneAgree DEF Sound, Held
<1>7. ASSUME i \in lo .. hi PROVE f.cells[i].src0 = e
  BY <1>2, <1>3, <1>5, <1>7 DEF Draws
<1>8. ASSUME i \notin lo .. hi PROVE e = i
  <2>1. f.cells[i].src = e
    BY <1>3, <1>5, <1>8
  <2>2. f.cells[i].src \in {-1, i}
    BY DEF Sound, Sane, OwnSources
  <2> QED BY <2>1, <2>2, CellsAndSequences
<1>9. Origin(b, f, v, s, i, lo, hi, e)
  BY <1>2, <1>3, <1>5, <1>6, <1>7, <1>8 DEF Origin
<1> QED BY <1>9

(* A cell with a sequence that is not of the micro batch has none that is.  *)
LEMMA CellOfOthers ==
    ASSUME NEW ub, WellUbatch(ub), NEW lo, NEW hi, NEW b, NEW f, Sound(f), Drew(b, f, ub, lo, hi),
           NEW s \in SeqId, s \notin UNION Range(ub.sets), NEW i \in Cell, f.tail[s] = i
    PROVE  /\ \A y \in f.cells[i].seqs : y \in SeqId /\ y \notin UNION Range(ub.sets) /\ f.tail[y] = i
           /\ s \in f.cells[i].seqs
           /\ i \in lo .. hi => i - lo + 1 \notin 1 .. Len(ub.sets)
<1>1. f.cells[i].seqs = Held(f.tail, i)
  BY SaneAgree DEF Sound
<1>2. WellSets(ub.sets)
  BY DEF WellUbatch
<1>3. ASSUME NEW k \in 1 .. Len(ub.sets), i = lo + k - 1 PROVE FALSE
  <2>1. f.tail[s] = i => s \in ub.sets[k]
    BY <1>3, OwnCell
  <2>2. s \in UNION Range(ub.sets)
    BY <1>2, <2>1, JoinedIs
  <2> QED BY <2>2
<1>4. ASSUME NEW y \in SeqId, f.tail[y] = i, y \in UNION Range(ub.sets) PROVE FALSE
  <2>1. PICK k \in 1 .. Len(ub.sets) : y \in ub.sets[k]
    BY <1>2, <1>4, JoinedIs
  <2>2. f.tail[y] = lo + k - 1
    BY <2>1 DEF Drew
  <2> QED BY <1>3, <1>4, <2>2
<1>5. ASSUME i \in lo .. hi, i - lo + 1 \in 1 .. Len(ub.sets) PROVE FALSE
  <2>1. lo \in Nat /\ i \in Nat
    BY CellsAndSequences DEF Drew
  <2>2. PICK k \in 1 .. Len(ub.sets) : k = i - lo + 1
    BY <1>5
  <2>3. i = lo + k - 1
    BY <2>1, <2>2
  <2> QED BY <1>3, <2>3
<1> QED BY <1>1, <1>4, <1>5 DEF Held

(* Every other sequence has its state moved with it, or left where it is.   *)
LEMMA OtherExact ==
    ASSUME setting \in Settings, NEW m, NEW r, NEW t, NEW ub, NEW f, NEW b, NEW lo, NEW hi, NEW v,
           NEW g, NEW c, NEW u, Ran(m, r, t, ub, f, b, lo, hi, v, g, c, u),
           NEW s \in SeqId, s \notin UNION Range(ub.sets)
    PROVE  Continues(c, g, u, s)
<1>1. /\ Sound(f) /\ Sound(b) /\ lo \in Cell /\ hi \in Cell
      /\ Drew(b, f, ub, lo, hi)
      /\ f.rs_idx = b.rs_idx
      /\ Exact(b, r, v)
      /\ \A x \in SeqId : v[x] = IF x \in Joined(ub.sets) THEN Nothing ELSE t[x]
  BY DEF Ran, Slotted
<1>2. Shaped(r) /\ WellUbatch(ub) /\ WellSets(ub.sets)
  BY DEF Ran, WellUbatch
<1>3. s \notin Joined(ub.sets)
  BY <1>2, JoinedIs
<1>4. v[s] = u[s]
  BY <1>1, <1>3 DEF Ran, Advanced
<1>5. /\ c.tail[s] = f.tail[s] /\ c.rs_idx[s] \in {0, f.rs_idx[s]}
      /\ (\E i \in lo .. hi : s \in First(f, i)) => c.rs_idx[s] = 0
      /\ (\A i \in lo .. hi : s \notin f.cells[i].seqs) => c.rs_idx[s] = f.rs_idx[s]
      /\ \A i \in Cell : SameCell(c.cells[i], f.cells[i])
  BY DEF Ran, Ended
<1>6. CASE f.tail[s] \in Cell
  <2>1. PICK i \in Cell : i = f.tail[s]
    BY <1>6
  <2>2. PICK e \in Cell : /\ b.tail[s] = e /\ b.cells[e].src = e
                          /\ s \in b.cells[e].seqs
                          /\ b.rs_idx[s] # 0 => b.cells[e].seqs = {s}
                          /\ f.cells[i].pos = v[s].pos
                          /\ i \in lo .. hi => Draws(b, f, i, s) /\ f.cells[i].src0 = e
                          /\ i \notin lo .. hi => e = i
    <3>1. f.tail[s] = i
      BY <2>1
    <3>2. \E e \in Cell : Origin(b, f, v, s, i, lo, hi, e)
      BY <1>1, <3>1, OtherCell
    <3> QED BY <3>2 DEF Origin
  <2>3. /\ \A y \in f.cells[i].seqs : y \in SeqId /\ y \notin UNION Range(ub.sets) /\ f.tail[y] = i
        /\ s \in f.cells[i].seqs
        /\ i \in lo .. hi => i - lo + 1 \notin 1 .. Len(ub.sets)
    BY <1>1, <1>2, <2>1, CellOfOthers
  <2>4. SameCell(c.cells[i], f.cells[i]) /\ c.tail[s] = i
    BY <1>5, <2>1
  <2>5. c.cells[i].pos = u[s].pos
    BY <1>4, <2>2, <2>4 DEF SameCell
  <2>6. CASE i \in lo .. hi
    <3>1. PICK y \in SeqId : y = Min(f.cells[i].seqs)
      BY <1>1, <2>3, FirstIs DEF Sound
    <3>2. y \in f.cells[i].seqs /\ y \in First(f, i) /\ Plane(f, i) = b.rs_idx[y]
      BY <1>1, <2>3, <3>1, FirstIs DEF Sound
    <3>3. y # s => b.rs_idx[y] = 0 /\ b.rs_idx[s] = 0
      <4>1. PICK j \in Cell : Origin(b, f, v, y, i, lo, hi, j)
        <5>1. y \in SeqId /\ y \notin UNION Range(ub.sets) /\ f.tail[y] = i
          BY <2>3, <3>2
        <5> QED BY <1>1, <5>1, OtherCell
      <4>2. j = e
        BY <2>2, <2>6, <4>1 DEF Origin
      <4> QED BY <2>2, <4>1, <4>2 DEF Origin
    <3>4. c.rs_idx[s] = 0
      <4>1. CASE y = s
        BY <1>5, <2>6, <3>2, <4>1
      <4>2. CASE y # s
        BY <1>1, <1>5, <3>3, <4>2
      <4> QED BY <4>1, <4>2
    <3>5. Plane(f, i) = b.rs_idx[s]
      BY <3>2, <3>3
    <3>6. From(r, f, i) = v[s].toks
      BY <1>1, <1>2, <2>2, <2>6, <3>5, FromIs
    <3>7. g[0][i] = u[s].toks
      <4>1. g[0][i] = From(r, f, i)
        BY <2>3, <2>6 DEF Ran, Computed
      <4> QED BY <1>4, <3>6, <4>1
    <3>8. c.cells[i].src = i
      <4>1. f.cells[i].src = i
        BY <1>1, <2>6 DEF Drew
      <4> QED BY <2>4, <4>1 DEF SameCell
    <3>9. Resumes(c, g, u, s, i, 0)
      BY <2>4, <2>5, <3>4, <3>7, <3>8 DEF Resumes
    <3> QED BY <3>9, ContinuesIn
  <2>7. CASE i \notin lo .. hi
    <3>1. e = i
      BY <2>2, <2>7
    <3>2. \A j \in lo .. hi : s \notin f.cells[j].seqs
      <4>1. lo .. hi \subseteq Cell
        BY <1>1, CellsAndSequences DEF Cell
      <4>2. \A j \in lo .. hi : f.cells[j].seqs = Held(f.tail, j)
        BY <1>1, <4>1, SaneAgree DEF Sound
      <4> QED BY <2>1, <2>7, <4>2 DEF Held
    <3>3. PICK d \in 0 .. setting.rs : d = b.rs_idx[s]
      <4>1. b.rs_idx[s] \in Nat /\ b.rs_idx[s] <= setting.rs
        BY <1>1 DEF Sound, Sane, Memory
      <4>2. setting.rs \in Nat
        BY MemoryAssumption
      <4> QED BY <4>1, <4>2
    <3>4. c.rs_idx[s] = d
      BY <1>1, <1>5, <3>2, <3>3
    <3>5. g[d][i] = v[s].toks
      <4>1. g[d][i] = Cleared(r, f)[d][i]
        BY <2>7 DEF Ran, Computed
      <4>2. f.rs_z \in (lo .. hi) \cup {-1}
        BY <1>1 DEF Drew
      <4>3. i # f.rs_z
        BY <2>7, <4>2, CellsAndSequences
      <4>4. Cleared(r, f)[d][i] = r[d][i]
        BY <1>1, <1>2, <4>2, <4>3, ClearedIs
      <4>5. r[d][i] = v[s].toks
        <5>1. Continues(b, r, v, s)
          BY <1>1 DEF Exact, ExactBut
        <5> QED BY <2>2, <3>1, <3>3, <5>1 DEF Continues
      <4> QED BY <4>1, <4>4, <4>5
    <3>6. c.cells[i].src = i
      <4>1. f.cells[i].src = i
        <5>1. f.cells[f.tail[s]].src = b.cells[b.tail[s]].src
          BY <1>1, <1>6, <2>1, <2>7 DEF Drew
        <5> QED BY <2>1, <2>2, <3>1, <5>1
      <4> QED BY <2>4, <4>1 DEF SameCell
    <3>7. d # 0 => c.cells[i].seqs = {s}
      <4>1. ASSUME d # 0, NEW y \in f.cells[i].seqs PROVE y = s
        <5>1. y \in b.cells[i].seqs
          <6>1. y \in SeqId /\ y \notin UNION Range(ub.sets) /\ f.tail[y] = i
            BY <2>3, <4>1
          <6>2. PICK j \in Cell : Origin(b, f, v, y, i, lo, hi, j)
            BY <1>1, <6>1, OtherCell
          <6> QED BY <2>7, <6>2 DEF Origin
        <5> QED BY <2>2, <3>1, <3>3, <4>1, <5>1
      <4>2. d # 0 => f.cells[i].seqs = {s}
        BY <2>3, <4>1
      <4> QED BY <2>4, <4>2 DEF SameCell
    <3>8. Resumes(c, g, u, s, i, d)
      BY <1>4, <2>4, <2>5, <3>4, <3>5, <3>6, <3>7 DEF Resumes
    <3> QED BY <3>8, ContinuesIn
  <2> QED BY <2>6, <2>7
<1>7. CASE f.tail[s] \notin Cell
  <2>1. b.tail[s] \notin Cell
    BY <1>1, <1>7 DEF Drew
  <2>2. Continues(b, r, v, s)
    BY <1>1 DEF Exact, ExactBut
  <2>3. v[s] = Nothing /\ b.rs_idx[s] = 0
    BY <2>1, <2>2 DEF Continues
  <2>4. u[s] = Nothing /\ c.rs_idx[s] = 0 /\ c.tail[s] \notin Cell
    BY <1>1, <1>4, <1>5, <1>7, <2>3
  <2> QED BY <2>4 DEF Continues
<1> QED BY <1>6, <1>7

(* The rows of empty cells hold nothing, wherever they have come from.      *)
LEMMA BlankStays ==
    ASSUME setting \in Settings, NEW m, NEW r, NEW t, NEW ub, NEW f, NEW b, NEW lo, NEW hi, NEW v,
           NEW g, NEW c, NEW u, Ran(m, r, t, ub, f, b, lo, hi, v, g, c, u),
           NEW i \in Cell, Blank(c, i)
    PROVE  g[0][i] = << >>
<1>1. /\ Sound(f) /\ Sound(b) /\ lo \in Cell /\ hi \in Cell
      /\ Drew(b, f, ub, lo, hi)
      /\ Exact(b, r, v)
  BY DEF Ran, Slotted
<1>2. Shaped(r) /\ WellUbatch(ub) /\ WellSets(ub.sets)
  BY DEF Ran, WellUbatch
<1>3. c.cells[i].seqs = {} /\ c.cells[i].src = i
  BY CellsAndSequences DEF Blank
<1>4. SameCell(c.cells[i], f.cells[i])
  BY DEF Ran, Ended
<1>5. f.cells[i].seqs = {} /\ f.cells[i].src = i
  BY <1>3, <1>4 DEF SameCell
<1>6. f.rs_z \in (lo .. hi) \cup {-1}
  BY <1>1 DEF Drew
<1>7. CASE i \in lo .. hi
  <2>1. i - lo + 1 \notin 1 .. Len(ub.sets)
    <3>1. ASSUME i - lo + 1 \in 1 .. Len(ub.sets) PROVE FALSE
      <4>1. PICK k \in 1 .. Len(ub.sets) : k = i - lo + 1
        BY <3>1
      <4>2. lo \in Nat /\ i \in Nat
        BY <1>1, CellsAndSequences
      <4>3. i = lo + k - 1
        BY <4>1, <4>2
      <4>4. f.cells[i].seqs = ub.sets[k]
        BY <1>1, <1>2, <4>3, OwnCell
      <4>5. ub.sets[k] # {}
        BY <1>2 DEF WellSets
      <4> QED BY <1>5, <4>4, <4>5
    <3> QED BY <3>1
  <2>2. g[0][i] = From(r, f, i)
    BY <1>7, <2>1 DEF Ran, Computed
  <2>3. Zeroed(b, f, f.cells[i].src0)
    BY <1>1, <1>5, <1>7 DEF Drew
  <2>4. From(r, f, i) = << >>
    BY <1>1, <1>2, <1>5, <1>6, <1>7, <2>3, FromNothing
  <2> QED BY <2>2, <2>4
<1>8. CASE i \notin lo .. hi
  <2>1. Blank(b, f.cells[i].src)
    BY <1>1, <1>5, <1>8 DEF Drew
  <2>2. r[0][i] = << >>
    BY <1>1, <1>5, <2>1 DEF Exact, ExactBut
  <2>3. 0 \in 0 .. setting.rs
    BY MemoryAssumption
  <2>4. g[0][i] = Cleared(r, f)[0][i]
    BY <1>8, <2>3 DEF Ran, Computed
  <2>5. i # f.rs_z
    BY <1>6, <1>8, CellsAndSequences
  <2>6. Cleared(r, f)[0][i] = r[0][i]
    BY <1>1, <1>2, <1>6, <2>3, <2>5, ClearedIs
  <2> QED BY <2>2, <2>4, <2>6
<1> QED BY <1>7, <1>8

(* After the compute of a micro batch the memory is exact again.            *)
LEMMA RanExact ==
    ASSUME setting \in Settings, NEW m, NEW r, NEW t, NEW ub, NEW f, NEW b, NEW lo, NEW hi, NEW v,
           NEW g, NEW c, NEW u, Ran(m, r, t, ub, f, b, lo, hi, v, g, c, u)
    PROVE  Exact(c, g, u)
<1>1. WellSets(ub.sets)
  BY DEF Ran, WellUbatch
<1>2. ASSUME NEW s \in SeqId PROVE Continues(c, g, u, s)
  <2>1. CASE s \in UNION Range(ub.sets)
    <3>1. PICK k \in 1 .. Len(ub.sets) : s \in ub.sets[k]
      BY <1>1, <2>1, JoinedIs
    <3> QED BY <3>1, OwnExact
  <2>2. CASE s \notin UNION Range(ub.sets)
    BY <2>2, OtherExact
  <2> QED BY <2>1, <2>2
<1>3. ASSUME NEW i \in Cell, Blank(c, i) PROVE g[0][i] = << >>
  BY <1>3, BlankStays
<1> QED BY <1>2, <1>3 DEF Exact, ExactBut

(* The rows behind hold what the sequences of the micro batch were before   *)
(* its last tokens.                                                         *)
LEMMA RanSnapshots ==
    ASSUME setting \in Settings, NEW m, NEW r, NEW t, NEW ub, NEW f, NEW b, NEW lo, NEW hi, NEW v,
           NEW g, NEW c, NEW u, Ran(m, r, t, ub, f, b, lo, hi, v, g, c, u),
           NEW s \in UNION Range(ub.sets), t[s].toks \in Seq(Nat),
           NEW d \in 0 .. setting.rs, d < ub.n
    PROVE  g[d][c.tail[s]] = SubSeq(u[s].toks, 1, Len(u[s].toks) - d)
<1>1. WellSets(ub.sets) /\ ub.n \in Nat
  BY DEF Ran, WellUbatch
<1>2. PICK k \in 1 .. Len(ub.sets) : s \in ub.sets[k]
  BY <1>1, JoinedIs
<1>3. PICK y \in Nat : y = Main(ub.sets[k])
  BY <1>1, SetsType, CellsAndSequences
<1>4. g[d][c.tail[s]] = t[s].toks \o Same(ub.n - d, y)
  <2>1. Trailed(t, ub, g, c, k, s)
    BY <1>2, OwnExact
  <2> QED BY <1>3, <2>1 DEF Trailed
<1>5. u[s].toks = t[s].toks \o Same(ub.n, y)
  BY <1>2, <1>3 DEF Ran, Advanced
<1>6. d \in Nat /\ d <= ub.n
  BY <1>1, MemoryAssumption
<1>7. PICK w \in Seq(Nat) : w = t[s].toks
  OBVIOUS
<1>8. SubSeq(w \o Same(ub.n, y), 1, Len(w \o Same(ub.n, y)) - d) = w \o Same(ub.n - d, y)
  BY <1>1, <1>6, TakenBehind
<1> QED BY <1>4, <1>5, <1>7, <1>8

-----------------------------------------------------------------------------
(* The state of a checkpoint is put where find_slot has made room for it.   *)

(* One row gets another state. *)
RowSet(r, h, x) == [r EXCEPT ![0][h] = x]

(* That row, and no other. *)
LEMMA RowSetIs ==
    ASSUME setting \in Settings, NEW r, Shaped(r), NEW h \in Cell, NEW x, NEW q, q = RowSet(r, h, x)
    PROVE  /\ Shaped(q)
           /\ \A d \in 0 .. setting.rs, i \in Cell : q[d][i] = IF d = 0 /\ i = h THEN x ELSE r[d][i]
<1>1. PICK D : D = 0 .. setting.rs
  OBVIOUS
<1>2. 0 \in D
  BY <1>1, MemoryAssumption
<1>3. PICK f : f = [d \in D |-> [i \in Cell |-> r[d][i]]]
  OBVIOUS
<1>4. q = [f EXCEPT ![0][h] = x]
  BY <1>1, <1>3 DEF RowSet, Shaped
<1>5. \A d \in D, i \in Cell :
        [f EXCEPT ![0][h] = x][d][i] = IF d = 0 /\ i = h THEN x ELSE f[d][i]
  BY <1>2, <1>3
<1>6. \A d \in D, i \in Cell : f[d][i] = r[d][i]
  BY <1>3
<1>7. [f EXCEPT ![0][h] = x] = [d \in D |-> [i \in Cell |-> [f EXCEPT ![0][h] = x][d][i]]]
  BY <1>2, <1>3
<1>8. Shaped(q)
  BY <1>1, <1>4, <1>7 DEF Shaped
<1>9. \A d \in D, i \in Cell : q[d][i] = IF d = 0 /\ i = h THEN x ELSE r[d][i]
  BY <1>4, <1>5, <1>6
<1> QED BY <1>1, <1>8, <1>9

(* The memory q is f but for what was staged, and the rollback of s.        *)
Beside(q, f, s) ==
    /\ \A x \in SeqId : q.tail[x] = f.tail[x]
    /\ \A i \in Cell : SameCell(q.cells[i], f.cells[i])
    /\ \A x \in SeqId : x # s => q.rs_idx[x] = f.rs_idx[x]

(* The slot for one sequence. *)
SlotOf(s, p) == [sets |-> <<{s}>>, n |-> 1, last |-> <<p>>]

(* It is a micro batch of its own. *)
LEMMA SlotIs ==
    ASSUME NEW s \in SeqId, NEW p \in Nat, NEW ub, ub = SlotOf(s, p)
    PROVE  /\ WellUbatch(ub) /\ ub.sets[1] = {s} /\ ub.last[1] = p /\ Len(ub.sets) = 1
           /\ UNION Range(ub.sets) = {s} /\ Joined(ub.sets) = {}
           /\ \A m, t : Coupling(m, t, ub.sets)
<1>1. ub.sets = <<{s}>> /\ ub.last = <<p>>
  BY DEF SlotOf
<1>2. PICK sets : sets = <<{s}>>
  OBVIOUS
<1>3. sets \in Seq(SUBSET SeqId) /\ Len(sets) = 1 /\ sets[1] = {s}
  BY <1>2
<1>4. \A k \in 1 .. Len(sets) : k = 1
  BY <1>3
<1>5. WellSets(sets)
  BY <1>3, <1>4 DEF WellSets
<1>6. WellUbatch(ub)
  BY <1>1, <1>2, <1>3, <1>4, <1>5 DEF WellUbatch
<1>7. UNION Range(sets) = {s}
  BY <1>3, <1>4, <1>5, JoinedIs
<1>8. Joined(sets) = {}
  <2>1. Main(sets[1]) = s
    <3>1. 1 \in 1 .. Len(sets)
      BY <1>3
    <3>2. Main(sets[1]) \in sets[1]
      BY <1>5, <3>1, SetsType
    <3> QED BY <1>3, <3>2
  <2> QED BY <1>3, <1>4, <1>5, <2>1, JoinedIs
<1>9. \A m, t : Coupling(m, t, sets)
  BY <1>3, <1>4 DEF Coupling
<1>10. ub.sets = sets
  BY <1>1, <1>2
<1>11. ub.sets[1] = {s} /\ Len(ub.sets) = 1
  BY <1>3, <1>10
<1>12. ub.last[1] = p
  BY <1>1
<1>13. UNION Range(ub.sets) = {s} /\ Joined(ub.sets) = {}
  BY <1>7, <1>8, <1>10
<1>14. \A m, t : Coupling(m, t, ub.sets)
  BY <1>9, <1>10
<1> QED BY <1>6, <1>11, <1>12, <1>13, <1>14

(* The sequence s has the cell h, with the state x at the position p, and   *)
(* no other sequence notices.                                               *)
Restored(q, o, t, s, h, p, x) ==
    /\ h \in Cell /\ Shaped(o) /\ o[0][h] = x
    /\ q.tail[s] = h /\ q.cells[h].pos = p /\ q.cells[h].src = h
    /\ ExactBut(q, o, t, {s})

(* So it is after the search of a slot for it.                              *)
LEMMA RestoredBut ==
    ASSUME setting \in Settings, NEW m, Sound(m), NEW r, Shaped(r), NEW t, Exact(m, r, t),
           NEW s \in SeqId, NEW p \in Nat, NEW ub, ub = SlotOf(s, p),
           NEW f, f = FindSlot(m, ub).m, NEW q, Beside(q, f, s), NEW x,
           NEW o, o = RowSet(r, f.head, x)
    PROVE  Restored(q, o, t, s, f.head, p, x)
<1>1. /\ WellUbatch(ub) /\ ub.sets[1] = {s} /\ ub.last[1] = p /\ Len(ub.sets) = 1
      /\ UNION Range(ub.sets) = {s} /\ Joined(ub.sets) = {}
      /\ Coupling(m, t, ub.sets)
  BY SlotIs
<1>2. \E b, lo, hi, v : Slotted(m, r, t, ub, f, b, lo, hi, v)
  <2>1. ExactBut(m, r, t, Joined(ub.sets))
    BY ExactForSome
  <2> QED BY <1>1, <2>1, SlotExact
<1>3. PICK b, h, hi, v : Slotted(m, r, t, ub, f, b, h, hi, v)
  BY <1>2
<1>4. /\ Sound(f) /\ Sound(b) /\ h \in Cell /\ hi \in Cell
      /\ Drew(b, f, ub, h, hi)
      /\ f.rs_idx = b.rs_idx
      /\ Exact(b, r, v)
      /\ \A y \in SeqId : v[y] = t[y]
  BY <1>1, <1>3 DEF Slotted
<1>5. h = hi /\ f.head = h /\ \A i \in Cell : i \in h .. hi <=> i = h
  <2>1. h = hi /\ f.head = h
    BY <1>1, <1>4 DEF Drew
  <2> QED BY <2>1, CellsAndSequences
<1>6. /\ f.cells[h].seqs = {s} /\ f.cells[h].pos = p /\ f.cells[h].src = h
      /\ \A y \in SeqId : y \in {s} <=> f.tail[y] = h
  <2>1. PICK i \in h .. hi :
             /\ i = h + 1 - 1 /\ i \in Cell
             /\ f.cells[i].seqs = {s} /\ f.cells[i].pos = p /\ f.cells[i].src = i
             /\ \A y \in SeqId : y \in {s} <=> f.tail[y] = i
    <3>1. 1 \in 1 .. Len(ub.sets)
      BY <1>1
    <3>2. PICK k \in 1 .. Len(ub.sets) : k = 1
      BY <3>1
    <3>3. \E i \in h .. hi :
             /\ i = h + k - 1 /\ i \in Cell /\ i - h + 1 = k
             /\ f.cells[i].seqs = ub.sets[k] /\ f.cells[i].pos = ub.last[k] /\ f.cells[i].src = i
             /\ Draws(b, f, i, Main(ub.sets[k]))
             /\ \A y \in SeqId : y \in ub.sets[k] <=> f.tail[y] = i
      BY <1>1, <1>4, OwnCell
    <3>4. ub.sets[k] = {s} /\ ub.last[k] = p
      BY <1>1, <3>2
    <3> QED BY <3>2, <3>3, <3>4
  <2>2. i = h
    BY <1>5, <2>1
  <2> QED BY <2>1, <2>2
<1>7. Shaped(o) /\ \A d \in 0 .. setting.rs, i \in Cell : o[d][i] = IF d = 0 /\ i = h THEN x ELSE r[d][i]
  BY <1>4, <1>5, RowSetIs
<1>8. 0 \in 0 .. setting.rs
  BY MemoryAssumption
<1>9. o[0][h] = x
  BY <1>4, <1>7, <1>8
<1>10. q.tail[s] = h /\ q.cells[h].pos = p /\ q.cells[h].src = h
  <2>1. q.tail[s] = f.tail[s] /\ SameCell(q.cells[h], f.cells[h])
    BY <1>4 DEF Beside
  <2> QED BY <1>6, <2>1 DEF SameCell
<1>11. ASSUME NEW y \in SeqId, y # s PROVE Continues(q, o, t, y)
  <2>1. q.tail[y] = f.tail[y] /\ q.rs_idx[y] = b.rs_idx[y] /\ f.tail[y] # h /\ y \notin UNION Range(ub.sets)
    BY <1>1, <1>4, <1>6, <1>11 DEF Beside
  <2>2. Continues(b, r, v, y) /\ v[y] = t[y]
    BY <1>4 DEF Exact, ExactBut
  <2>3. CASE f.tail[y] \in Cell
    <3>1. PICK i \in Cell : i = f.tail[y] /\ f.tail[y] = i
      BY <2>3
    <3>2. i \notin h .. hi /\ i # h
      BY <1>5, <2>1, <3>1
    <3>3. PICK e \in Cell : Origin(b, f, v, y, i, h, hi, e)
      BY <1>4, <2>1, <3>1, OtherCell
    <3>4. /\ b.tail[y] = i /\ b.cells[i].src = i
          /\ b.rs_idx[y] # 0 => b.cells[i].seqs = {y}
          /\ f.cells[i].pos = t[y].pos
      BY <2>2, <3>2, <3>3 DEF Origin
    <3>5. PICK d \in 0 .. setting.rs : d = b.rs_idx[y]
      <4>1. b.rs_idx[y] \in Nat /\ b.rs_idx[y] <= setting.rs
        BY <1>4 DEF Sound, Sane, Memory
      <4>2. setting.rs \in Nat
        BY MemoryAssumption
      <4> QED BY <4>1, <4>2
    <3>6. o[d][i] = t[y].toks
      <4>1. r[d][i] = t[y].toks
        BY <2>2, <3>4, <3>5 DEF Continues
      <4> QED BY <1>7, <3>2, <4>1
    <3>7. f.cells[i].src = i
      <4>1. f.cells[f.tail[y]].src = b.cells[b.tail[y]].src
        BY <1>4, <2>1, <2>3, <3>1, <3>2 DEF Drew
      <4> QED BY <3>1, <3>4, <4>1
    <3>8. d # 0 => f.cells[i].seqs = {y}
      <4>1. /\ \A z \in f.cells[i].seqs : z \in SeqId /\ z \notin UNION Range(ub.sets) /\ f.tail[z] = i
            /\ y \in f.cells[i].seqs
        BY <1>1, <1>4, <2>1, <3>1, CellOfOthers
      <4>2. ASSUME d # 0, NEW z \in f.cells[i].seqs PROVE z = y
        <5>1. z \in SeqId /\ z \notin UNION Range(ub.sets) /\ f.tail[z] = i
          BY <4>1
        <5>2. PICK j \in Cell : Origin(b, f, v, z, i, h, hi, j)
          BY <1>4, <5>1, OtherCell
        <5>3. z \in b.cells[i].seqs
          BY <3>2, <5>2 DEF Origin
        <5> QED BY <3>4, <3>5, <4>2, <5>3
      <4> QED BY <4>1, <4>2
    <3>9. SameCell(q.cells[i], f.cells[i])
      BY DEF Beside
    <3>10. q.cells[i].pos = t[y].pos /\ q.cells[i].src = i /\ (d # 0 => q.cells[i].seqs = {y})
      BY <3>4, <3>7, <3>8, <3>9 DEF SameCell
    <3>11. Resumes(q, o, t, y, i, d)
      BY <2>1, <3>1, <3>5, <3>6, <3>10 DEF Resumes
    <3> QED BY <3>11, ContinuesIn
  <2>4. CASE f.tail[y] \notin Cell
    <3>1. b.tail[y] \notin Cell
      BY <1>4, <2>1, <2>4 DEF Drew
    <3>2. t[y] = Nothing /\ b.rs_idx[y] = 0
      BY <2>2, <3>1 DEF Continues
    <3> QED BY <2>1, <2>4, <3>2 DEF Continues
  <2> QED BY <2>3, <2>4
<1>12. ASSUME NEW i \in Cell, Blank(q, i) PROVE o[0][i] = << >>
  <2>1. q.cells[i].seqs = {} /\ q.cells[i].src = i /\ SameCell(q.cells[i], f.cells[i])
    BY <1>12, CellsAndSequences DEF Blank, Beside
  <2>2. f.cells[i].seqs = {} /\ f.cells[i].src = i
    BY <2>1 DEF SameCell
  <2>3. i # h /\ i \notin h .. hi
    BY <1>5, <1>6, <2>2
  <2>4. Blank(b, f.cells[i].src)
    BY <1>4, <2>2, <2>3 DEF Drew
  <2>5. r[0][i] = << >>
    BY <1>4, <2>2, <2>4 DEF Exact, ExactBut
  <2> QED BY <1>7, <1>8, <2>3, <2>5
<1>13. ExactBut(q, o, t, {s})
  BY <1>11, <1>12 DEF ExactBut
<1> QED BY <1>4, <1>5, <1>7, <1>9, <1>10, <1>13 DEF Restored

-----------------------------------------------------------------------------
(* The tokens of a batch.                                                   *)

(* The count depends on the micro batches counted only.                     *)
LEMMA TokensCongruent ==
    ASSUME NEW b, NEW e, NEW s, NEW n \in Nat,
           \A k \in 1 .. n : OwnTokens(b[k], s) = OwnTokens(e[k], s)
    PROVE  TokensIn(b, n, s) = TokensIn(e, n, s)
<1>1. PICK g : Counted(g, b, s, n) /\ TokensIn(b, n, s) = g[n]
  BY CountedIs
<1>2. g[0] = 0 /\ \A k \in 1 .. n : g[k] = g[k - 1] + OwnTokens(b[k], s)
  BY <1>1, CountedAt
<1>3. PICK h : Counted(h, e, s, n) /\ TokensIn(e, n, s) = h[n]
  BY CountedIs
<1>4. h[0] = 0 /\ \A k \in 1 .. n : h[k] = h[k - 1] + OwnTokens(e[k], s)
  BY <1>3, CountedAt
<1> DEFINE S == {i \in Nat : i <= n => g[i] = h[i]}
<1>5. 0 \in S
  BY <1>2, <1>4
<1>6. ASSUME NEW i \in Nat, i \in S PROVE i + 1 \in S
  <2> SUFFICES ASSUME i + 1 <= n PROVE g[i + 1] = h[i + 1]
    OBVIOUS
  <2>1. i + 1 \in 1 .. n /\ i + 1 - 1 = i /\ g[i] = h[i]
    BY <1>6
  <2> QED BY <1>2, <1>4, <2>1
<1> HIDE DEF S
<1>7. Nat \subseteq S
  BY <1>5, <1>6, Induction
<1>8. g[n] = h[n]
  BY <1>7 DEF S
<1> QED BY <1>1, <1>3, <1>8

(* The first micro batch counts for itself. *)
LEMMA TokensShift ==
    ASSUME NEW b, NEW e, NEW s, NEW n \in Nat, \A k \in 1 .. n : e[k] = b[k + 1],
           \A k \in 1 .. n + 1 : b[k].n \in Nat
    PROVE  /\ TokensIn(b, n + 1, s) = OwnTokens(b[1], s) + TokensIn(e, n, s)
           /\ OwnTokens(b[1], s) \in Nat /\ TokensIn(e, n, s) \in Nat
<1>1. PICK g : Counted(g, b, s, n + 1) /\ TokensIn(b, n + 1, s) = g[n + 1]
  BY CountedIs
<1>2. g[0] = 0 /\ \A k \in 1 .. n + 1 : g[k] = g[k - 1] + OwnTokens(b[k], s)
  BY <1>1, CountedAt
<1>3. PICK h : Counted(h, e, s, n) /\ TokensIn(e, n, s) = h[n]
  BY CountedIs
<1>4. h[0] = 0 /\ \A k \in 1 .. n : h[k] = h[k - 1] + OwnTokens(e[k], s)
  BY <1>3, CountedAt
<1>5. \A k \in 1 .. n + 1 : OwnTokens(b[k], s) \in Nat
  BY DEF OwnTokens
<1>6. PICK a \in Nat : a = OwnTokens(b[1], s)
  BY <1>5
<1>7. g[1] = a
  <2>1. 1 \in 1 .. n + 1 /\ 1 - 1 = 0
    OBVIOUS
  <2> QED BY <1>2, <1>6, <2>1
<1> DEFINE S == {i \in Nat : i <= n => h[i] \in Nat /\ g[i + 1] = a + h[i]}
<1>8. 0 \in S
  BY <1>4, <1>7
<1>9. ASSUME NEW i \in Nat, i \in S PROVE i + 1 \in S
  <2> SUFFICES ASSUME i + 1 <= n PROVE h[i + 1] \in Nat /\ g[i + 1 + 1] = a + h[i + 1]
    OBVIOUS
  <2>1. h[i] \in Nat /\ g[i + 1] = a + h[i]
    BY <1>9
  <2>2. PICK j \in 1 .. n : j = i + 1 /\ j - 1 = i /\ j + 1 \in 1 .. n + 1 /\ j + 1 - 1 = j
    OBVIOUS
  <2>3. PICK o \in Nat : o = OwnTokens(b[j + 1], s)
    BY <1>5, <2>2
  <2>4. h[j] = h[i] + o
    <3>1. h[j] = h[j - 1] + OwnTokens(e[j], s)
      BY <1>4, <2>2
    <3>2. e[j] = b[j + 1]
      BY <2>2
    <3> QED BY <2>2, <2>3, <3>1, <3>2
  <2>5. g[j + 1] = g[j] + o
    <3>1. g[j + 1] = g[j + 1 - 1] + OwnTokens(b[j + 1], s)
      BY <1>2, <2>2
    <3> QED BY <2>2, <2>3, <3>1
  <2>6. h[j] \in Nat /\ g[j + 1] = a + h[j]
    BY <2>1, <2>2, <2>4, <2>5
  <2> QED BY <2>2, <2>6
<1> HIDE DEF S
<1>10. Nat \subseteq S
  BY <1>8, <1>9, Induction
<1>11. h[n] \in Nat /\ g[n + 1] = a + h[n]
  BY <1>10 DEF S
<1> QED BY <1>1, <1>3, <1>6, <1>11

(* A batch of one. *)
LEMMA TokensOfOne ==
    ASSUME NEW b, NEW s, b[1].n \in Nat
    PROVE  TokensIn(b, 1, s) = OwnTokens(b[1], s) /\ TokensIn(b, 0, s) = 0
<1>1. \A n \in Nat : \E g : /\ TokensIn(b, n, s) = g[n]
                            /\ g[0] = 0 /\ \A k \in 1 .. n : g[k] = g[k - 1] + OwnTokens(b[k], s)
  BY CountedIs, CountedAt
<1>2. TokensIn(b, 0, s) = 0
  BY <1>1
<1>3. OwnTokens(b[1], s) \in Nat
  BY DEF OwnTokens
<1>4. TokensIn(b, 1, s) = OwnTokens(b[1], s)
  <2>1. PICK g : /\ TokensIn(b, 1, s) = g[1]
                 /\ g[0] = 0 /\ \A k \in 1 .. 1 : g[k] = g[k - 1] + OwnTokens(b[k], s)
    BY <1>1
  <2>2. g[1] = g[1 - 1] + OwnTokens(b[1], s)
    BY <2>1
  <2> QED BY <1>3, <2>1, <2>2
<1> QED BY <1>2, <1>4

-----------------------------------------------------------------------------
(* The states are exact: the inductive invariant.                           *)

(* What a client has put into a sequence. *)
Short(r) == r.toks \in Seq(Nat) /\ r.pos < Len(r.toks) /\ Len(r.toks) <= setting.len

(* The micro batches still to process go on from what the client has told. *)
Fitting(m, t, f, b) ==
    /\ \A k \in 1 .. Len(b) : b[k].n > 0 /\ Coupling(m, t, b[k].sets)
    /\ Alike(b)
    /\ \A k \in 1 .. Len(b) : \A j \in 1 .. Len(b[k].sets) :
         b[k].last[j] < Len(t[Main(b[k].sets[j])].toks) + TokensIn(b, k, Main(b[k].sets[j]))
    /\ \A s \in SeqId : Len(t[s].toks) + TokensIn(b, Len(b), s) <= setting.len
    /\ "back" \in setting.calls /\ setting.rs > 0 =>
         \A s \in SeqId : f[s] > 0 => s \in UNION Range(b[Len(b)].sets) /\ f[s] < b[Len(b)].n

(* The checkpoints hold the state of what the client had told. *)
Faithful(c) == c.state = c.told.toks /\ c.pos = c.told.pos /\ Short(c.told)

RowInv ==
    /\ IInv
    /\ Shaped(rows)
    /\ fresh \in [SeqId -> Nat]
    /\ \A s \in SeqId : Short(told[s])
    /\ phase # "failed" => Exact(mem, rows, told)
    /\ phase = "idle" /\ "back" \in setting.calls => Snapshots(mem, rows, told, fresh)
    /\ phase = "decode" => Fitting(mem, told, fresh, batch)
    /\ \A c \in saved : Faithful(c)

(* A draft is in the last micro batch of its batch, if the rows are there   *)
(* to take it back.                                                         *)
OneDraft == \A g \in Settings : "back" \in g.calls => g.rs = 0 \/ "last" \in g.calls \/ g.ubs <= 1

(* The bound on the length of a sequence is no larger than the largest      *)
(* position.                                                                *)
LongEnough == \A g \in Settings : g.len <= Inf

(* An action keeps the invariant when it keeps each part.                   *)
LEMMA RowsKept ==
    ASSUME IInv', UNCHANGED setting, Shaped(rows'), fresh' \in [SeqId -> Nat],
           \A s \in SeqId : Short(told'[s]),
           phase' # "failed" => Exact(mem', rows', told'),
           phase' = "idle" /\ "back" \in setting.calls => Snapshots(mem', rows', told', fresh'),
           phase' = "decode" => Fitting(mem', told', fresh', batch'),
           \A c \in saved' : Faithful(c)
    PROVE  RowInv'
<1>1. Shaped(rows)'
  BY DEF Shaped
<1>2. (\A s \in SeqId : Short(told[s]))'
  BY DEF Short
<1>3. (phase # "failed" => Exact(mem, rows, told))'
  BY DEF Exact, ExactBut, Continues, Blank
<1>4. (phase = "idle" /\ "back" \in setting.calls => Snapshots(mem, rows, told, fresh))'
  BY DEF Snapshots
<1>5. (phase = "decode" => Fitting(mem, told, fresh, batch))'
  BY DEF Fitting
<1>6. (\A c \in saved : Faithful(c))'
  BY DEF Faithful, Short
<1> QED BY <1>1, <1>2, <1>3, <1>4, <1>5, <1>6 DEF RowInv

(* A call between two batches leaves rows that hold what they should.       *)
LEMMA CallRows ==
    ASSUME RowInv, IInv', UNCHANGED <<setting, batch, client>>, phase' = "idle",
           NEW r, rows' = Kept(r, mem', fresh'), Shaped(r), Exact(mem', r, told'),
           fresh' \in [SeqId -> Nat], \A s \in SeqId : Short(told'[s]),
           "back" \in setting.calls => Snapshots(mem', r, told', fresh')
    PROVE  RowInv'
<1>1. setting \in Settings /\ UNCHANGED setting /\ saved' = saved
  BY DEF RowInv, IInv, client
<1>2. Sound(mem')
  <2>1. Sound(mem)'
    BY DEF IInv
  <2> QED BY <1>1, <2>1 DEF Sound, Sane, Memory, Agree, Dated, OwnSources, Held, InUse, IsEmpty, Tails, CellRec
<1>3. PICK m, f, t : m = mem' /\ f = fresh' /\ t = told'
  OBVIOUS
<1>4. Sound(m) /\ f \in [SeqId -> Nat] /\ Exact(m, r, t)
  BY <1>2, <1>3
<1>5. Shaped(Kept(r, m, f)) /\ Exact(m, Kept(r, m, f), t)
  BY <1>1, <1>4, KeptRow, KeptExact
<1>6. "back" \in setting.calls => Snapshots(m, Kept(r, m, f), t, f)
  <2>1. "back" \in setting.calls => Snapshots(m, r, t, f)
    BY <1>3
  <2> QED BY <1>1, <1>4, <2>1, KeptSnapshots
<1>7. rows' = Kept(r, m, f)
  BY <1>3
<1>8. Shaped(rows') /\ Exact(mem', rows', told')
      /\ ("back" \in setting.calls => Snapshots(mem', rows', told', fresh'))
  BY <1>3, <1>5, <1>6, <1>7
<1>9. \A c \in saved' : Faithful(c)
  BY <1>1 DEF RowInv
<1>10. phase' # "decode" /\ phase' # "failed"
  OBVIOUS
<1> QED BY <1>1, <1>8, <1>9, <1>10, RowsKept

(* Nothing can be taken back of no draft. *)
LEMMA NoDraftSnapshots ==
    ASSUME NEW m, NEW r, NEW t, NEW f, \A s \in SeqId : f[s] = 0
    PROVE  Snapshots(m, r, t, f)
BY DEF Snapshots

(* The draft of a sequence that stays where it is can still be taken back.  *)
LEMMA SnapshotsOn ==
    ASSUME NEW m, NEW r, NEW t, NEW f, Snapshots(m, r, t, f), NEW q, NEW u, NEW g,
           \A s \in SeqId : g[s] = 0 \/ (g[s] = f[s] /\ q.tail[s] = m.tail[s] /\ u[s] = t[s])
    PROVE  Snapshots(q, r, u, g)
<1> SUFFICES ASSUME NEW s \in SeqId, q.tail[s] \in Cell, NEW d \in 1 .. g[s], d <= setting.rs
             PROVE  r[d][q.tail[s]] = SubSeq(u[s].toks, 1, Len(u[s].toks) - d)
  BY DEF Snapshots
<1>1. g[s] # 0
  OBVIOUS
<1>2. g[s] = f[s] /\ q.tail[s] = m.tail[s] /\ u[s] = t[s]
  BY <1>1
<1>3. d \in 1 .. f[s] /\ m.tail[s] \in Cell
  BY <1>2
<1>4. r[d][m.tail[s]] = SubSeq(t[s].toks, 1, Len(t[s].toks) - d)
  BY <1>3 DEF Snapshots
<1> QED BY <1>2, <1>4

(* Where a sequence is, and what the client knows of it.                    *)
LEMMA Told ==
    ASSUME RowInv, LongEnough, phase # "failed", NEW s \in SeqId
    PROVE  /\ told[s].pos = PosOf(mem, s)
           /\ told[s].pos \in Int /\ told[s].pos >= -1 /\ told[s].pos < Inf
           /\ told[s].toks \in Seq(Nat) /\ Len(told[s].toks) \in Nat
           /\ told[s].pos < Len(told[s].toks) /\ Len(told[s].toks) <= setting.len
           /\ mem.tail[s] \in Cell <=> mem.tail[s] >= 0
           /\ mem.tail[s] \notin Cell => mem.tail[s] = -1 /\ told[s] = Nothing
<1>1. Short(told[s]) /\ Continues(mem, rows, told, s) /\ Sane(mem) /\ setting \in Settings
  BY DEF RowInv, Exact, ExactBut, IInv, Sound
<1>2. told[s].pos \in Int /\ told[s].pos >= -1
  BY Reaches DEF RowInv, IInv, Followed
<1>3. PICK l \in Nat : l = Len(told[s].toks)
  BY <1>1 DEF Short
<1>4. told[s].pos < l /\ l <= setting.len /\ told[s].toks \in Seq(Nat)
  BY <1>1, <1>3 DEF Short
<1>5. told[s].pos < Inf
  <2>1. setting.len \in Nat /\ setting.len <= Inf /\ Inf \in Nat
    BY <1>1, MemoryAssumption DEF LongEnough, Inf
  <2>2. PICK p \in Int, n \in Nat, o \in Nat : p = told[s].pos /\ n = setting.len /\ o = Inf
    BY <1>2, <2>1
  <2>3. p < o
    BY <1>3, <1>4, <2>1, <2>2
  <2> QED BY <2>2, <2>3
<1>6. PICK x \in Cell \cup {-1} : x = mem.tail[s]
  BY <1>1, TailCell
<1>7. x \in Cell <=> x >= 0
  BY CellsAndSequences
<1>8. CASE x \in Cell
  <2>1. mem.cells[x].pos = told[s].pos
    BY <1>1, <1>6, <1>8 DEF Continues
  <2>2. ~ (x < 0)
    BY <1>7, <1>8, CellsAndSequences
  <2>3. PosOf(mem, s) = told[s].pos
    BY <1>6, <2>1, <2>2 DEF PosOf
  <2> QED BY <1>2, <1>3, <1>4, <1>5, <1>6, <1>7, <1>8, <2>3
<1>9. CASE x \notin Cell
  <2>1. told[s] = Nothing /\ x = -1
    BY <1>1, <1>6, <1>9 DEF Continues
  <2>2. told[s].pos = -1 /\ PosOf(mem, s) = -1
    BY <1>6, <2>1 DEF PosOf, Nothing
  <2> QED BY <1>2, <1>3, <1>4, <1>5, <1>6, <1>7, <1>9, <2>1, <2>2
<1> QED BY <1>8, <1>9

(* A client that has put nothing into a sequence. *)
LEMMA NothingShort ==
    ASSUME setting \in Settings
    PROVE  Short(Nothing)
<1>1. Nothing.toks = << >> /\ Nothing.pos = -1
  BY DEF Nothing
<1>2. << >> \in Seq(Nat) /\ Len(<< >>) = 0
  OBVIOUS
<1>3. setting.len \in Nat
  BY MemoryAssumption
<1> QED BY <1>1, <1>2, <1>3 DEF Short

(* The type of what the client has told, and of a draft. *)
LEMMA ToldFunction ==
    ASSUME IInv
    PROVE  told = [s \in SeqId |-> told[s]]
BY DEF IInv, Followed

(* A draft of one sequence is given up. *)
LEMMA DraftLess ==
    ASSUME fresh \in [SeqId -> Nat], NEW s \in SeqId, NEW g, g = [fresh EXCEPT ![s] = 0]
    PROVE  /\ g \in [SeqId -> Nat] /\ g[s] = 0
           /\ \A x \in SeqId : x # s => g[x] = fresh[x]
OBVIOUS

(* No draft. *)
LEMMA NoDraftIs == NoDraft \in [SeqId -> Nat] /\ \A s \in SeqId : NoDraft[s] = 0
BY DEF NoDraft

(* A sequence is removed. *)
LEMMA RemoveSeqRows ==
    ASSUME RowInv, LongEnough, IInv', NEW s \in SeqId, RemoveSeq(s)
    PROVE  RowInv'
<1>1. phase = "idle" /\ UNCHANGED <<setting, batch, client>> /\ phase' = "idle"
  BY DEF RemoveSeq, May
<1>2. setting \in Settings /\ Sound(mem) /\ Exact(mem, rows, told) /\ Shaped(rows) /\ IInv
  BY <1>1 DEF RowInv, IInv
<1>3. PosOf(mem, s) < Inf
  BY <1>1, Told
<1>4. PICK b : b = SeqRm(mem, s, 0, Inf).m
  OBVIOUS
<1>5. PICK u : u = [told EXCEPT ![s] = Nothing]
  OBVIOUS
<1>6. \A x \in SeqId : u[x] = IF x = s THEN Nothing ELSE told[x]
  BY <1>2, <1>5, ToldFunction
<1>7. Exact(b, rows, u)
  <2>1. ExactBut(mem, rows, told, {s})
    BY <1>2, ExactForSome
  <2> QED BY <1>2, <1>3, <1>4, <1>6, <2>1, RemoveExact
<1>8. PICK g : g = [fresh EXCEPT ![s] = 0]
  OBVIOUS
<1>9. /\ g \in [SeqId -> Nat] /\ g[s] = 0
      /\ \A x \in SeqId : x # s => g[x] = fresh[x]
  BY <1>8, DraftLess DEF RowInv
<1>10. \A x \in SeqId : Short(u[x])
  BY <1>2, <1>6, NothingShort DEF RowInv
<1>11. "back" \in setting.calls => Snapshots(b, rows, u, g)
  <2>1. Left(mem, b, {s})
    BY <1>2, <1>3, <1>4, RemoveIs
  <2>2. \A x \in SeqId : x # s => b.tail[x] = mem.tail[x]
    BY <2>1 DEF Left
  <2>3. \A x \in SeqId : g[x] = 0 \/ (g[x] = fresh[x] /\ b.tail[x] = mem.tail[x] /\ u[x] = told[x])
    BY <1>6, <1>9, <2>2
  <2>4. "back" \in setting.calls => Snapshots(mem, rows, told, fresh)
    BY <1>1 DEF RowInv
  <2> QED BY <2>3, <2>4, SnapshotsOn
<1>12. mem' = b /\ told' = u /\ fresh' = g /\ rows' = Kept(rows, mem', fresh')
  BY <1>4, <1>5, <1>8 DEF RemoveSeq
<1> QED BY <1>1, <1>2, <1>7, <1>9, <1>10, <1>11, <1>12, CallRows

(* Tokens of the draft are taken back, as long as the rows behind have what *)
(* was before them.                                                         *)
LEMMA RollbackRows ==
    ASSUME RowInv, LongEnough, IInv', NEW s \in SeqId, NEW d \in Nat, d > 0, Rollback(s, d)
    PROVE  RowInv'
<1>1. phase = "idle" /\ UNCHANGED <<setting, batch, client>> /\ phase' = "idle" /\ "back" \in setting.calls
  BY DEF Rollback, May
<1>2. setting \in Settings /\ Sound(mem) /\ Exact(mem, rows, told) /\ Shaped(rows) /\ IInv
  BY <1>1 DEF RowInv, IInv
<1>3. /\ told[s].pos = PosOf(mem, s)
      /\ told[s].pos \in Int /\ told[s].pos < Inf
      /\ told[s].toks \in Seq(Nat) /\ Len(told[s].toks) \in Nat
      /\ told[s].pos < Len(told[s].toks) /\ Len(told[s].toks) <= setting.len
      /\ mem.tail[s] \in Cell <=> mem.tail[s] >= 0
      /\ mem.tail[s] \notin Cell => mem.tail[s] = -1 /\ told[s] = Nothing
  BY <1>1, Told
<1>4. d <= fresh[s] /\ d <= told[s].pos /\ Alone(s)
  BY DEF Rollback
<1>5. PICK p \in Nat, n \in Nat : p = told[s].pos /\ n = Len(told[s].toks)
  BY <1>3, <1>4
<1>6. PICK c \in Cell : c = mem.tail[s]
  <2>1. Nothing.pos = -1
    BY DEF Nothing
  <2> QED BY <1>3, <1>4, <2>1
<1>7. mem.tail[s] >= 0 /\ mem.cells[c].seqs = {s}
  BY <1>3, <1>4, <1>6 DEF Alone
<1>8. PICK p0 \in Nat : p0 = p - d + 1 /\ p0 > 0 /\ p0 <= p /\ p - (p0 - 1) = d /\ p0 - 1 = p - d /\ p0 - 1 \in Nat
  BY <1>4, <1>5
<1>9. PICK res : res = SeqRm(mem, s, p0, Inf)
  OBVIOUS
<1>10. PosOf(mem, s) = p /\ p < Inf
  BY <1>3, <1>5
<1>11. res = IF mem.rs_idx[s] = 0 /\ d <= setting.rs
             THEN [ok |-> TRUE, m |-> Rolled(mem, s, d, p0 - 1)]
             ELSE [ok |-> FALSE, m |-> mem]
  <2>1. p0 # 0
    BY <1>8
  <2>2. /\ mem.tail[s] >= 0 /\ 0 < p0 /\ p0 <= PosOf(mem, s) /\ PosOf(mem, s) < Inf
        /\ PosOf(mem, s) - (p0 - 1) = d
    BY <1>7, <1>8, <1>10
  <2> QED BY <1>9, <2>1, <2>2 DEF SeqRm, Rolled
<1>12. PICK o : o = [toks |-> SubSeq(told[s].toks, 1, Len(told[s].toks) - d), pos |-> told[s].pos - d]
  OBVIOUS
<1>13. /\ mem' = res.m
       /\ told' = IF res.ok THEN [told EXCEPT ![s] = o] ELSE told
       /\ fresh' = [fresh EXCEPT ![s] = 0] /\ rows' = Kept(rows, mem', fresh')
  <2>1. told[s].pos - d + 1 = p0
    BY <1>5, <1>8
  <2> QED BY <1>9, <1>12, <2>1 DEF Rollback
<1>14. PICK g : g = [fresh EXCEPT ![s] = 0]
  OBVIOUS
<1>15. /\ g \in [SeqId -> Nat] /\ g[s] = 0
       /\ \A x \in SeqId : x # s => g[x] = fresh[x]
  BY <1>14, DraftLess DEF RowInv
<1>16. Snapshots(mem, rows, told, fresh)
  BY <1>1 DEF RowInv
<1>17. CASE mem.rs_idx[s] = 0 /\ d <= setting.rs
  <2>1. PICK q : q = Rolled(mem, s, d, p0 - 1)
    OBVIOUS
  <2>2. PICK u : u = [told EXCEPT ![s] = o]
    OBVIOUS
  <2>3. mem' = q /\ told' = u
    BY <1>11, <1>13, <1>17, <2>1, <2>2
  <2>4. \A x \in SeqId : u[x] = IF x = s THEN o ELSE told[x]
    BY <1>2, <2>2, ToldFunction
  <2>5. /\ q.tail = mem.tail
        /\ \A i \in Cell : /\ q.cells[i].seqs = mem.cells[i].seqs /\ q.cells[i].src = mem.cells[i].src
                          /\ q.cells[i].pos = IF i = c THEN p0 - 1 ELSE mem.cells[i].pos
        /\ \A x \in SeqId : q.rs_idx[x] = IF x = s THEN d ELSE mem.rs_idx[x]
    <3>1. s \in mem.cells[c].seqs
      BY <1>7
    <3>2. PICK e \in Nat : e = p0 - 1
      BY <1>8
    <3>3. q = Rolled(mem, s, d, e)
      BY <2>1, <3>2
    <3> QED BY <1>2, <1>6, <1>17, <3>1, <3>2, <3>3, RolledBack
  <2>6. OnlyRedated(mem, q, s, c)
    BY <2>5 DEF OnlyRedated
  <2>7. u[s] = o /\ o.toks = SubSeq(told[s].toks, 1, n - d) /\ o.pos = p - d
    BY <1>5, <1>12, <2>4
  <2>8. q.cells[c].pos = u[s].pos /\ q.rs_idx[s] = d
    BY <1>8, <2>5, <2>7
  <2>9. rows[d][c] = u[s].toks
    <3>1. mem.tail[s] \in Cell /\ d \in 1 .. fresh[s]
      <4>1. fresh[s] \in Nat
        BY DEF RowInv
      <4> QED BY <1>4, <1>6, <4>1
    <3>2. rows[d][mem.tail[s]] = SubSeq(told[s].toks, 1, Len(told[s].toks) - d)
      BY <1>16, <1>17, <3>1 DEF Snapshots
    <3> QED BY <1>5, <1>6, <2>7, <3>2
  <2>10. Exact(q, rows, u)
    <3>1. Sane(mem) /\ mem.tail[s] = c
      BY <1>2, <1>6 DEF Sound
    <3>2. \A x \in SeqId : x # s => u[x] = told[x]
      BY <2>4
    <3> QED BY <1>2, <1>7, <2>6, <2>8, <2>9, <3>1, <3>2, RedatedExact
  <2>11. Short(o)
    <3>1. PICK w \in Seq(Nat) : w = told[s].toks /\ Len(w) = n
      BY <1>3, <1>5
    <3>2. d <= Len(w) /\ p < n /\ n <= setting.len
      BY <1>3, <1>4, <1>5, <3>1
    <3>3. SubSeq(w, 1, Len(w) - d) \in Seq(Nat) /\ Len(SubSeq(w, 1, Len(w) - d)) = Len(w) - d
      BY <3>2, TakenShort
    <3>4. o.toks \in Seq(Nat) /\ Len(o.toks) = n - d /\ o.pos = p - d
      BY <1>12, <1>5, <3>1, <3>3
    <3>5. setting.len \in Nat
      BY <1>2, MemoryAssumption
    <3>6. p - d < n - d /\ n - d <= setting.len
      BY <3>2, <3>5
    <3> QED BY <3>4, <3>6 DEF Short
  <2>12. \A x \in SeqId : Short(u[x])
    BY <2>4, <2>11 DEF RowInv
  <2>13. Snapshots(q, rows, u, g)
    <3>1. \A x \in SeqId : g[x] = 0 \/ (g[x] = fresh[x] /\ q.tail[x] = mem.tail[x] /\ u[x] = told[x])
      BY <1>15, <2>4, <2>5
    <3> QED BY <1>16, <3>1, SnapshotsOn
  <2>14. fresh' = g /\ rows' = Kept(rows, mem', fresh')
    BY <1>13, <1>14
  <2> QED BY <1>1, <1>2, <1>15, <2>3, <2>10, <2>12, <2>13, <2>14, CallRows
<1>18. CASE ~ (mem.rs_idx[s] = 0 /\ d <= setting.rs)
  <2>1. mem' = mem /\ told' = told /\ fresh' = g /\ rows' = Kept(rows, mem', fresh')
    BY <1>11, <1>13, <1>14, <1>18
  <2>2. Snapshots(mem, rows, told, g)
    <3>1. \A x \in SeqId : g[x] = 0 \/ (g[x] = fresh[x] /\ mem.tail[x] = mem.tail[x] /\ told[x] = told[x])
      BY <1>15
    <3> QED BY <1>16, <3>1, SnapshotsOn
  <2>3. \A x \in SeqId : Short(told[x])
    BY DEF RowInv
  <2> QED BY <1>1, <1>2, <1>15, <2>1, <2>2, <2>3, CallRows
<1> QED BY <1>17, <1>18

(* What is told alike is exact alike. *)
LEMMA ToldAlike ==
    ASSUME NEW m, NEW r, NEW t, Exact(m, r, t), NEW u, \A x \in SeqId : u[x] = t[x]
    PROVE  Exact(m, r, u)
BY DEF Exact, ExactBut, Continues

(* A sequence is copied. *)
LEMMA CopyRows ==
    ASSUME RowInv, LongEnough, IInv', NEW s \in SeqId, NEW t \in SeqId, Copy(s, t)
    PROVE  RowInv'
<1> DEFINE m0 == IF mem.tail[t] >= 0 THEN Leave(mem, {t}) ELSE mem
<1>1. phase = "idle" /\ UNCHANGED <<setting, batch, client>> /\ phase' = "idle"
  BY DEF Copy, May
<1>2. setting \in Settings /\ Sound(mem) /\ Exact(mem, rows, told) /\ Shaped(rows) /\ IInv
  BY <1>1 DEF RowInv, IInv
<1>3. s # t /\ mem.rs_idx[s] = 0 /\ mem.rs_idx[t] = 0
  BY DEF Copy, Settled
<1>4. PICK m : m = m0
  OBVIOUS
<1>5. /\ mem' = (IF m.tail[s] < 0 THEN m ELSE JoinCell(m, m.tail[s], t))
      /\ told' = [told EXCEPT ![t] = told[s]]
      /\ fresh' = NoDraft /\ rows' = Kept(rows, mem', fresh')
  BY <1>4 DEF Copy, JoinCell
<1>6. PICK v : v = [x \in SeqId |-> IF x = t THEN Nothing ELSE told[x]]
  OBVIOUS
<1>7. \A x \in SeqId : v[x] = IF x = t THEN Nothing ELSE told[x]
  BY <1>6
<1>8. /\ Sound(m) /\ Exact(m, rows, v) /\ m.tail[t] = -1 /\ m.tail[s] = mem.tail[s]
      /\ m.rs_idx = mem.rs_idx
  <2>1. CASE mem.tail[t] >= 0
    <3>1. m = Leave(mem, {t})
      BY <1>4, <2>1
    <3>2. {t} \in SUBSET SeqId /\ mem \in Memory /\ Sane(mem)
      BY <1>2 DEF Sound, Sane
    <3>3. Sound(m) /\ Left(mem, m, {t}) /\ m.rs_idx = mem.rs_idx
      BY <1>2, <3>1, <3>2, LeaveSound, LeaveIs DEF Left
    <3>4. m.tail[t] = -1 /\ m.tail[s] = mem.tail[s]
      BY <1>3, <3>3 DEF Left
    <3>5. ExactBut(mem, rows, told, {t})
      BY <1>2, ExactForSome
    <3>6. \A x \in SeqId : m.rs_idx[x] = IF x \in {t} THEN 0 ELSE mem.rs_idx[x]
      BY <1>3, <3>3
    <3>7. \A x \in SeqId : v[x] = IF x \in {t} THEN Nothing ELSE told[x]
      BY <1>7
    <3>8. Sane(m)
      BY <3>3 DEF Sound
    <3>9. Exact(m, rows, v)
      BY <3>2, <3>3, <3>5, <3>6, <3>7, <3>8, LeaveExact
    <3> QED BY <3>3, <3>4, <3>9
  <2>2. CASE ~ (mem.tail[t] >= 0)
    <3>1. m = mem
      BY <1>4, <2>2
    <3>2. mem.tail[t] = -1 /\ told[t] = Nothing
      BY <1>1, <2>2, Told
    <3>3. \A x \in SeqId : v[x] = told[x]
      BY <1>7, <3>2
    <3>4. Exact(mem, rows, v)
      BY <1>2, <3>3, ToldAlike
    <3> QED BY <1>2, <3>1, <3>2, <3>4
  <2> QED BY <2>1, <2>2
<1>9. PICK u : u = [told EXCEPT ![t] = told[s]]
  OBVIOUS
<1>10. \A x \in SeqId : u[x] = IF x = t THEN told[s] ELSE told[x]
  BY <1>2, <1>9, ToldFunction
<1>11. \A x \in SeqId : u[x] = IF x = t THEN v[s] ELSE v[x]
  BY <1>3, <1>7, <1>10
<1>12. Exact(mem', rows, u)
  <2>1. CASE mem.tail[s] \in Cell
    <3>1. PICK c \in Cell : c = m.tail[s]
      BY <1>8, <2>1
    <3>2. ~ (c < 0)
      BY CellsAndSequences
    <3>3. mem' = JoinCell(m, c, t)
      BY <1>5, <3>1, <3>2
    <3>4. m.rs_idx[s] = 0 /\ m.rs_idx[t] = 0
      BY <1>3, <1>8
    <3>5. Exact(JoinCell(m, c, t), rows, u)
      BY <1>3, <1>8, <1>11, <3>1, <3>4, JoinExact
    <3> QED BY <3>3, <3>5
  <2>2. CASE mem.tail[s] \notin Cell
    <3>1. mem.tail[s] = -1 /\ told[s] = Nothing
      BY <1>1, <2>2, Told
    <3>2. mem' = m
      BY <1>5, <1>8, <3>1
    <3>3. \A x \in SeqId : u[x] = v[x]
      BY <1>7, <1>10, <3>1
    <3>4. Exact(m, rows, u)
      BY <1>8, <3>3, ToldAlike
    <3> QED BY <3>2, <3>4
  <2> QED BY <2>1, <2>2
<1>13. \A x \in SeqId : Short(u[x])
  BY <1>10 DEF RowInv
<1>14. PICK f : f = NoDraft
  OBVIOUS
<1>15. f \in [SeqId -> Nat] /\ Snapshots(mem', rows, u, f)
  BY <1>14, NoDraftIs, NoDraftSnapshots
<1>16. told' = u /\ fresh' = f /\ rows' = Kept(rows, mem', fresh')
  BY <1>5, <1>9, <1>14
<1> QED BY <1>1, <1>2, <1>12, <1>13, <1>15, <1>16, CallRows

(* All sequences but one are removed. *)
LEMMA KeepRows ==
    ASSUME RowInv, IInv', NEW s \in SeqId, Keep(s)
    PROVE  RowInv'
<1>1. phase = "idle" /\ UNCHANGED <<setting, batch, client>> /\ phase' = "idle"
  BY DEF Keep, May
<1>2. setting \in Settings /\ Sound(mem) /\ Exact(mem, rows, told) /\ Shaped(rows) /\ IInv
  BY <1>1 DEF RowInv, IInv
<1>3. \A x \in SeqId : x # s => mem.rs_idx[x] = 0
  BY DEF Keep, Settled
<1>4. PICK a : a = KeptAlone(mem, s)
  OBVIOUS
<1>5. mem' = MoveHead(a, Freed(mem, s))
  BY <1>4 DEF Keep, KeptAlone, Freed
<1>6. PICK q : q = MoveHead(a, Freed(mem, s))
  OBVIOUS
<1>7. q.cells = a.cells /\ q.tail = a.tail /\ q.rs_idx = mem.rs_idx
  <2>1. Sound(a) /\ a.rs_idx = mem.rs_idx
    BY <1>2, <1>4, KeepSound
  <2>2. Freed(mem, s) \in SUBSET Cell
    BY DEF Freed
  <2>3. q.rs_idx = a.rs_idx /\ q.cells = a.cells /\ q.tail = a.tail
    BY <1>6, <2>1, <2>2, MoveHeadSane DEF Sound
  <2> QED BY <2>1, <2>3
<1>8. PICK u : u = [x \in SeqId |-> IF x = s THEN told[x] ELSE Nothing]
  OBVIOUS
<1>9. \A x \in SeqId : u[x] = IF x = s THEN told[x] ELSE Nothing
  BY <1>8
<1>10. Exact(q, rows, u)
  BY <1>2, <1>3, <1>4, <1>7, <1>9, KeepExact
<1>11. \A x \in SeqId : Short(u[x])
  BY <1>2, <1>9, NothingShort DEF RowInv
<1>12. PICK f : f = NoDraft
  OBVIOUS
<1>13. f \in [SeqId -> Nat] /\ Snapshots(q, rows, u, f)
  BY <1>12, NoDraftIs, NoDraftSnapshots
<1>14. mem' = q /\ told' = u /\ fresh' = f /\ rows' = Kept(rows, mem', fresh')
  BY <1>5, <1>6, <1>8, <1>12 DEF Keep
<1> QED BY <1>1, <1>2, <1>10, <1>11, <1>13, <1>14, CallRows

(* A sequence that has its cell alone gets a smaller position. *)
LEMMA EditRows ==
    ASSUME RowInv, LongEnough, IInv', NEW s \in SeqId, NEW p \in Nat, p <= PosOf(mem, s), Edit(s, p)
    PROVE  RowInv'
<1>1. phase = "idle" /\ UNCHANGED <<setting, batch, client>> /\ phase' = "idle"
  BY DEF Edit, May
<1>2. setting \in Settings /\ Sound(mem) /\ Exact(mem, rows, told) /\ Shaped(rows) /\ IInv
  BY <1>1 DEF RowInv, IInv
<1>3. /\ told[s].pos = PosOf(mem, s) /\ told[s].pos \in Int
      /\ told[s].toks \in Seq(Nat) /\ Len(told[s].toks) \in Nat
      /\ told[s].pos < Len(told[s].toks) /\ Len(told[s].toks) <= setting.len
      /\ mem.tail[s] \in Cell <=> mem.tail[s] >= 0
  BY <1>1, Told
<1>4. mem.tail[s] >= 0 /\ Alone(s)
  BY DEF Edit
<1>5. PICK c \in Cell : c = mem.tail[s]
  BY <1>3, <1>4
<1>6. mem.cells[c].seqs = {s}
  BY <1>4, <1>5 DEF Alone
<1>7. PICK q : q = Redated(mem, c, p)
  OBVIOUS
<1>8. /\ q.rs_idx = mem.rs_idx /\ q.tail = mem.tail
      /\ \A i \in Cell : /\ q.cells[i].seqs = mem.cells[i].seqs /\ q.cells[i].src = mem.cells[i].src
                        /\ q.cells[i].pos = IF i = c THEN p ELSE mem.cells[i].pos
  <2>1. mem.cells[c].seqs # {} /\ Sane(mem)
    BY <1>2, <1>6 DEF Sound
  <2> QED BY <1>7, <2>1, CellDated
<1>9. OnlyRedated(mem, q, s, c)
  BY <1>8 DEF OnlyRedated
<1>10. PICK o : o = [told[s] EXCEPT !.pos = p]
  OBVIOUS
<1>11. o.toks = told[s].toks /\ o.pos = p
  <2>1. PICK x, y : told[s] = [toks |-> x, pos |-> y]
    BY <1>2 DEF IInv, Followed, Reached
  <2> QED BY <1>10, <2>1
<1>12. PICK u : u = [told EXCEPT ![s] = o]
  OBVIOUS
<1>13. \A x \in SeqId : u[x] = IF x = s THEN o ELSE told[x]
  BY <1>2, <1>12, ToldFunction
<1>14. PICK d : d = mem.rs_idx[s]
  OBVIOUS
<1>15. q.cells[c].pos = u[s].pos /\ q.rs_idx[s] = d
  BY <1>8, <1>11, <1>13, <1>14
<1>16. rows[d][c] = u[s].toks
  <2>1. Continues(mem, rows, told, s)
    BY <1>2 DEF Exact, ExactBut
  <2>2. rows[d][c] = told[s].toks
    BY <1>5, <1>14, <2>1 DEF Continues
  <2> QED BY <1>11, <1>13, <2>2
<1>17. Exact(q, rows, u)
  <2>1. Sane(mem) /\ mem.tail[s] = c
    BY <1>2, <1>5 DEF Sound
  <2>2. \A x \in SeqId : x # s => u[x] = told[x]
    BY <1>13
  <2> QED BY <1>2, <1>6, <1>9, <1>15, <1>16, <2>1, <2>2, RedatedExact
<1>18. \A x \in SeqId : Short(u[x])
  <2>1. p < Len(told[s].toks)
    <3>1. PICK n \in Nat, k \in Int : n = Len(told[s].toks) /\ k = told[s].pos
      BY <1>3
    <3>2. p <= k /\ k < n
      BY <1>3, <3>1
    <3> QED BY <3>1, <3>2
  <2>2. Short(o)
    BY <1>3, <1>11, <2>1 DEF Short
  <2> QED BY <1>13, <2>2 DEF RowInv
<1>19. PICK f : f = NoDraft
  OBVIOUS
<1>20. f \in [SeqId -> Nat] /\ Snapshots(q, rows, u, f)
  BY <1>19, NoDraftIs, NoDraftSnapshots
<1>21. mem' = q /\ told' = u /\ fresh' = f /\ rows' = Kept(rows, mem', fresh')
  BY <1>5, <1>7, <1>10, <1>12, <1>19 DEF Edit, Redated
<1> QED BY <1>1, <1>2, <1>17, <1>18, <1>20, <1>21, CallRows

(* Its position is moved, *)
LEMMA SeqAddRows ==
    ASSUME RowInv, LongEnough, IInv', NEW s \in SeqId, SeqAdd(s)
    PROVE  RowInv'
<1>1. PICK p \in Int : p = PosOf(mem, s)
  BY PosOfType DEF RowInv
<1>2. p >= 1 /\ Edit(s, p - 1)
  BY <1>1 DEF SeqAdd
<1>3. PICK e \in Nat : e = p - 1 /\ e <= p
  BY <1>2
<1>4. Edit(s, e) /\ e <= PosOf(mem, s)
  BY <1>1, <1>2, <1>3
<1> QED BY <1>4, EditRows

(* or divided. *)
LEMMA SeqDivRows ==
    ASSUME RowInv, LongEnough, IInv', NEW s \in SeqId, SeqDiv(s)
    PROVE  RowInv'
<1>1. PICK p \in Int : p = PosOf(mem, s)
  BY PosOfType DEF RowInv
<1>2. p >= 2 /\ Edit(s, p \div 2)
  BY <1>1 DEF SeqDiv
<1>3. PICK e \in Nat : e = p \div 2 /\ e <= p
  BY <1>2
<1>4. Edit(s, e) /\ e <= PosOf(mem, s)
  BY <1>1, <1>2, <1>3
<1> QED BY <1>4, EditRows

(* The memory is cleared. *)
LEMMA ClearRows ==
    ASSUME RowInv, IInv', Clear
    PROVE  RowInv'
<1>1. UNCHANGED <<setting, batch, client>> /\ phase' = "idle"
  BY DEF Clear
<1>2. setting \in Settings /\ Sound(mem) /\ Shaped(rows) /\ mem \in Memory
  BY DEF RowInv, IInv, Sound, Sane
<1>3. PICK q : q = Emptied(mem)
  OBVIOUS
<1>4. PICK u : u = [x \in SeqId |-> Nothing]
  OBVIOUS
<1>5. \A x \in SeqId : u[x] = Nothing
  BY <1>4
<1>6. Exact(q, rows, u)
  BY <1>2, <1>3, <1>5, EmptyExact
<1>7. \A x \in SeqId : Short(u[x])
  BY <1>2, <1>5, NothingShort
<1>8. PICK f : f = NoDraft
  OBVIOUS
<1>9. f \in [SeqId -> Nat] /\ Snapshots(q, rows, u, f)
  BY <1>8, NoDraftIs, NoDraftSnapshots
<1>10. mem' = q /\ told' = u /\ fresh' = f /\ rows' = Kept(rows, mem', fresh')
  BY <1>3, <1>4, <1>8 DEF Clear, Emptied
<1> QED BY <1>1, <1>2, <1>6, <1>7, <1>9, <1>10, CallRows

(* The state a sequence will continue from is the one of its tokens. *)
LEMMA StateIs ==
    ASSUME RowInv, phase # "failed", NEW s \in SeqId, mem.tail[s] >= 0
    PROVE  State(s) = told[s].toks
<1>1. PICK c \in Cell : c = mem.tail[s]
  BY TailCell DEF RowInv, IInv, Sound
<1>2. Continues(mem, rows, told, s)
  BY DEF RowInv, Exact, ExactBut
<1>3. mem.cells[c].src = c /\ rows[mem.rs_idx[s]][c] = told[s].toks
  BY <1>1, <1>2 DEF Continues
<1>4. c >= 0
  BY CellsAndSequences
<1> QED BY <1>1, <1>3, <1>4 DEF State

(* A checkpoint is written. *)
LEMMA StateWriteRows ==
    ASSUME RowInv, LongEnough, IInv', NEW s \in SeqId, StateWrite(s)
    PROVE  RowInv'
<1>1. phase = "idle" /\ mem.tail[s] >= 0 /\ UNCHANGED <<setting, mem, rows, batch, phase, told, fresh>>
  BY DEF StateWrite, May
<1>2. PICK c : c = [pos |-> PosOf(mem, s), state |-> State(s), told |-> told[s]]
  OBVIOUS
<1>3. Faithful(c)
  <2>1. State(s) = told[s].toks
    BY <1>1, StateIs
  <2>2. told[s].pos = PosOf(mem, s)
    BY <1>1, Told
  <2>3. c.state = c.told.toks /\ c.pos = c.told.pos /\ c.told = told[s]
    BY <1>2, <2>1, <2>2
  <2> QED BY <2>3 DEF Faithful, RowInv
<1>4. \A e \in saved' : Faithful(e)
  <2>1. saved' = saved \cup {c}
    BY <1>2 DEF StateWrite
  <2> QED BY <1>3, <2>1 DEF RowInv
<1>5. UNCHANGED setting
  BY <1>1
<1> QED BY <1>1, <1>4, <1>5, RowsKept DEF RowInv

(* At first no sequence has a state. *)
LEMMA InitRows == Init => RowInv
<1> SUFFICES ASSUME Init PROVE RowInv
  OBVIOUS
<1>1. IInv /\ setting \in Settings
  BY InitSound DEF IInv
<1>2. Shaped(rows)
  <2>1. PICK r : r = rows
    OBVIOUS
  <2>2. r = [d \in 0 .. setting.rs |-> [i \in Cell |-> Junk]]
    BY <2>1 DEF Init
  <2>3. \A d \in 0 .. setting.rs, i \in Cell : r[d][i] = Junk
    BY <2>2
  <2>4. r = [d \in 0 .. setting.rs |-> [i \in Cell |-> r[d][i]]]
    BY <2>2, <2>3
  <2> QED BY <2>1, <2>4 DEF Shaped
<1>3. \A s \in SeqId : told[s] = Nothing
  BY DEF Init
<1>4. Exact(mem, rows, told)
  <2>1. PICK m \in Memory : m = mem /\ Emptied(m) = m
    BY InitEmpty
  <2>2. Exact(Emptied(m), rows, told)
    BY <1>1, <1>3, EmptyExact
  <2> QED BY <2>1, <2>2
<1>5. fresh \in [SeqId -> Nat] /\ \A s \in SeqId : fresh[s] = 0
  BY NoDraftIs DEF Init
<1>6. Snapshots(mem, rows, told, fresh)
  BY <1>5, NoDraftSnapshots
<1>7. \A s \in SeqId : Short(told[s])
  BY <1>1, <1>3, NothingShort
<1>8. phase = "idle" /\ saved = {}
  BY DEF Init
<1> QED BY <1>1, <1>2, <1>4, <1>5, <1>6, <1>7, <1>8 DEF RowInv

-----------------------------------------------------------------------------
(* Decoding.                                                                *)

(* The larger of a number less one and nothing. *)
LEMMA LessOne ==
    ASSUME NEW x \in Nat
    PROVE  Max({x - 1, 0}) = IF x = 0 THEN 0 ELSE x - 1
<1> DEFINE S == {x - 1, 0}
<1>1. PICK y \in S : \A z \in S : y >= z
  <2>1. CASE x = 0
    <3>1. 0 \in S /\ \A z \in S : 0 >= z
      BY <2>1
    <3> QED BY <3>1
  <2>2. CASE x # 0
    <3>1. x - 1 \in S /\ \A z \in S : x - 1 >= z
      BY <2>2
    <3> QED BY <3>1
  <2> QED BY <2>1, <2>2
<1>2. Max(S) \in S /\ \A z \in S : Max(S) >= z
  BY <1>1 DEF Max
<1>3. PICK m : m = Max(S)
  OBVIOUS
<1>4. (m = x - 1 \/ m = 0) /\ m >= x - 1 /\ m >= 0
  BY <1>2, <1>3
<1> QED BY <1>3, <1>4

(* What a batch may be. *)
Taken(b, n) ==
    /\ n > 0 /\ n <= setting.ubs /\ DOMAIN b = 1 .. n /\ Len(b) = n
    /\ \A k \in 1 .. n : WellSets(b[k].sets) /\ b[k].n \in Nat /\ b[k].n > 0
    /\ \A k \in 1 .. n : \A j \in 1 .. Len(b[k].sets) : Coupled(b[k].sets[j])
    /\ \A s \in SeqId : Len(told[s].toks) + TokensIn(b, n, s) <= setting.len
    /\ Alike(b)

(* A batch of the client is one. *)
LEMMA BatchTaken ==
    ASSUME setting \in Settings, NEW b \in Batches
    PROVE  \E n \in Nat : Taken(b, n)
<1> DEFINE ub == [sets : {q \in UbSets : \A j \in DOMAIN q : Coupled(q[j])}, n : 1 .. setting.tok]
<1>1. b \in UNION {[1 .. k -> ub] : k \in 1 .. setting.ubs}
  BY DEF Batches
<1>2. setting.ubs \in Nat /\ setting.tok \in Nat
  BY MemoryAssumption
<1>3. PICK n \in 1 .. setting.ubs : b \in [1 .. n -> ub]
  BY <1>1
<1>4. n \in Nat /\ n > 0 /\ n <= setting.ubs
  BY <1>2
<1>5. ASSUME NEW u \in ub
      PROVE  /\ WellSets(u.sets) /\ u.n \in Nat /\ u.n > 0
             /\ \A j \in 1 .. Len(u.sets) : Coupled(u.sets[j])
  <2>1. u.sets \in UbSets /\ u.n \in 1 .. setting.tok /\ \A j \in DOMAIN u.sets : Coupled(u.sets[j])
    OBVIOUS
  <2>2. WellSets(u.sets)
    BY <2>1, UbSetsAreWell
  <2> QED BY <1>2, <2>1, <2>2, SetsType
<1>6. (\A s \in SeqId : Len(told[s].toks) + Tokens(b, s) <= setting.len) /\ Alike(b)
  BY DEF Batches
<1> HIDE DEF ub
<1>7. DOMAIN b = 1 .. n /\ (\A k \in 1 .. n : b[k] \in ub) /\ Len(b) = n
  BY <1>3, <1>4
<1>8. \A s \in SeqId : Len(told[s].toks) + TokensIn(b, n, s) <= setting.len
  BY <1>6, <1>7 DEF Tokens
<1>9. \A k \in 1 .. n : WellSets(b[k].sets) /\ b[k].n \in Nat /\ b[k].n > 0
  BY <1>5, <1>7
<1>10. \A k \in 1 .. n : \A j \in 1 .. Len(b[k].sets) : Coupled(b[k].sets[j])
  BY <1>5, <1>7
<1> QED BY <1>4, <1>6, <1>7, <1>8, <1>9, <1>10 DEF Taken

(* Its micro batches, with the positions that follow those reached. *)
Following(b, p, n) ==
    /\ Len(p) = n /\ DOMAIN p = 1 .. n
    /\ \A k \in 1 .. n : p[k].sets = b[k].sets /\ p[k].n = b[k].n
    /\ \A k \in 1 .. n : \A j \in 1 .. Len(b[k].sets) :
         p[k].last[j] = told[Main(b[k].sets[j])].pos + TokensIn(b, k, Main(b[k].sets[j]))

(* So they are. *)
LEMMA PositionsAre ==
    ASSUME NEW b, NEW n \in Nat, Taken(b, n)
    PROVE  Following(b, Positions(b), n)
<1> DEFINE at(k) == [sets |-> b[k].sets, n |-> b[k].n,
                     last |-> [j \in DOMAIN b[k].sets |-> Position(b, k, b[k].sets[j])]]
<1>1. PICK p : p = Positions(b)
  OBVIOUS
<1>2. DOMAIN b = 1 .. n /\ \A k \in 1 .. n : WellSets(b[k].sets)
  BY DEF Taken
<1>3. p = [k \in 1 .. n |-> at(k)]
  BY <1>1, <1>2 DEF Positions
<1>4. ASSUME NEW k \in 1 .. n
      PROVE  /\ at(k).sets = b[k].sets /\ at(k).n = b[k].n
             /\ \A j \in 1 .. Len(b[k].sets) :
                  at(k).last[j] = told[Main(b[k].sets[j])].pos + TokensIn(b, k, Main(b[k].sets[j]))
  <2>1. DOMAIN b[k].sets = 1 .. Len(b[k].sets)
    BY <1>2, SetsType
  <2> QED BY <2>1 DEF Position
<1> HIDE DEF at
<1>5. Len(p) = n /\ DOMAIN p = 1 .. n
  BY <1>3
<1>6. \A k \in 1 .. n : p[k] = at(k)
  BY <1>3
<1> QED BY <1>1, <1>4, <1>5, <1>6 DEF Following

(* The batch p of n micro batches, of well formed ones.                     *)
Formed(p, n) ==
    /\ Len(p) = n /\ DOMAIN p = 1 .. n
    /\ \A k \in 1 .. n : WellSets(p[k].sets) /\ p[k].n \in Nat /\ p[k].n > 0

(* The draft of a batch. *)
DraftOf(p) == [s \in SeqId |-> LET x == Tokens(TakenBack(p), s) IN Max({x - 1, 0})]

(* The tokens that may be taken back are counted. *)
LEMMA DraftType ==
    ASSUME NEW p, NEW n \in Nat, n > 0, Formed(p, n)
    PROVE  DraftOf(p) \in [SeqId -> Nat]
<1>1. ASSUME NEW s \in SeqId PROVE Max({Tokens(TakenBack(p), s) - 1, 0}) \in Nat
  <2>1. PICK q : q = TakenBack(p)
    OBVIOUS
  <2>2. PICK l \in Nat : l = Len(q) /\ \A k \in 1 .. l : q[k].n \in Nat
    <3>1. CASE "last" \in setting.calls
      <4>1. q = <<p[n]>>
        BY <2>1, <3>1 DEF TakenBack, Last, Formed
      <4>2. Len(q) = 1 /\ q[1] = p[n] /\ n \in 1 .. n
        BY <4>1
      <4>3. p[n].n \in Nat
        BY <4>2 DEF Formed
      <4>4. \A k \in 1 .. 1 : q[k].n \in Nat
        BY <4>2, <4>3
      <4> QED BY <4>2, <4>4
    <3>2. CASE ~ ("last" \in setting.calls)
      <4>1. q = p
        BY <2>1, <3>2 DEF TakenBack
      <4> QED BY <4>1 DEF Formed
    <3> QED BY <3>1, <3>2
  <2>3. TokensIn(q, l, s) \in Nat
    BY <2>2, TokensInType
  <2>4. PICK x \in Nat : x = Tokens(q, s)
    BY <2>2, <2>3 DEF Tokens
  <2>5. Max({x - 1, 0}) \in Nat
    BY LessOne
  <2> QED BY <2>1, <2>4, <2>5
<1> QED BY <1>1 DEF DraftOf

(* A draft of which nothing is in another micro batch than the last.        *)
LEMMA DraftLast ==
    ASSUME NEW p, NEW n \in Nat, n > 0, Formed(p, n), "last" \in setting.calls \/ n = 1,
           NEW s \in SeqId, DraftOf(p)[s] > 0
    PROVE  s \in UNION Range(p[n].sets) /\ DraftOf(p)[s] < p[n].n
<1>1. PICK o \in Nat : o = p[n].n /\ o > 0
  BY DEF Formed
<1>2. Tokens(TakenBack(p), s) = OwnTokens(p[n], s)
  <2>1. CASE "last" \in setting.calls
    <3>1. PICK q : q = <<p[n]>>
      OBVIOUS
    <3>2. TakenBack(p) = q
      BY <2>1, <3>1 DEF TakenBack, Last, Formed
    <3>3. Len(q) = 1 /\ q[1] = p[n]
      BY <3>1
    <3>4. q[1].n \in Nat
      BY <1>1, <3>3
    <3>5. TokensIn(q, 1, s) = OwnTokens(q[1], s)
      BY <3>4, TokensOfOne
    <3> QED BY <3>2, <3>3, <3>5 DEF Tokens
  <2>2. CASE ~ ("last" \in setting.calls)
    <3>1. TakenBack(p) = p /\ n = 1 /\ Len(p) = 1
      BY <2>2 DEF TakenBack, Formed
    <3>2. p[1].n \in Nat
      BY <1>1, <3>1
    <3>3. TokensIn(p, 1, s) = OwnTokens(p[1], s)
      BY <3>2, TokensOfOne
    <3> QED BY <3>1, <3>3 DEF Tokens
  <2> QED BY <2>1, <2>2
<1>3. PICK x \in Nat : x = OwnTokens(p[n], s)
  BY <1>1 DEF OwnTokens
<1>4. DraftOf(p)[s] = Max({x - 1, 0})
  BY <1>2, <1>3 DEF DraftOf
<1>5. DraftOf(p)[s] = IF x = 0 THEN 0 ELSE x - 1
  BY <1>4, LessOne
<1>6. x # 0
  BY <1>5
<1>7. s \in UNION Range(p[n].sets) /\ x = o
  BY <1>1, <1>3, <1>6 DEF OwnTokens
<1> QED BY <1>1, <1>5, <1>6, <1>7

(* The micro batches of a batch go on from what the client has told.        *)
LEMMA BatchFits ==
    ASSUME RowInv, LongEnough, OneDraft, phase # "failed", NEW b, NEW n \in Nat, Taken(b, n),
           NEW p, Following(b, p, n)
    PROVE  Formed(p, n) /\ Fitting(mem, told, DraftOf(p), p)
<1>1. n > 0 /\ n <= setting.ubs /\ n \in 1 .. n
  BY DEF Taken
<1>2. Formed(p, n)
  <2>1. Len(p) = n /\ DOMAIN p = 1 .. n
    BY DEF Following
  <2>2. \A k \in 1 .. n : p[k].sets = b[k].sets /\ p[k].n = b[k].n
    BY DEF Following
  <2>3. \A k \in 1 .. n : WellSets(b[k].sets) /\ b[k].n \in Nat /\ b[k].n > 0
    BY DEF Taken
  <2>4. \A k \in 1 .. n : WellSets(p[k].sets) /\ p[k].n \in Nat /\ p[k].n > 0
    BY <2>2, <2>3
  <2> QED BY <2>1, <2>4 DEF Formed
<1>3. ASSUME NEW k \in 1 .. n
      PROVE  p[k].sets = b[k].sets /\ p[k].n = b[k].n /\ p[k].n > 0
             /\ WellSets(b[k].sets) /\ b[k].n \in Nat
  BY DEF Following, Taken
<1>4. ASSUME NEW s, NEW k \in 0 .. n PROVE TokensIn(p, k, s) = TokensIn(b, k, s)
  <2>1. \A i \in 1 .. k : OwnTokens(p[i], s) = OwnTokens(b[i], s)
    BY <1>3 DEF OwnTokens
  <2>2. k \in Nat
    OBVIOUS
  <2> QED BY <2>1, <2>2, TokensCongruent
<1>5. ASSUME NEW k \in 1 .. n PROVE p[k].n > 0 /\ Coupling(mem, told, p[k].sets)
  <2>1. \A j \in 1 .. Len(b[k].sets) : Coupled(b[k].sets[j])
    BY DEF Taken
  <2>2. ASSUME NEW j \in 1 .. Len(b[k].sets), NEW x \in b[k].sets[j], NEW y \in b[k].sets[j], x # y
        PROVE  told[x] = told[y] /\ mem.rs_idx[x] = 0
    BY <2>1, <2>2 DEF Coupled, Settled
  <2>3. Coupling(mem, told, b[k].sets)
    BY <2>2 DEF Coupling
  <2> QED BY <1>3, <2>3
<1>6. Alike(p)
  <2>1. Alike(b) /\ DOMAIN b = 1 .. n
    BY DEF Taken
  <2>2. DOMAIN p = 1 .. n
    BY DEF Following
  <2> SUFFICES ASSUME NEW k \in 1 .. n, NEW j \in 1 .. k - 1,
                      NEW ids \in Range(p[k].sets), NEW r \in Range(p[j].sets)
               PROVE  r \cap ids = {} \/ ids \subseteq r
    BY <2>2 DEF Alike
  <2>3. j \in 1 .. n
    OBVIOUS
  <2>4. ids \in Range(b[k].sets) /\ r \in Range(b[j].sets)
    BY <1>3, <2>3
  <2> QED BY <2>1, <2>4 DEF Alike
<1>7. ASSUME NEW k \in 1 .. n, NEW j \in 1 .. Len(p[k].sets)
      PROVE  p[k].last[j] < Len(told[Main(p[k].sets[j])].toks) + TokensIn(p, k, Main(p[k].sets[j]))
  <2>1. j \in 1 .. Len(b[k].sets)
    BY <1>3
  <2>2. PICK s \in SeqId : s = Main(b[k].sets[j])
    BY <1>3, <2>1, SetsType
  <2>3. p[k].last[j] = told[s].pos + TokensIn(b, k, s)
    BY <2>1, <2>2 DEF Following
  <2>4. told[s].pos \in Int /\ Len(told[s].toks) \in Nat /\ told[s].pos < Len(told[s].toks)
    BY Told
  <2>5. k \in 0 .. n /\ k \in Nat /\ \A i \in 1 .. k : b[i].n \in Nat
    BY <1>3
  <2>6. PICK x \in Nat : x = TokensIn(b, k, s) /\ x = TokensIn(p, k, s)
    BY <1>4, <2>5, TokensInType
  <2>7. Main(p[k].sets[j]) = s
    BY <1>3, <2>2
  <2> QED BY <2>3, <2>4, <2>6, <2>7
<1>8. \A s \in SeqId : Len(told[s].toks) + TokensIn(p, n, s) <= setting.len
  BY <1>1, <1>4 DEF Taken
<1>9. ASSUME "back" \in setting.calls, setting.rs > 0, NEW s \in SeqId, DraftOf(p)[s] > 0
      PROVE  s \in UNION Range(p[n].sets) /\ DraftOf(p)[s] < p[n].n
  <2>1. setting \in Settings
    BY DEF RowInv, IInv
  <2>2. {setting.rs, setting.ubs} \subseteq Nat
    BY <2>1, MemoryAssumption
  <2>3. setting.rs = 0 \/ "last" \in setting.calls \/ setting.ubs <= 1
    BY <1>9, <2>1 DEF OneDraft
  <2>4. "last" \in setting.calls \/ n = 1
    BY <1>1, <1>9, <2>2, <2>3
  <2> QED BY <1>1, <1>2, <1>9, <2>4, DraftLast
<1>10. Len(p) = n
  BY DEF Following
<1> HIDE DEF DraftOf
<1>11. Fitting(mem, told, DraftOf(p), p)
  <2>1. \A k \in 1 .. n : p[k].n > 0 /\ Coupling(mem, told, p[k].sets)
    BY <1>5
  <2>2. \A k \in 1 .. n : \A j \in 1 .. Len(p[k].sets) :
          p[k].last[j] < Len(told[Main(p[k].sets[j])].toks) + TokensIn(p, k, Main(p[k].sets[j]))
    BY <1>7
  <2>3. "back" \in setting.calls /\ setting.rs > 0 =>
         \A s \in SeqId : DraftOf(p)[s] > 0 => s \in UNION Range(p[n].sets) /\ DraftOf(p)[s] < p[n].n
    BY <1>9
  <2> QED BY <1>6, <1>8, <1>10, <2>1, <2>2, <2>3 DEF Fitting
<1> QED BY <1>2, <1>11

(* A batch is accepted.                                                     *)
LEMMA DecodeRows ==
    ASSUME RowInv, LongEnough, OneDraft, IInv', NEW b0 \in Batches, Decode(b0)
    PROVE  RowInv'
<1>1. setting \in Settings /\ Sound(mem) /\ Shaped(rows) /\ IInv
  BY DEF RowInv, IInv
<1>2. phase = "idle" /\ phase # "failed"
  BY DEF Decode
<1>3. PICK n \in Nat : Taken(b0, n)
  BY <1>1, BatchTaken
<1>4. PICK p : p = Positions(b0)
  OBVIOUS
<1>5. Following(b0, p, n) /\ n > 0
  BY <1>3, <1>4, PositionsAre DEF Taken
<1>6. Formed(p, n) /\ Fitting(mem, told, DraftOf(p), p)
  BY <1>2, <1>3, <1>5, BatchFits
<1>7. PICK f : f = DraftOf(p)
  OBVIOUS
<1>8. f \in [SeqId -> Nat]
  BY <1>5, <1>6, <1>7, DraftType
<1>9. Tried(mem, p).ok
  <2>1. Queued(p) /\ p # << >> /\ Len(p) \in Nat /\ \A k \in 1 .. Len(p) : WellUbatch(p[k])
    BY <1>1, <1>4, PositionsAreWell
  <2>2. Sane(mem)
    BY <1>1 DEF Sound
  <2> QED BY <2>1, <2>2, TriedOk
<1>10. /\ batch' = p /\ phase' = "decode" /\ fresh' = f
       /\ rows' = Kept(rows, mem, f)
       /\ UNCHANGED <<setting, mem, client, told>>
  BY <1>4, <1>7, <1>9 DEF Decode, DraftOf
<1>11. Shaped(rows') /\ Exact(mem', rows', told')
  <2>1. Exact(mem, rows, told)
    BY <1>2 DEF RowInv
  <2>2. Shaped(Kept(rows, mem, f)) /\ Exact(mem, Kept(rows, mem, f), told)
    BY <1>1, <2>1, KeptRow, KeptExact
  <2> QED BY <1>10, <2>2
<1>12. Fitting(mem', told', fresh', batch')
  BY <1>6, <1>7, <1>10
<1>13. (\A s \in SeqId : Short(told'[s])) /\ \A c \in saved' : Faithful(c)
  BY <1>10 DEF RowInv, client
<1>14. UNCHANGED setting /\ fresh' \in [SeqId -> Nat] /\ phase' # "idle"
  BY <1>8, <1>10
<1> QED BY <1>11, <1>12, <1>13, <1>14, RowsKept

-----------------------------------------------------------------------------
(* Processing a micro batch.                                                *)

(* The batch b is one micro batch and the n of e.                           *)
Rest(b, e, n) ==
    /\ Len(b) = n + 1 /\ DOMAIN b = 1 .. n + 1
    /\ Len(e) = n /\ DOMAIN e = 1 .. n
    /\ \A k \in 1 .. n : e[k] = b[k + 1]
    /\ \A k \in 1 .. n + 1 : WellUbatch(b[k]) /\ b[k].n \in Nat

(* So is every batch. *)
LEMMA RestIs ==
    ASSUME NEW b, Queued(b), b # << >>
    PROVE  Head(b) = b[1] /\ \E n \in Nat : Rest(b, Tail(b), n)
<1>1. PICK S : b \in Seq(S) /\ \A ub \in S : WellUbatch(ub) /\ ub.n \in Nat
  BY DEF Queued
<1>2. PICK l \in Nat : l = Len(b)
  BY <1>1
<1>3. l > 0 /\ DOMAIN b = 1 .. l /\ \A k \in 1 .. l : b[k] \in S
  BY <1>1, <1>2
<1>4. PICK n \in Nat : l = n + 1
  <2>1. l - 1 \in Nat /\ l = l - 1 + 1
    BY <1>3
  <2> QED BY <2>1
<1>5. Tail(b) \in Seq(S) /\ Len(Tail(b)) = n /\ \A k \in 1 .. n : Tail(b)[k] = b[k + 1]
  <2>1. /\ Tail(b) \in Seq(S) /\ Len(Tail(b)) = Len(b) - 1
        /\ \A k \in 1 .. Len(Tail(b)) : Tail(b)[k] = b[k + 1]
    BY <1>1, HeadTailProperties
  <2>2. Len(b) - 1 = n
    BY <1>2, <1>4
  <2> QED BY <2>1, <2>2
<1>6. DOMAIN Tail(b) = 1 .. n
  BY <1>5
<1>7. \A k \in 1 .. n + 1 : WellUbatch(b[k]) /\ b[k].n \in Nat
  BY <1>1, <1>3, <1>4
<1>8. Head(b) = b[1]
  BY <1>1
<1> QED BY <1>2, <1>3, <1>4, <1>5, <1>6, <1>7, <1>8 DEF Rest

(* A sequence grows by the tokens it has in the micro batch.                *)
LEMMA AdvancedLength ==
    ASSUME NEW ub, WellUbatch(ub), ub.n \in Nat, NEW t, NEW u, Advanced(t, u, ub),
           NEW s \in SeqId, t[s].toks \in Seq(Nat)
    PROVE  /\ u[s].toks \in Seq(Nat) /\ Len(t[s].toks) \in Nat /\ OwnTokens(ub, s) \in Nat
           /\ Len(u[s].toks) = Len(t[s].toks) + OwnTokens(ub, s)
<1>1. WellSets(ub.sets)
  BY DEF WellUbatch
<1>2. CASE s \in UNION Range(ub.sets)
  <2>1. PICK k \in 1 .. Len(ub.sets) : s \in ub.sets[k]
    BY <1>1, <1>2, JoinedIs
  <2>2. PICK y \in Nat : y = Main(ub.sets[k])
    BY <1>1, SetsType, CellsAndSequences
  <2>3. u[s].toks = t[s].toks \o Same(ub.n, y)
    BY <2>1, <2>2 DEF Advanced
  <2>4. PICK w \in Seq(Nat), n \in Nat : w = t[s].toks /\ n = ub.n
    OBVIOUS
  <2>5. w \o Same(n, y) \in Seq(Nat) /\ Len(w \o Same(n, y)) = Len(w) + n
    BY PutBehind
  <2>6. OwnTokens(ub, s) = n
    BY <1>2, <2>4 DEF OwnTokens
  <2> QED BY <2>3, <2>4, <2>5, <2>6
<1>3. CASE s \notin UNION Range(ub.sets)
  <2>1. u[s] = t[s]
    BY <1>3 DEF Advanced
  <2>2. OwnTokens(ub, s) = 0
    BY <1>3 DEF OwnTokens
  <2>3. PICK l \in Nat : l = Len(t[s].toks)
    OBVIOUS
  <2> QED BY <2>1, <2>2, <2>3
<1> QED BY <1>2, <1>3

(* It does not grow beyond its bound, and its position not beyond it.       *)
LEMMA AdvancedShort ==
    ASSUME setting \in Settings, NEW m, NEW t, \A s \in SeqId : Short(t[s]), NEW f, NEW b, NEW e, NEW n \in Nat,
           Rest(b, e, n), Fitting(m, t, f, b), NEW u, Advanced(t, u, b[1]), NEW s \in SeqId
    PROVE  Short(u[s])
<1>1. PICK ub : ub = b[1]
  OBVIOUS
<1>2. WellUbatch(ub) /\ ub.n \in Nat /\ WellSets(ub.sets)
  <2>1. 1 \in 1 .. n + 1
    OBVIOUS
  <2> QED BY <1>1, <2>1 DEF Rest, WellUbatch
<1>3. t[s].toks \in Seq(Nat) /\ t[s].pos < Len(t[s].toks)
  BY DEF Short
<1>4. /\ u[s].toks \in Seq(Nat) /\ Len(t[s].toks) \in Nat /\ OwnTokens(ub, s) \in Nat
      /\ Len(u[s].toks) = Len(t[s].toks) + OwnTokens(ub, s)
  BY <1>1, <1>2, <1>3, AdvancedLength
<1>5. Len(u[s].toks) <= setting.len
  <2>1. Len(t[s].toks) + TokensIn(b, n + 1, s) <= setting.len
    BY DEF Fitting, Rest
  <2>2. /\ TokensIn(b, n + 1, s) = OwnTokens(b[1], s) + TokensIn(e, n, s)
        /\ TokensIn(e, n, s) \in Nat
    <3>1. (\A k \in 1 .. n : e[k] = b[k + 1]) /\ \A k \in 1 .. n + 1 : b[k].n \in Nat
      BY DEF Rest
    <3> QED BY <3>1, TokensShift
  <2>3. setting.len \in Nat
    BY MemoryAssumption
  <2>4. PICK l \in Nat, o \in Nat, r \in Nat : l = Len(t[s].toks) /\ o = OwnTokens(ub, s) /\ r = TokensIn(e, n, s)
    BY <1>4, <2>2
  <2>5. PICK g \in Nat : g = setting.len
    BY <2>3
  <2>6. l + (o + r) <= g
    BY <1>1, <2>1, <2>2, <2>4, <2>5
  <2>7. l + o <= g
    BY <2>6
  <2> QED BY <1>4, <2>4, <2>5, <2>7
<1>6. u[s].pos < Len(u[s].toks)
  <2>1. CASE s \notin UNION Range(ub.sets)
    <3>1. u[s] = t[s]
      BY <1>1, <2>1 DEF Advanced
    <3> QED BY <1>3, <3>1
  <2>2. CASE s \in UNION Range(ub.sets)
    <3>1. PICK k \in 1 .. Len(ub.sets) : s \in ub.sets[k]
      BY <1>2, <2>2, JoinedIs
    <3>2. u[s].pos = ub.last[k]
      BY <1>1, <3>1 DEF Advanced
    <3>3. PICK y \in SeqId : y = Main(ub.sets[k]) /\ y \in ub.sets[k]
      BY <1>2, SetsType
    <3>4. ub.last[k] < Len(t[y].toks) + TokensIn(b, 1, y)
      <4>1. 1 \in 1 .. Len(b)
        BY DEF Rest
      <4> QED BY <1>1, <3>3, <4>1 DEF Fitting
    <3>5. TokensIn(b, 1, y) = OwnTokens(ub, y)
      BY <1>1, <1>2, TokensOfOne
    <3>6. OwnTokens(ub, y) = ub.n /\ OwnTokens(ub, s) = ub.n
      <4>1. y \in UNION Range(ub.sets)
        BY <1>2, <3>3, JoinedIs
      <4> QED BY <2>2, <4>1 DEF OwnTokens
    <3>7. t[y] = t[s]
      <4>1. Coupling(m, t, ub.sets)
        <5>1. 1 \in 1 .. Len(b)
          BY DEF Rest
        <5> QED BY <1>1, <5>1 DEF Fitting
      <4> QED BY <3>1, <3>3, <4>1 DEF Coupling
    <3> QED BY <1>4, <3>2, <3>4, <3>5, <3>6, <3>7
  <2> QED BY <2>1, <2>2
<1> QED BY <1>4, <1>5, <1>6 DEF Short

(* A set of sequences that are told the same advances alike.                *)
LEMMA AdvancedAlike ==
    ASSUME NEW ub, WellUbatch(ub), NEW t, NEW u, Advanced(t, u, ub), Followed(u),
           NEW ids \in SUBSET SeqId, \A r \in Range(ub.sets) : r \cap ids = {} \/ ids \subseteq r,
           NEW x \in ids, NEW y \in ids, t[x] = t[y]
    PROVE  u[x] = u[y]
<1>1. WellSets(ub.sets)
  BY DEF WellUbatch
<1>2. Range(ub.sets) = {ub.sets[k] : k \in 1 .. Len(ub.sets)}
  BY <1>1, SetsType DEF Range
<1>3. \A k \in 1 .. Len(ub.sets) : x \in ub.sets[k] <=> y \in ub.sets[k]
  BY <1>2
<1>4. CASE x \in UNION Range(ub.sets)
  <2>1. PICK k \in 1 .. Len(ub.sets) : x \in ub.sets[k] /\ y \in ub.sets[k]
    BY <1>1, <1>3, <1>4, JoinedIs
  <2>2. /\ u[x].toks = t[x].toks \o Same(ub.n, Main(ub.sets[k])) /\ u[x].pos = ub.last[k]
        /\ u[y].toks = t[y].toks \o Same(ub.n, Main(ub.sets[k])) /\ u[y].pos = ub.last[k]
    BY <2>1 DEF Advanced
  <2>3. u[x] = [toks |-> u[x].toks, pos |-> u[x].pos] /\ u[y] = [toks |-> u[y].toks, pos |-> u[y].pos]
    BY Reaches DEF Followed
  <2> QED BY <2>2, <2>3
<1>5. CASE x \notin UNION Range(ub.sets)
  <2>1. y \notin UNION Range(ub.sets)
    BY <1>1, <1>3, <1>5, JoinedIs
  <2> QED BY <1>5, <2>1 DEF Advanced
<1> QED BY <1>4, <1>5

(* The rest of a batch goes on from where the micro batch has come to.      *)
LEMMA RestFits ==
    ASSUME NEW m, NEW t, \A s \in SeqId : Short(t[s]), NEW f, NEW b, NEW e, NEW n \in Nat, n > 0,
           Rest(b, e, n), Fitting(m, t, f, b), NEW u, Advanced(t, u, b[1]), Followed(u),
           NEW c, \A s \in SeqId : c.rs_idx[s] \in {0, m.rs_idx[s]}
    PROVE  Fitting(c, u, f, e)
<1>1. PICK ub : ub = b[1]
  OBVIOUS
<1>2. 1 \in 1 .. n + 1 /\ n \in 1 .. n /\ n + 1 \in 1 .. n + 1
  OBVIOUS
<1>3. WellUbatch(ub) /\ ub.n \in Nat
  BY <1>1, <1>2 DEF Rest
<1>4. ASSUME NEW k \in 1 .. n
      PROVE  /\ k + 1 \in 1 .. n + 1 /\ e[k] = b[k + 1] /\ b[k + 1].n \in Nat
             /\ WellSets(e[k].sets)
  <2>1. k + 1 \in 1 .. n + 1
    OBVIOUS
  <2>2. WellUbatch(b[k + 1]) /\ b[k + 1].n \in Nat /\ e[k] = b[k + 1]
    BY <2>1 DEF Rest
  <2> QED BY <2>1, <2>2 DEF WellUbatch
<1>5. Alike(b) /\ DOMAIN b = 1 .. n + 1 /\ DOMAIN e = 1 .. n
  BY DEF Fitting, Rest
<1>6. Alike(e)
  <2> SUFFICES ASSUME NEW k \in 1 .. n, NEW j \in 1 .. k - 1,
                      NEW ids \in Range(e[k].sets), NEW r \in Range(e[j].sets)
               PROVE  r \cap ids = {} \/ ids \subseteq r
    BY <1>5 DEF Alike
  <2>1. k + 1 \in DOMAIN b /\ j + 1 \in 1 .. k + 1 - 1 /\ j \in 1 .. n
    BY <1>5
  <2>2. e[k] = b[k + 1] /\ e[j] = b[j + 1]
    BY <1>4, <2>1
  <2> QED BY <1>5, <2>1, <2>2 DEF Alike
<1>7. ASSUME NEW k \in 1 .. n PROVE e[k].n > 0 /\ Coupling(c, u, e[k].sets)
  <2>1. b[k + 1].n > 0 /\ Coupling(m, t, b[k + 1].sets)
    <3>1. k + 1 \in 1 .. Len(b)
      BY <1>4 DEF Rest
    <3> QED BY <3>1 DEF Fitting
  <2>2. Coupling(m, t, e[k].sets) /\ e[k].n > 0
    BY <1>4, <2>1
  <2>3. ASSUME NEW j \in 1 .. Len(e[k].sets), NEW x \in e[k].sets[j], NEW y \in e[k].sets[j], x # y
        PROVE  u[x] = u[y] /\ c.rs_idx[x] = 0
    <3>1. t[x] = t[y] /\ m.rs_idx[x] = 0
      BY <2>2, <2>3 DEF Coupling
    <3>2. PICK ids \in SUBSET SeqId : ids = e[k].sets[j]
      BY <1>4, SetsType
    <3>3. ids \in Range(b[k + 1].sets)
      <4>1. j \in DOMAIN e[k].sets
        BY <1>4, SetsType
      <4> QED BY <1>4, <3>2, <4>1 DEF Range
    <3>4. \A r \in Range(ub.sets) : r \cap ids = {} \/ ids \subseteq r
      <4>1. k + 1 \in DOMAIN b /\ 1 \in 1 .. k + 1 - 1
        BY <1>5
      <4> QED BY <1>1, <1>5, <3>3, <4>1 DEF Alike
    <3>5. u[x] = u[y]
      <4>1. Advanced(t, u, ub) /\ x \in ids /\ y \in ids /\ t[x] = t[y]
        BY <1>1, <3>1, <3>2
      <4> QED BY <1>3, <3>4, <4>1, AdvancedAlike
    <3>6. x \in SeqId
      BY <3>2
    <3> QED BY <3>1, <3>5, <3>6
  <2> QED BY <2>2, <2>3 DEF Coupling
<1>8. ASSUME NEW s \in SeqId
      PROVE  /\ u[s].toks \in Seq(Nat) /\ Len(t[s].toks) \in Nat /\ OwnTokens(ub, s) \in Nat
             /\ Len(u[s].toks) = Len(t[s].toks) + OwnTokens(ub, s)
  <2>1. t[s].toks \in Seq(Nat)
    BY DEF Short
  <2> QED BY <1>1, <1>3, <2>1, AdvancedLength
<1>9. ASSUME NEW s \in SeqId, NEW k \in 1 .. n
      PROVE  Len(t[s].toks) + TokensIn(b, k + 1, s) = Len(u[s].toks) + TokensIn(e, k, s)
  <2>1. (\A i \in 1 .. k : e[i] = b[i + 1]) /\ (\A i \in 1 .. k + 1 : b[i].n \in Nat) /\ k \in Nat
    BY DEF Rest
  <2>2. /\ TokensIn(b, k + 1, s) = OwnTokens(b[1], s) + TokensIn(e, k, s)
        /\ TokensIn(e, k, s) \in Nat
    BY <2>1, TokensShift
  <2>3. PICK l \in Nat, o \in Nat, r \in Nat : l = Len(t[s].toks) /\ o = OwnTokens(ub, s) /\ r = TokensIn(e, k, s)
    BY <1>8, <2>2
  <2>4. TokensIn(b, k + 1, s) = o + r /\ Len(u[s].toks) = l + o
    BY <1>1, <1>8, <2>2, <2>3
  <2> QED BY <2>3, <2>4
<1>10. ASSUME NEW k \in 1 .. n, NEW j \in 1 .. Len(e[k].sets)
       PROVE  e[k].last[j] < Len(u[Main(e[k].sets[j])].toks) + TokensIn(e, k, Main(e[k].sets[j]))
  <2>1. PICK s \in SeqId : s = Main(e[k].sets[j])
    BY <1>4, SetsType
  <2>2. e[k] = b[k + 1] /\ k + 1 \in 1 .. Len(b)
    BY <1>4 DEF Rest
  <2>3. b[k + 1].last[j] < Len(t[Main(b[k + 1].sets[j])].toks) + TokensIn(b, k + 1, Main(b[k + 1].sets[j]))
    BY <2>2 DEF Fitting
  <2>4. e[k].last[j] < Len(t[s].toks) + TokensIn(b, k + 1, s)
    BY <2>1, <2>2, <2>3
  <2>5. Len(t[s].toks) + TokensIn(b, k + 1, s) = Len(u[s].toks) + TokensIn(e, k, s)
    BY <1>9
  <2> QED BY <2>1, <2>4, <2>5
<1>11. ASSUME NEW s \in SeqId PROVE Len(u[s].toks) + TokensIn(e, n, s) <= setting.len
  <2>1. Len(t[s].toks) + TokensIn(b, n + 1, s) <= setting.len
    BY DEF Fitting, Rest
  <2>2. Len(t[s].toks) + TokensIn(b, n + 1, s) = Len(u[s].toks) + TokensIn(e, n, s)
    BY <1>2, <1>9
  <2> QED BY <2>1, <2>2
<1>12. Len(e) = n /\ e[n] = b[Len(b)]
  BY <1>2 DEF Rest
<1>13. "back" \in setting.calls /\ setting.rs > 0 =>
         \A s \in SeqId : f[s] > 0 => s \in UNION Range(e[n].sets) /\ f[s] < e[n].n
  BY <1>12 DEF Fitting
<1>14. \A k \in 1 .. n : e[k].n > 0 /\ Coupling(c, u, e[k].sets)
  BY <1>7
<1>15. \A k \in 1 .. n : \A j \in 1 .. Len(e[k].sets) :
         e[k].last[j] < Len(u[Main(e[k].sets[j])].toks) + TokensIn(e, k, Main(e[k].sets[j]))
  BY <1>10
<1> QED BY <1>6, <1>11, <1>12, <1>13, <1>14, <1>15 DEF Fitting

(* The first micro batch of the batch is computed. *)
LEMMA UbatchRuns ==
    ASSUME setting \in Settings, Sound(mem), Shaped(rows), Exact(mem, rows, told),
           NEW f, NEW e, NEW n \in Nat, Rest(batch, e, n), Fitting(mem, told, f, batch),
           NEW ub, ub = batch[1], NEW q, q = FindSlot(mem, ub).m
    PROVE  \E b, lo, hi, v :
             Ran(mem, rows, told, ub, q, b, lo, hi, v, Graph(q, ub), Consumed(q), Advance(ub))
<1>1. 1 \in 1 .. n + 1 /\ 1 \in 1 .. Len(batch)
  BY DEF Rest
<1>2. WellUbatch(ub) /\ ub.n \in Nat
  BY <1>1 DEF Rest
<1>3. ub.n > 0 /\ Coupling(mem, told, ub.sets)
  BY <1>1 DEF Fitting
<1>4. PICK b, lo, hi, v : Slotted(mem, rows, told, ub, q, b, lo, hi, v)
  <2>1. ExactBut(mem, rows, told, Joined(ub.sets))
    BY ExactForSome
  <2> QED BY <1>2, <1>3, <2>1, SlotExact
<1>5. Sound(q) /\ lo \in Cell /\ hi \in Cell /\ Drew(b, q, ub, lo, hi)
  BY <1>4 DEF Slotted
<1>6. q.head = lo /\ q.n = hi - lo + 1 /\ hi - lo + 1 >= Len(ub.sets)
  BY <1>5 DEF Drew
<1>7. Computed(rows, q, ub, lo, hi, Graph(q, ub))
  BY <1>2, <1>3, <1>5, <1>6, GraphIs
<1>8. Ended(Consumed(q), q, lo, hi)
  BY <1>5, <1>6, ConsumedIs
<1>9. Advanced(told, Advance(ub), ub)
  BY <1>2, AdvanceIs
<1>10. Ran(mem, rows, told, ub, q, b, lo, hi, v, Graph(q, ub), Consumed(q), Advance(ub))
  BY <1>2, <1>3, <1>4, <1>7, <1>8, <1>9 DEF Ran
<1> QED BY <1>10

(* The draft of the last micro batch can be taken back.                     *)
LEMMA RanDraft ==
    ASSUME setting \in Settings, NEW m, NEW r, NEW t, NEW ub, NEW q, NEW b, NEW lo, NEW hi, NEW v,
           NEW g, NEW c, NEW u, Ran(m, r, t, ub, q, b, lo, hi, v, g, c, u),
           \A s \in SeqId : t[s].toks \in Seq(Nat), NEW f \in [SeqId -> Nat],
           setting.rs > 0 =>
             \A s \in SeqId : f[s] > 0 => s \in UNION Range(ub.sets) /\ f[s] < ub.n
    PROVE  Snapshots(c, g, u, f)
<1> SUFFICES ASSUME NEW s \in SeqId, c.tail[s] \in Cell, NEW d \in 1 .. f[s], d <= setting.rs
             PROVE  g[d][c.tail[s]] = SubSeq(u[s].toks, 1, Len(u[s].toks) - d)
  BY DEF Snapshots
<1>1. setting.rs \in Nat /\ f[s] \in Nat /\ ub.n \in Nat
  BY MemoryAssumption DEF Ran
<1>2. setting.rs > 0 /\ f[s] > 0 /\ d \in 0 .. setting.rs
  BY <1>1
<1>3. s \in UNION Range(ub.sets) /\ f[s] < ub.n
  BY <1>2
<1>4. d < ub.n
  BY <1>1, <1>3
<1> QED BY <1>2, <1>3, <1>4, RanSnapshots

(* A micro batch is processed. *)
LEMMA ProcessUbatchRows ==
    ASSUME RowInv, IInv', ProcessUbatch
    PROVE  RowInv'
<1>1. phase = "decode" /\ phase # "failed"
  BY DEF ProcessUbatch
<1>2. /\ setting \in Settings /\ Sound(mem) /\ Shaped(rows) /\ Exact(mem, rows, told)
      /\ Queued(batch) /\ batch # << >> /\ Fitting(mem, told, fresh, batch)
      /\ fresh \in [SeqId -> Nat]
  BY <1>1 DEF RowInv, IInv
<1>3. PICK ub : ub = Head(batch)
  OBVIOUS
<1>4. PICK e : e = Tail(batch)
  OBVIOUS
<1>5. PICK n \in Nat : Rest(batch, e, n) /\ ub = batch[1]
  BY <1>2, <1>3, <1>4, RestIs
<1>6. PICK q : q = FindSlot(mem, ub).m
  OBVIOUS
<1>7. PICK g, c, u : g = Graph(q, ub) /\ c = Consumed(q) /\ u = Advance(ub)
  OBVIOUS
<1>8. PICK b, lo, hi, v : Ran(mem, rows, told, ub, q, b, lo, hi, v, g, c, u)
  BY <1>2, <1>5, <1>6, <1>7, UbatchRuns
<1>9. /\ mem' = c /\ rows' = Kept(g, c, fresh) /\ told' = u /\ batch' = e
      /\ phase' = (IF Len(batch) = 1 THEN "idle" ELSE "decode")
      /\ UNCHANGED <<setting, client, fresh>>
  BY <1>3, <1>4, <1>6, <1>7 DEF ProcessUbatch
<1>10. /\ Sound(c) /\ Shaped(g) /\ Advanced(told, u, ub)
       /\ \A s \in SeqId : c.rs_idx[s] \in {0, mem.rs_idx[s]}
  <2>1. Sound(c) /\ \A s \in SeqId : c.rs_idx[s] \in {0, q.rs_idx[s]}
    BY <1>8 DEF Ran, Ended
  <2>2. q.rs_idx = mem.rs_idx
    BY <1>8 DEF Ran, Slotted
  <2>3. Shaped(g)
    BY <1>8 DEF Ran, Computed
  <2>4. Advanced(told, u, ub)
    BY <1>8 DEF Ran
  <2> QED BY <2>1, <2>2, <2>3, <2>4
<1>11. Exact(c, g, u)
  BY <1>2, <1>8, RanExact
<1>12. Shaped(rows') /\ Exact(mem', rows', told')
  BY <1>2, <1>9, <1>10, <1>11, KeptRow, KeptExact
<1>13. \A s \in SeqId : Short(told[s])
  BY DEF RowInv
<1>14. \A s \in SeqId : Short(told'[s])
  BY <1>2, <1>5, <1>9, <1>10, <1>13, AdvancedShort
<1>15. ASSUME phase' = "idle", "back" \in setting.calls PROVE Snapshots(mem', rows', told', fresh')
  <2>1. Len(batch) = 1
    BY <1>9, <1>15
  <2>2. setting.rs > 0 =>
          \A s \in SeqId : fresh[s] > 0 => s \in UNION Range(ub.sets) /\ fresh[s] < ub.n
    BY <1>2, <1>5, <1>15, <2>1 DEF Fitting
  <2>3. \A s \in SeqId : told[s].toks \in Seq(Nat)
    BY <1>13 DEF Short
  <2>4. Snapshots(c, g, u, fresh)
    BY <1>2, <1>8, <2>2, <2>3, RanDraft
  <2>5. Snapshots(c, Kept(g, c, fresh), u, fresh)
    BY <1>2, <1>10, <2>4, KeptSnapshots
  <2> QED BY <1>9, <2>5
<1>16. ASSUME phase' = "decode" PROVE Fitting(mem', told', fresh', batch')
  <2>1. n > 0
    <3>1. Len(batch) # 1 /\ Len(batch) = n + 1
      BY <1>5, <1>9, <1>16 DEF Rest
    <3> QED BY <3>1
  <2>2. Followed(u)
    <3>1. WellUbatch(ub)
      BY <1>8 DEF Ran
    <3> QED BY <1>7, <3>1, AdvanceFollowed DEF RowInv, IInv
  <2>3. Fitting(c, u, fresh, e)
    BY <1>2, <1>5, <1>10, <1>13, <2>1, <2>2, RestFits
  <2> QED BY <1>9, <2>3
<1>17. UNCHANGED setting /\ fresh' \in [SeqId -> Nat] /\ \A x \in saved' : Faithful(x)
  BY <1>2, <1>9 DEF RowInv, client
<1> QED BY <1>12, <1>14, <1>15, <1>16, <1>17, RowsKept

(* A micro batch fails. *)
LEMMA ProcessUbatchFailsRows ==
    ASSUME RowInv, IInv', ProcessUbatchFails
    PROVE  RowInv'
<1>1. setting \in Settings
  BY DEF RowInv, IInv
<1>2. PICK q : q = FindSlot(mem, Head(batch)).m
  OBVIOUS
<1>3. PICK r : r = [d \in DOMAIN rows |-> [i \in Cell |->
                      IF i \in InRange(q) THEN Junk ELSE rows[d][i]]]
  OBVIOUS
<1>4. /\ rows' = Kept(r, mem', fresh') /\ told' = [s \in SeqId |-> Nothing]
      /\ phase' = "failed" /\ fresh' = NoDraft /\ UNCHANGED <<setting, client>>
  BY <1>2, <1>3 DEF ProcessUbatchFails
<1>5. Shaped(r)
  <2>1. DOMAIN rows = 0 .. setting.rs
    <3>1. Shaped(rows)
      BY DEF RowInv
    <3> QED BY <3>1 DEF Shaped
  <2>2. DOMAIN r = 0 .. setting.rs /\ r = [d \in DOMAIN r |-> r[d]]
    BY <1>3, <2>1
  <2>3. \A d \in 0 .. setting.rs : r[d] = [i \in Cell |-> r[d][i]]
    BY <1>3, <2>1
  <2>4. r = [d \in 0 .. setting.rs |-> [i \in Cell |-> r[d][i]]]
    BY <2>2, <2>3
  <2> QED BY <2>4 DEF Shaped
<1>6. Shaped(rows')
  BY <1>4, <1>5, KeptRow
<1>7. \A s \in SeqId : Short(told'[s])
  BY <1>1, <1>4, NothingShort
<1>8. fresh' \in [SeqId -> Nat] /\ \A x \in saved' : Faithful(x)
  BY <1>4, NoDraftIs DEF RowInv, client
<1>9. phase' # "idle" /\ phase' # "decode" /\ UNCHANGED setting
  BY <1>4
<1> QED BY <1>4, <1>6, <1>7, <1>8, <1>9, RowsKept

-----------------------------------------------------------------------------
(* Checkpoints, and all together.                                           *)

(* The sequence is removed, and takes a slot.                               *)
LEMMA SlotTaken ==
    ASSUME RowInv, LongEnough, phase # "failed", NEW s \in SeqId, NEW p \in Nat,
           NEW m, m = SeqRm(mem, s, 0, Inf).m, NEW f, f = FindSlot(m, SlotOf(s, p)).m
    PROVE  /\ Sound(m) /\ Sound(f)
           /\ Exact(m, rows, [told EXCEPT ![s] = Nothing])
<1>1. setting \in Settings /\ Sound(mem) /\ Exact(mem, rows, told) /\ IInv
  BY DEF RowInv, IInv
<1>2. PosOf(mem, s) < Inf
  BY Told
<1>3. Sound(m)
  BY <1>1, <1>2, RemoveIs
<1>4. PICK u : u = [told EXCEPT ![s] = Nothing]
  OBVIOUS
<1>5. \A x \in SeqId : u[x] = IF x = s THEN Nothing ELSE told[x]
  BY <1>1, <1>4, ToldFunction
<1>6. Exact(m, rows, u)
  <2>1. ExactBut(mem, rows, told, {s})
    BY <1>1, ExactForSome
  <2> QED BY <1>1, <1>2, <1>5, <2>1, RemoveExact
<1>7. Sound(f)
  <2>1. PICK ub : ub = SlotOf(s, p)
    OBVIOUS
  <2>2. WellUbatch(ub)
    BY <2>1, SlotIs
  <2> QED BY <1>3, <2>1, <2>2, FindSlotSound
<1> QED BY <1>3, <1>4, <1>6, <1>7

(* Forgetting what was staged, and dropping the rollback, leaves the rest.  *)
LEMMA ForgetBeside ==
    ASSUME setting \in Settings, NEW f, Sound(f), NEW s \in SeqId, NEW g, g = Forget(f),
           NEW q, q = Dropped(g, s)
    PROVE  /\ Sound(g) /\ Beside(g, f, s)
           /\ Sound(q) /\ Beside(q, f, s) /\ q.rs_idx[s] = 0
<1>1. /\ Sound(g) /\ g.rs_idx = f.rs_idx /\ g.tail = f.tail
      /\ \A i \in Cell : SameCell(g.cells[i], f.cells[i])
  BY ForgetSound
<1>2. /\ Sound(q) /\ q.cells = g.cells /\ q.tail = g.tail
      /\ \A x \in SeqId : q.rs_idx[x] = IF x = s THEN 0 ELSE g.rs_idx[x]
  BY <1>1, IndexDropped
<1>3. Beside(g, f, s)
  BY <1>1 DEF Beside
<1>4. Beside(q, f, s)
  BY <1>1, <1>2 DEF Beside
<1> QED BY <1>1, <1>2, <1>3, <1>4

(* The restored sequence goes on, and so do the others.                     *)
LEMMA ReadExact ==
    ASSUME NEW q, NEW o, NEW t, NEW s \in SeqId, ExactBut(q, o, t, {s}),
           NEW u, \A x \in SeqId : x # s => u[x] = t[x],
           NEW h, Resumes(q, o, u, s, h, 0)
    PROVE  Exact(q, o, u)
<1>1. ASSUME NEW x \in SeqId PROVE Continues(q, o, u, x)
  <2>1. CASE x = s
    BY <2>1, ContinuesIn
  <2>2. CASE x # s
    <3>1. Continues(q, o, t, x) /\ u[x] = t[x]
      BY <2>2 DEF ExactBut
    <3> QED BY <3>1 DEF Continues
  <2> QED BY <2>1, <2>2
<1>2. \A i \in Cell : Blank(q, i) => o[0][i] = << >>
  BY DEF ExactBut
<1> QED BY <1>1, <1>2 DEF Exact, ExactBut

(* A checkpoint is restored, or its data do not arrive. *)
LEMMA StateReadRows ==
    ASSUME RowInv, LongEnough, IInv', NEW s \in SeqId, NEW c \in saved, NEW arrives \in BOOLEAN,
           StateRead(s, c, arrives)
    PROVE  RowInv'
<1>1. phase = "idle" /\ phase # "failed" /\ phase' = "idle" /\ UNCHANGED <<setting, batch, client>>
  BY DEF StateRead
<1>2. setting \in Settings /\ Shaped(rows) /\ IInv
  BY DEF RowInv, IInv
<1>3. Faithful(c) /\ c.pos \in Nat
  BY <1>2 DEF RowInv, IInv, Checkpointed
<1>4. c.pos < Inf
  <2>1. c.pos = c.told.pos /\ c.told.pos < Len(c.told.toks) /\ Len(c.told.toks) <= setting.len
        /\ c.told.toks \in Seq(Nat)
    BY <1>3 DEF Faithful, Short
  <2>2. setting.len \in Nat /\ setting.len <= Inf /\ Inf \in Nat
    BY <1>2, MemoryAssumption DEF LongEnough, Inf
  <2>3. PICK p \in Nat, l \in Nat, n \in Nat, o \in Nat :
          p = c.pos /\ l = Len(c.told.toks) /\ n = setting.len /\ o = Inf
    BY <1>3, <2>1, <2>2
  <2>4. p < l /\ l <= n /\ n <= o
    BY <2>1, <2>2, <2>3
  <2> QED BY <2>3, <2>4
<1>5. PICK p \in Nat : p = c.pos
  BY <1>3
<1>6. PICK m : m = SeqRm(mem, s, 0, Inf).m
  OBVIOUS
<1>7. PICK f : f = FindSlot(m, SlotOf(s, p)).m
  OBVIOUS
<1>8. PICK g : g = Forget(f)
  OBVIOUS
<1>9. PICK d : d = Dropped(g, s)
  OBVIOUS
<1>10. PICK t : t = [told EXCEPT ![s] = Nothing]
  OBVIOUS
<1>11. Sound(m) /\ Sound(f) /\ Exact(m, rows, t)
  BY <1>1, <1>6, <1>7, <1>10, SlotTaken
<1>12. Sound(g) /\ Beside(g, f, s) /\ Beside(d, f, s) /\ d.rs_idx[s] = 0
  BY <1>2, <1>8, <1>9, <1>11, ForgetBeside
<1>13. PICK x : x = IF arrives THEN c.state ELSE Junk
  OBVIOUS
<1>14. PICK o : o = RowSet(rows, f.head, x)
  OBVIOUS
<1>15. PICK u : u = [told EXCEPT ![s] = IF arrives THEN c.told ELSE Nothing]
  OBVIOUS
<1>16. /\ mem' = IF arrives THEN d ELSE SeqRm(g, s, 0, Inf).m
       /\ told' = u /\ fresh' = NoDraft /\ rows' = Kept(o, mem', fresh')
  BY <1>5, <1>6, <1>7, <1>8, <1>9, <1>13, <1>14, <1>15 DEF StateRead, SlotOf, Dropped, RowSet
<1>17. \A y \in SeqId : /\ u[y] = IF y = s THEN IF arrives THEN c.told ELSE Nothing ELSE told[y]
                        /\ t[y] = IF y = s THEN Nothing ELSE told[y]
  BY <1>2, <1>10, <1>15, ToldFunction
<1>18. PICK h : h = f.head
  OBVIOUS
<1>19. ASSUME NEW q, Beside(q, f, s)
       PROVE  /\ h \in Cell /\ Shaped(o) /\ o[0][h] = x
              /\ q.tail[s] = h /\ q.cells[h].pos = p /\ q.cells[h].src = h
              /\ ExactBut(q, o, t, {s})
  <2>1. PICK ub : ub = SlotOf(s, p)
    OBVIOUS
  <2>2. f = FindSlot(m, ub).m
    BY <1>7, <2>1
  <2>3. setting \in Settings /\ Shaped(rows) /\ Sound(m) /\ Exact(m, rows, t) /\ Beside(q, f, s)
    BY <1>2, <1>11, <1>19
  <2>4. Restored(q, o, t, s, f.head, p, x)
    BY ONLY <1>14, <2>1, <2>2, <2>3, RestoredBut
  <2> QED BY <1>18, <2>4 DEF Restored
<1>20. Exact(mem', o, u)
  <2>1. CASE arrives
    <3>1. u[s] = c.told /\ x = c.state /\ mem' = d /\ \A y \in SeqId : y # s => u[y] = t[y]
      BY <1>13, <1>16, <1>17, <2>1
    <3>2. p = u[s].pos /\ x = u[s].toks
      BY <1>3, <1>5, <3>1 DEF Faithful
    <3>3. /\ h \in Cell /\ o[0][h] = x
          /\ d.tail[s] = h /\ d.cells[h].pos = p /\ d.cells[h].src = h
          /\ ExactBut(d, o, t, {s})
      BY <1>12, <1>19
    <3>4. Resumes(d, o, u, s, h, 0)
      BY <1>12, <3>2, <3>3 DEF Resumes
    <3> QED BY <3>1, <3>3, <3>4, ReadExact
  <2>2. CASE ~arrives
    <3>1. mem' = SeqRm(g, s, 0, Inf).m /\ \A y \in SeqId : u[y] = IF y = s THEN Nothing ELSE t[y]
      BY <1>16, <1>17, <2>2
    <3>2. /\ h \in Cell
          /\ g.tail[s] = h /\ g.cells[h].pos = p
          /\ ExactBut(g, o, t, {s})
      BY <1>12, <1>19
    <3>3. PosOf(g, s) < Inf
      <4>1. ~ (h < 0)
        BY <3>2, CellsAndSequences
      <4>2. PosOf(g, s) = p
        BY <3>2, <4>1 DEF PosOf
      <4> QED BY <1>4, <1>5, <4>2
    <3> QED BY <1>2, <1>12, <3>1, <3>2, <3>3, RemoveExact
  <2> QED BY <2>1, <2>2
<1>21. Shaped(o)
  BY <1>12, <1>19
<1>22. \A y \in SeqId : Short(u[y])
  <2>1. Short(c.told) /\ Short(Nothing) /\ \A y \in SeqId : Short(told[y])
    BY <1>2, <1>3, NothingShort DEF Faithful, RowInv
  <2> QED BY <1>17, <2>1
<1>23. fresh' \in [SeqId -> Nat] /\ \A y \in SeqId : fresh'[y] = 0
  BY <1>16, NoDraftIs
<1>24. Snapshots(mem', o, u, fresh')
  BY <1>23, NoDraftSnapshots
<1> QED BY <1>1, <1>16, <1>20, <1>21, <1>22, <1>23, <1>24, CallRows

(* Every step keeps the invariant. *)
LEMMA NextRows ==
    ASSUME RowInv, OneDraft, LongEnough, [Next]_vars
    PROVE  RowInv'
<1>1. Known \subseteq SeqId /\ setting \in Settings /\ IInv
  BY DEF Known, RowInv, IInv
<1>2. IInv'
  BY <1>1, NextKeeps
<1>3. ASSUME NEW s \in Known, RemoveSeq(s) PROVE RowInv'
  BY <1>1, <1>2, <1>3, RemoveSeqRows
<1>4. ASSUME NEW s \in Known, SeqAdd(s) PROVE RowInv'
  BY <1>1, <1>2, <1>4, SeqAddRows
<1>5. ASSUME NEW s \in Known, SeqDiv(s) PROVE RowInv'
  BY <1>1, <1>2, <1>5, SeqDivRows
<1>6. ASSUME NEW s \in Known, StateWrite(s) PROVE RowInv'
  BY <1>1, <1>2, <1>6, StateWriteRows
<1>7. ASSUME NEW s \in Known, NEW d \in 1 .. setting.tok, Rollback(s, d) PROVE RowInv'
  <2>1. setting.tok \in Nat
    BY <1>1, MemoryAssumption
  <2>2. d \in Nat /\ d > 0
    BY <2>1
  <2> QED BY <1>1, <1>2, <1>7, <2>2, RollbackRows
<1>8. ASSUME NEW s \in SeqId, NEW t \in SeqId, Copy(s, t) PROVE RowInv'
  BY <1>2, <1>8, CopyRows
<1>9. ASSUME NEW s \in SeqId, Keep(s) PROVE RowInv'
  BY <1>2, <1>9, KeepRows
<1>10. ASSUME Clear PROVE RowInv'
  BY <1>2, <1>10, ClearRows
<1>11. ASSUME NEW b \in Batches, Decode(b) PROVE RowInv'
  BY <1>2, <1>11, DecodeRows
<1>12. ASSUME ProcessUbatch PROVE RowInv'
  BY <1>2, <1>12, ProcessUbatchRows
<1>13. ASSUME ProcessUbatchFails PROVE RowInv'
  BY <1>2, <1>13, ProcessUbatchFailsRows
<1>14. ASSUME NEW s \in SeqId, NEW c \in saved, NEW arrives \in BOOLEAN, StateRead(s, c, arrives)
       PROVE  RowInv'
  BY <1>2, <1>14, StateReadRows
<1>15. ASSUME UNCHANGED vars PROVE RowInv'
  <2>1. UNCHANGED <<setting, mem, rows, batch, phase, saved, told, fresh>>
    BY <1>15 DEF vars
  <2>2. /\ Shaped(rows) /\ fresh \in [SeqId -> Nat]
        /\ \A s \in SeqId : Short(told[s])
        /\ phase # "failed" => Exact(mem, rows, told)
        /\ phase = "idle" /\ "back" \in setting.calls => Snapshots(mem, rows, told, fresh)
        /\ phase = "decode" => Fitting(mem, told, fresh, batch)
        /\ \A c \in saved : Faithful(c)
    BY DEF RowInv
  <2> QED BY <1>2, <2>1, <2>2, RowsKept
<1> QED BY <1>3, <1>4, <1>5, <1>6, <1>7, <1>8, <1>9, <1>10, <1>11, <1>12, <1>13, <1>14, <1>15
        DEF Next

-----------------------------------------------------------------------------
(* The theorems.                                                            *)

(* The debug check of find_slot holds in every state of every run: a        *)
(* sequence is in the cell its tail names and in no other, and used counts  *)
(* the cells in use.                                                        *)
THEOREM Verified == Spec => []TailsVerified
<1>1. IInv => TailsVerified
  <2> SUFFICES ASSUME IInv PROVE TailsVerified
    OBVIOUS
  <2>1. ASSUME NEW s \in SeqId
        PROVE  {i \in Cell : s \in mem.cells[i].seqs} = IF mem.tail[s] < 0 THEN {} ELSE {mem.tail[s]}
    <3>1. \A i \in Cell : s \in mem.cells[i].seqs <=> mem.tail[s] = i
      BY SaneAgree DEF IInv, Sound, Held
    <3>2. PICK t \in Cell \cup {-1} : t = mem.tail[s]
      BY TailCell DEF IInv, Sound
    <3>3. t < 0 <=> t \notin Cell
      BY CellsAndSequences
    <3>4. \A i \in Cell : s \in mem.cells[i].seqs <=> t = i
      BY <3>1, <3>2
    <3>5. {i \in Cell : s \in mem.cells[i].seqs} = IF t < 0 THEN {} ELSE {t}
      BY <3>3, <3>4
    <3> QED BY <3>2, <3>5
  <2>2. mem.used = InUse(mem.cells)
    BY DEF IInv, Sound, Sane
  <2> QED BY <2>1, <2>2 DEF TailsVerified
<1> QED BY Invariant, <1>1, PTL

(* find_slot never fails an assertion, and what prepare has tried can be    *)
(* applied, after every sequence of removals, copies, rollbacks, edits,     *)
(* failed micro batches and restored checkpoints.                           *)
THEOREM Unbroken == Spec => []NeverBroken
<1>1. IInv => NeverBroken
  BY DEF IInv, NeverBroken
<1> QED BY Invariant, <1>1, PTL

(* A pending rollback never exceeds the rows that were kept, and a cell     *)
(* continues from its own state or from the zeroed row: the indices the     *)
(* graph is given for the copy of the states stay within the tensors.       *)
RowsExist ==
    /\ \A s \in SeqId : mem.rs_idx[s] \in 0 .. setting.rs
    /\ \A i \in Cell : mem.cells[i].src \in {-1, i}

(* So it is in every state of every run. *)
THEOREM RowsAlwaysExist == Spec => []RowsExist
<1>1. IInv => RowsExist
  <2> SUFFICES ASSUME IInv PROVE RowsExist
    OBVIOUS
  <2>1. \A s \in SeqId : mem.rs_idx[s] \in Nat /\ mem.rs_idx[s] <= setting.rs
    BY DEF IInv, Sound, Sane, Memory
  <2>2. setting.rs \in Nat
    BY MemoryAssumption DEF IInv
  <2>3. \A s \in SeqId : mem.rs_idx[s] \in 0 .. setting.rs
    BY <2>1, <2>2
  <2>4. \A i \in Cell : mem.cells[i].src \in {-1, i}
    BY DEF IInv, Sound, Sane, OwnSources
  <2> QED BY <2>3, <2>4 DEF RowsExist
<1> QED BY Invariant, <1>1, PTL

(* Whatever was swapped, shared, split, rolled back, saved and restored: a  *)
(* sequence continues from the state of exactly the tokens the client has   *)
(* put into it, at the position the client has reached, as long as a draft  *)
(* that may be taken back is all in the last micro batch of its batch.      *)
THEOREM StatesExact ==
    ASSUME OneDraft, LongEnough
    PROVE  Spec => []StateExact
<1>1. RowInv /\ [Next]_vars => RowInv'
  BY NextRows
<1>2. RowInv => StateExact
  <2> SUFFICES ASSUME RowInv, phase = "idle", NEW s \in SeqId
               PROVE  /\ told[s].pos = PosOf(mem, s)
                      /\ mem.tail[s] >= 0 => State(s) = told[s].toks
    BY DEF StateExact
  <2>1. phase # "failed"
    OBVIOUS
  <2> QED BY <2>1, Told, StateIs
<1> QED BY InitRows, <1>1, <1>2, PTL DEF Spec
=============================================================================
