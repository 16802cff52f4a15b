-------------------------- MODULE RecurrentMemory --------------------------
(***************************************************************************)
(* The memory of recurrent models (src/llama-memory-recurrent.cpp): one    *)
(* cell holds the state of a whole sequence, a cell may be shared by       *)
(* sequences until one of them is decoded, the cells of a micro batch are  *)
(* gathered into a contiguous range by swapping their metadata, and the    *)
(* compute graph copies the states afterwards.  For the partial rollback   *)
(* of speculative decoding a cell has 1 + n_rs_seq rows: row 0 is its      *)
(* state, row d the state d tokens before.                                 *)
(*                                                                         *)
(* A state is abstracted to the sequence of the tokens it has consumed,    *)
(* and a token to the sequence that decoded it.                            *)
(***************************************************************************)
EXTENDS Integers, Sequences, FiniteSets, FiniteSetsExt, SequencesExt

CONSTANTS
  NSeq,      \* n_seq_max, which is also the number of cells
  MaxSaves,  \* bound: checkpoints written
  Settings   \* [rs: n_rs_seq, and the bounds ubs: micro batches per batch, tok:
             \*  tokens per micro batch, len: length of a sequence; calls: what
             \*  the client does]

Calls == {"rm", "back", "last", "cp", "keep", "edit", "clear", "save", "couple", "mix", "fail"}

ASSUME MemoryAssumption ==
  /\ NSeq \in Nat \ {0} /\ MaxSaves \in Nat
  /\ \A g \in Settings : {g.rs, g.ubs, g.tok, g.len} \subseteq Nat /\ g.calls \subseteq Calls

Cell == 0 .. NSeq - 1
SeqId == 0 .. NSeq - 1
Inf == 2147483647   \* std::numeric_limits<llama_pos>::max()

VARIABLES
  setting,
  mem,       \* the metadata: [cells, tail, head, used, n, rs_z, rs_idx]
  rows,      \* the tensors: rows[d][i] is row d of cell i
  batch,     \* micro batches still to process
  phase,     \* "idle", "decode" or "failed"
  saved,     \* checkpoints: [pos, state, told]
  saves,     \* how many were written
  told,      \* what the client put into each sequence: [toks, pos]
  fresh,     \* how many tokens of the last batch, a draft, the client may take back
  broken     \* a GGML_ASSERT of find_slot failed, or apply could not place

vars == <<setting, mem, rows, batch, phase, saved, saves, told, fresh, broken>>
client == <<saved, saves>>

Free == [pos |-> -1, src |-> -1, src0 |-> -1, seqs |-> {}]
Nothing == [toks |-> << >>, pos |-> -1]
NoDraft == [s \in SeqId |-> 0]
Junk == <<NSeq>>             \* a state nothing defined ever produces

\* A row that holds no state any more is forgotten: whatever it still holds, reading
\* it would be an error.  Row 0 is in use while a cell refers to it, row d while a
\* rollback by d is pending or possible.
Kept(r, m, draft) == [d \in DOMAIN r |-> [i \in Cell |->
  IF \/ d = 0 /\ m.cells[i].src = i
     \/ d > 0 /\ \E s \in m.cells[i].seqs : m.rs_idx[s] = d \/ draft[s] >= d
  THEN r[d][i] ELSE Junk]]

IsEmpty(cell) == cell.seqs = {}
InUse(cells) == Cardinality({i \in Cell : ~IsEmpty(cells[i])})

\* Takes every sequence of S out of the cells; a cell left by all is freed.
Leave(m, S) ==
  LET gone == {i \in Cell : ~IsEmpty(m.cells[i]) /\ m.cells[i].seqs \subseteq S}
  IN [m EXCEPT !.cells = [i \in Cell |->
                 IF i \in gone THEN [@[i] EXCEPT !.pos = -1, !.src = -1, !.seqs = {}]
                 ELSE [@[i] EXCEPT !.seqs = m.cells[i].seqs \ S]],
               !.tail = [s \in SeqId |-> IF s \in S THEN -1 ELSE @[s]],
               !.used = @ - Cardinality(gone)]

\* If a cell was freed, head moves back to it.
MoveHead(m, freed) ==
  IF freed = {} THEN m ELSE [m EXCEPT !.head = Min({@, Min(freed)})]

(***************************************************************************)
(* find_slot                                                               *)
(***************************************************************************)
Main(ids) == Min(ids)   \* seq_id[i][0]

\* A bug: the cell is taken without looking whether it is empty.
NextEmptyBlind(cells, h) == h

\* The cell i is reached as, counting on past the end of the cache.
Wrap(i) == IF i >= NSeq THEN i - NSeq ELSE i

\* The first empty cell from h on, around the cache; h itself when all are full.
NextEmpty(cells, h) ==
  LET ks == {k \in 0 .. NSeq - 1 : IsEmpty(cells[Wrap(h + k)])}
  IN IF ks = {} THEN h ELSE Wrap(h + Min(ks))

\* Gives the sequence set ids a cell of its own: its tail if it alone has it,
\* else the next empty cell, which takes over position and source of the tail.
Place(p, ids) ==
  LET s == Main(ids)
      t == p.m.tail[s]
      e == p.next
      owns == t >= 0 /\ p.m.cells[t].seqs = {s}
      split == [p.m.cells EXCEPT ![e].pos = p.m.cells[t].pos, ![e].src = p.m.cells[t].src,
                                 ![e].seqs = {s}, ![t].seqs = @ \ {s}]
      cells == IF t >= 0 THEN split ELSE p.m.cells
  IN IF owns THEN p
     ELSE [m |-> [p.m EXCEPT !.cells = cells, !.tail[s] = e],
           next |-> NextEmpty(cells, Wrap(e + 1)),
           ok |-> /\ p.ok /\ IsEmpty(p.m.cells[e])
                  /\ t >= 0 => s \in p.m.cells[t].seqs /\ ~IsEmpty(cells[t])]

\* Each sequence set of a micro batch in turn.
Placed(m, sets) ==
  LET placed[k \in 0 .. Len(sets)] ==
        IF k = 0 THEN [m |-> m, next |-> NextEmpty(m.cells, m.head), ok |-> TRUE]
        ELSE Place(placed[k - 1], sets[k])
  IN placed[Len(sets)]

\* A bug: the tails of the swapped cells stay where they were.
SwapCells(m, a, b) ==
  LET with(x, y) == [x EXCEPT !.pos = y.pos, !.src = y.src, !.seqs = y.seqs]
  IN [m EXCEPT !.cells[a] = with(m.cells[a], m.cells[b]), !.cells[b] = with(m.cells[b], m.cells[a])]

\* Swaps two cells with all their metadata; the tails follow.
Swap(m, a, b) ==
  LET with(x, y) == [x EXCEPT !.pos = y.pos, !.src = y.src, !.seqs = y.seqs]
      other(i) == IF i = a THEN b ELSE IF i = b THEN a ELSE i
  IN [m EXCEPT !.cells = [i \in Cell |-> with(@[i], @[other(i)])],
               !.tail = [s \in SeqId |-> other(@[s])]]

\* Brings the cell of the k-th sequence set to min + k - 1.
GatherOne(m, ids, i) == Swap(m, m.tail[Main(ids)], i)

Gather(m, sets, min) ==
  LET gathered[k \in 0 .. Len(sets)] ==
        IF k = 0 THEN m ELSE GatherOne(gathered[k - 1], sets[k], min + k - 1)
  IN gathered[Len(sets)]

Seat(m, ub, min) ==
  LET k(i) == i - min + 1
      moved == UNION Range(ub.sets)
  IN [m EXCEPT !.cells = [i \in Cell |->
                 IF k(i) \in DOMAIN ub.sets
                 THEN [@[i] EXCEPT !.pos = ub.last[k(i)], !.seqs = ub.sets[k(i)]]
                 ELSE @[i]],
               !.tail = [s \in SeqId |->
                 IF s \in moved THEN min - 1 + (CHOOSE j \in DOMAIN ub.sets : s \in ub.sets[j])
                 ELSE @[s]]]

\* Where each cell of the range takes its state from, a row that no cell refers
\* to being the zeroed one.
Source(m, min, max) ==
  LET referred == {m.cells[i].src : i \in Cell}
      free == {i \in min .. max : i \notin referred}
      z == IF free = {} THEN -1 ELSE Min(free)
  IN [m EXCEPT !.cells = [i \in Cell |->
                 IF i \notin min .. max THEN @[i]
                 ELSE [@[i] EXCEPT !.src0 = IF m.cells[i].src < 0 THEN z ELSE m.cells[i].src,
                                   !.src = i]],
               !.rs_z = z]

FindSlot(m0, ub) ==
  LET ns == Len(ub.sets)
      joined == UNION {ids \ {Main(ids)} : ids \in Range(ub.sets)}
      m1 == Leave([m0 EXCEPT !.head = IF @ > m0.used + 2 * ns THEN 0 ELSE @], joined)
      placed == Placed(m1, ub.sets)
      tails == {placed.m.tail[Main(ids)] : ids \in Range(ub.sets)}
      min == Min(tails)
      max == Max(tails)
      fits == max - min + 1 >= ns
      m2 == Seat(Gather(placed.m, ub.sets, min), ub, min)
      m3 == Source(m2, min, max)
  IN IF ~placed.ok \/ ~fits THEN [m |-> placed.m, ok |-> FALSE]
     ELSE [m |-> [m3 EXCEPT !.head = min, !.n = max - min + 1, !.used = InUse(m3.cells)],
           ok |-> m3.rs_z >= 0 \/ \A i \in min .. max : m2.cells[i].src >= 0]

(***************************************************************************)
(* What the client sees and may do                                         *)
(***************************************************************************)
PosOf(m, s) == IF m.tail[s] < 0 THEN -1 ELSE m.cells[m.tail[s]].pos
Known == {s \in SeqId : told[s] # Nothing}
Settled(s) == mem.rs_idx[s] = 0
Alone(s) == mem.tail[s] >= 0 => mem.cells[mem.tail[s]].seqs = {s}
May(call) == phase = "idle" /\ call \in setting.calls

\* seq_rm(s, p0, p1) with 0 <= p0; p1 = Inf stands for p1 < 0.
SeqRm(m0, s, p0, p1) ==
  LET m == IF p0 = 0 /\ p1 = Inf THEN [m0 EXCEPT !.rs_idx[s] = 0] ELSE m0
      pos == PosOf(m, s)
      back == pos - (p0 - 1)
      partial == m.tail[s] >= 0 /\ 0 < p0 /\ p0 <= pos /\ pos < p1
      hit == m.tail[s] >= 0 /\ p0 <= pos /\ pos < p1
      freed == {i \in Cell : m.cells[i].seqs = {s}}
  IN IF partial /\ m.rs_idx[s] = 0 /\ back <= setting.rs
       THEN [ok |-> TRUE, m |-> [m EXCEPT !.rs_idx[s] = back, !.cells[m.tail[s]].pos = p0 - 1]]
     ELSE IF partial THEN [ok |-> FALSE, m |-> m]
     ELSE [ok |-> TRUE, m |-> IF hit THEN MoveHead(Leave(m, {s}), freed) ELSE m]

RemoveSeq(s) ==
  /\ May("rm")
  /\ mem' = SeqRm(mem, s, 0, Inf).m
  /\ told' = [told EXCEPT ![s] = Nothing]
  /\ fresh' = [fresh EXCEPT ![s] = 0]
  /\ rows' = Kept(rows, mem', fresh')
  /\ UNCHANGED <<setting, batch, phase, client, broken>>

\* The client takes back d tokens of the draft it has just decoded, never the token at
\* position 0, and from a sequence that shares its cell with no other.
Rollback(s, d) ==
  /\ May("back") /\ d <= fresh[s] /\ d <= told[s].pos /\ Alone(s)
  /\ LET res == SeqRm(mem, s, told[s].pos - d + 1, Inf)
     IN /\ mem' = res.m
        /\ told' = IF res.ok THEN [told EXCEPT ![s] = [toks |-> SubSeq(@.toks, 1, Len(@.toks) - d),
                                                       pos |-> @.pos - d]]
                   ELSE told
  /\ fresh' = [fresh EXCEPT ![s] = 0]
  /\ rows' = Kept(rows, mem', fresh')
  /\ UNCHANGED <<setting, batch, phase, client, broken>>

\* seq_cp(s, t, -1, -1).  No client copies from or to a sequence whose rollback
\* is pending.
Copy(s, t) ==
  /\ May("cp") /\ s # t /\ Settled(s) /\ Settled(t) /\ {told[s], told[t]} # {Nothing}
  /\ LET m == IF mem.tail[t] >= 0 THEN Leave(mem, {t}) ELSE mem
         c == m.tail[s]
     IN mem' = IF c < 0 THEN m ELSE [m EXCEPT !.cells[c].seqs = @ \cup {t}, !.tail[t] = c]
  /\ told' = [told EXCEPT ![t] = told[s]]
  /\ fresh' = NoDraft
  /\ rows' = Kept(rows, mem', fresh')
  /\ UNCHANGED <<setting, batch, phase, client, broken>>

\* seq_keep(s).  It leaves rs_idx alone: no rollback of another is pending.
Keep(s) ==
  /\ May("keep") /\ Known # {} /\ \A t \in SeqId \ {s} : Settled(t)
  /\ LET freed == {i \in Cell : s \notin mem.cells[i].seqs}
         used == {i \in freed : mem.cells[i].pos >= 0}
     IN mem' = MoveHead([mem EXCEPT
          !.cells = [i \in Cell |->
            IF i \in freed THEN [@[i] EXCEPT !.pos = -1, !.src = -1, !.seqs = {}]
            ELSE [@[i] EXCEPT !.seqs = {s}]],
          !.tail = [t \in SeqId |-> IF t = s THEN @[t] ELSE -1],
          !.used = @ - Cardinality(used)], freed)
  /\ told' = [t \in SeqId |-> IF t = s THEN told[t] ELSE Nothing]
  /\ fresh' = NoDraft
  /\ rows' = Kept(rows, mem', fresh')
  /\ UNCHANGED <<setting, batch, phase, client, broken>>

\* seq_add and seq_div over the whole sequence: only the position changes.  It is
\* the cell's, so the client edits a sequence that shares its cell with no other.
Edit(s, p) ==
  LET c == mem.tail[s] IN
  /\ May("edit") /\ c >= 0 /\ Alone(s)
  /\ mem' = [mem EXCEPT !.cells[c].pos = p]
  /\ told' = [told EXCEPT ![s].pos = p]
  /\ fresh' = NoDraft
  /\ rows' = Kept(rows, mem', fresh')
  /\ UNCHANGED <<setting, batch, phase, client, broken>>

SeqAdd(s) == PosOf(mem, s) >= 1 /\ Edit(s, PosOf(mem, s) - 1)
SeqDiv(s) == PosOf(mem, s) >= 2 /\ Edit(s, PosOf(mem, s) \div 2)

Clear ==
  /\ May("clear") \/ phase = "failed"
  /\ mem' = [mem EXCEPT !.cells = [i \in Cell |-> Free],
                        !.tail = [s \in SeqId |-> -1], !.head = 0, !.used = 0,
                        !.rs_idx = [s \in SeqId |-> 0]]
  /\ rows' = Kept(rows, mem', NoDraft)
  /\ told' = [s \in SeqId |-> Nothing]
  /\ fresh' = NoDraft
  /\ phase' = "idle"
  /\ UNCHANGED <<setting, batch, client, broken>>

(***************************************************************************)
(* Decoding a batch                                                        *)
(***************************************************************************)
SeqSets == IF "couple" \in setting.calls THEN (SUBSET SeqId) \ {{}} ELSE {{s} : s \in SeqId}

\* Coupled sequences are at the same position, and the client couples only what
\* has the same content.
Coupled(ids) == \A s, t \in ids : s # t => told[s] = told[t] /\ Settled(s)

\* The sequence sets of a micro batch: consecutive sequences (the sequential split),
\* or with "mix" any in any order (the split of a unified cache).
UbSets == {q \in UNION {[1 .. k -> SeqSets] : k \in 1 .. NSeq} :
             /\ \A j, k \in DOMAIN q : j # k => q[j] \cap q[k] = {}
             /\ "mix" \in setting.calls \/ \A j \in 1 .. Len(q) - 1 : Main(q[j + 1]) = Main(q[j]) + 1}

\* The micro batches of a batch: the last rs + 1 tokens of a sequence stay in one.
OwnTokens(u, s) == IF s \in UNION Range(u.sets) THEN u.n ELSE 0

\* The tokens of a sequence in the first n micro batches.
TokensIn(b, n, s) ==
  LET tokens[k \in 0 .. n] == IF k = 0 THEN 0 ELSE tokens[k - 1] + OwnTokens(b[k], s)
  IN tokens[n]

Tokens(b, s) == TokensIn(b, Len(b), s)
Position(b, k, ids) == told[Main(ids)].pos + TokensIn(b, k, Main(ids))
Positions(b) == [k \in DOMAIN b |->
  [sets |-> b[k].sets, n |-> b[k].n,
   last |-> [j \in DOMAIN b[k].sets |-> Position(b, k, b[k].sets[j])]]]
TailTogether(b) ==
  \A k \in DOMAIN b : \A s \in UNION Range(b[k].sets) :
    LET later == Tokens(b, s) - TokensIn(b, k, s) IN later = 0 \/ later > setting.rs

\* A sequence set may lose sequences from one micro batch to the next, and gains none.
Alike(b) ==
  \A k \in DOMAIN b : \A j \in 1 .. k - 1 :
    \A ids \in Range(b[k].sets), r \in Range(b[j].sets) : r \cap ids = {} \/ ids \subseteq r

Batches ==
  LET ub == [sets : {q \in UbSets : \A j \in DOMAIN q : Coupled(q[j])}, n : 1 .. setting.tok]
  IN {b \in UNION {[1 .. k -> ub] : k \in 1 .. setting.ubs} :
        /\ \A s \in SeqId : Len(told[s].toks) + Tokens(b, s) <= setting.len
        /\ TailTogether(b) /\ Alike(b)}

\* prepare tries the micro batches and puts cells, head and used back.
Try(acc, ub) == IF acc.ok THEN FindSlot(acc.m, ub) ELSE acc

Tried(m, b) ==
  LET tried[k \in 0 .. Len(b)] ==
        IF k = 0 THEN [m |-> m, ok |-> TRUE] ELSE Try(tried[k - 1], b[k])
  IN tried[Len(b)]

\* What of a batch the client may take back: a draft anywhere in it, or with "last"
\* one in its last micro batch.
TakenBack(b) == IF "last" \in setting.calls THEN <<Last(b)>> ELSE b

\* Batches whose positions do not follow the memory's are refused.
Decode(b0) ==
  LET b == Positions(b0)
      tried == Tried(mem, b)
      seqs == {s \in SeqId : Tokens(b, s) > 0}
  IN /\ phase = "idle"
     /\ \A s \in seqs : PosOf(mem, s) >= 0 => PosOf(mem, s) = told[s].pos
     /\ IF tried.ok THEN batch' = b /\ phase' = "decode" ELSE UNCHANGED <<batch, phase>>
     /\ broken' = (broken \/ ~tried.ok)
     /\ fresh' = [s \in SeqId |-> LET n == Tokens(TakenBack(b), s) IN Max({n - 1, 0})]
     /\ rows' = Kept(rows, mem, fresh')
     /\ UNCHANGED <<setting, mem, client, told>>

\* src0, n and rs_z are written by find_slot before the compute reads them again:
\* the model forgets their last values.
Forget(m) == [m EXCEPT !.cells = [i \in Cell |-> [@[i] EXCEPT !.src0 = -1]], !.n = 0, !.rs_z = -1]

\* s_copy: the row the cell i of the range takes its state from.  Reading it ends
\* the pending rollback of the cell's first sequence.
InRange(m) == m.head .. m.head + m.n - 1
First(m, i) == {s \in m.cells[i].seqs : s = Min(m.cells[i].seqs)}
Plane(m, i) == IF IsEmpty(m.cells[i]) THEN 0 ELSE m.rs_idx[Min(m.cells[i].seqs)]

\* A bug: the rollback stays pending after the decode that has carried it out.
ConsumedPending(m) == Forget(m)

Consumed(m) == [Forget(m) EXCEPT !.rs_idx = [s \in SeqId |->
  IF setting.rs > 0 /\ \E i \in InRange(m) : s \in First(m, i) THEN 0 ELSE @[s]]]

\* build_rs and the writing of the snapshots: the zero row is cleared, the states
\* are gathered, the cells after the micro batch's own get their copy, and its own
\* get the states after its last tokens, as many as it has and rows exist.
Graph(m, ub) ==
  LET cleared == IF m.rs_z < 0 THEN rows ELSE [rows EXCEPT ![0][m.rs_z] = << >>]
      from(i) == cleared[Plane(m, i)][m.cells[i].src0]
      k(i) == i - m.head + 1
      own(i) == k(i) \in DOMAIN ub.sets
      toks(i, d) == [j \in 1 .. ub.n - d |-> Main(ub.sets[k(i)])]
  IN [d \in DOMAIN rows |-> [i \in Cell |->
       IF i \in InRange(m) /\ own(i) /\ d < ub.n THEN from(i) \o toks(i, d)
       ELSE IF i \in InRange(m) /\ ~own(i) /\ d = 0 THEN from(i)
       ELSE cleared[d][i]]]

Advance(ub) == [s \in SeqId |->
  LET j == {k \in DOMAIN ub.sets : s \in ub.sets[k]}
  IN IF j = {} THEN told[s]
     ELSE LET k == Min(j) IN
          [toks |-> told[s].toks \o [x \in 1 .. ub.n |-> Main(ub.sets[k])], pos |-> ub.last[k]]]

\* process_ubatch: apply finds the slot, the graph gets its inputs and computes.
ProcessUbatch ==
  LET ub == Head(batch)
      res == FindSlot(mem, ub)
  IN /\ phase = "decode"
     /\ mem' = Consumed(res.m)
     /\ rows' = Kept(Graph(res.m, ub), mem', fresh)
     /\ told' = Advance(ub)
     /\ broken' = (broken \/ ~res.ok)
     /\ batch' = Tail(batch)
     /\ phase' = IF Len(batch) = 1 THEN "idle" ELSE "decode"
     /\ UNCHANGED <<setting, client, fresh>>

\* What decode removes of the sequences of a micro batch that failed.
RemoveOne(m, ub, k) == SeqRm(m, Main(ub.sets[k]), ub.last[k] - ub.n + 1, Inf).m

Removed(m, ub) ==
  LET removed[k \in 0 .. Len(ub.sets)] ==
        IF k = 0 THEN m ELSE RemoveOne(removed[k - 1], ub, k)
  IN removed[Len(ub.sets)]

\* The graph fails after it was given its inputs: the rows of the range are in
\* doubt, and decode removes the positions of the micro batch from the memory.  What
\* the cells of other sequences hold is then uncertain too: the client clears it.
ProcessUbatchFails ==
  LET ub == Head(batch)
      res == FindSlot(mem, ub)
  IN /\ phase = "decode" /\ "fail" \in setting.calls
     /\ mem' = Removed(Consumed(res.m), ub)
     /\ told' = [s \in SeqId |-> Nothing]
     /\ phase' = "failed"
     /\ fresh' = NoDraft
     /\ rows' = Kept([d \in DOMAIN rows |-> [i \in Cell |->
                       IF i \in InRange(res.m) THEN Junk ELSE rows[d][i]]], mem', fresh')
     /\ broken' = (broken \/ ~res.ok)
     /\ batch' = << >>
     /\ UNCHANGED <<setting, client>>

(***************************************************************************)
(* Checkpoints: state_write and state_read of one sequence                 *)
(***************************************************************************)
\* The row the current state of the sequence of cell c is in.
State(s) ==
  LET c == mem.tail[s]
      src == IF mem.cells[c].src >= 0 THEN mem.cells[c].src ELSE c
  IN rows[mem.rs_idx[s]][src]

StateWrite(s) ==
  /\ May("save") /\ mem.tail[s] >= 0 /\ saves < MaxSaves
  /\ saved' = saved \cup {[pos |-> PosOf(mem, s), state |-> State(s), told |-> told[s]]}
  /\ saves' = saves + 1
  /\ UNCHANGED <<setting, mem, rows, batch, phase, told, fresh, broken>>

\* The checkpoint takes a slot like a micro batch of one token; if its data do not
\* arrive, the sequence is removed again.
StateRead(s, c, arrives) ==
  LET res == FindSlot(SeqRm(mem, s, 0, Inf).m, [sets |-> <<{s}>>, n |-> 1, last |-> <<c.pos>>])
      read == [Forget(res.m) EXCEPT !.rs_idx[s] = 0]
  IN /\ phase = "idle"
     /\ mem' = IF arrives THEN read ELSE SeqRm(Forget(res.m), s, 0, Inf).m
     /\ told' = [told EXCEPT ![s] = IF arrives THEN c.told ELSE Nothing]
     /\ fresh' = NoDraft
     /\ rows' = Kept([rows EXCEPT ![0][res.m.head] = IF arrives THEN c.state ELSE Junk], mem', fresh')
     /\ broken' = (broken \/ ~res.ok)
     /\ UNCHANGED <<setting, batch, phase, client>>

Init ==
  /\ setting \in Settings
  /\ mem = [cells |-> [i \in Cell |-> Free], tail |-> [s \in SeqId |-> -1], head |-> 0,
            used |-> 0, n |-> 0, rs_z |-> -1, rs_idx |-> [s \in SeqId |-> 0]]
  /\ rows = [d \in 0 .. setting.rs |-> [i \in Cell |-> Junk]]
  /\ batch = << >> /\ phase = "idle"
  /\ saved = {} /\ saves = 0
  /\ told = [s \in SeqId |-> Nothing] /\ fresh = NoDraft
  /\ broken = FALSE

Next ==
  \/ \E s \in Known : RemoveSeq(s) \/ SeqAdd(s) \/ SeqDiv(s) \/ StateWrite(s)
  \/ \E s \in Known, d \in 1 .. setting.tok : Rollback(s, d)
  \/ \E s, t \in SeqId : Copy(s, t)
  \/ \E s \in SeqId : Keep(s)
  \/ Clear
  \/ \E b \in Batches : Decode(b)
  \/ ProcessUbatch \/ ProcessUbatchFails
  \/ \E s \in SeqId, c \in saved, arrives \in BOOLEAN : StateRead(s, c, arrives)

Spec == Init /\ [][Next]_vars

(***************************************************************************)
(* Properties                                                              *)
(***************************************************************************)
\* The debug check of find_slot (557-576) holds after every operation: a sequence
\* is in the cell its tail names and in no other; and used counts the cells in use.
TailsVerified ==
  /\ \A s \in SeqId : {i \in Cell : s \in mem.cells[i].seqs}
                        = IF mem.tail[s] < 0 THEN {} ELSE {mem.tail[s]}
  /\ mem.used = InUse(mem.cells)

\* No assertion of find_slot fails, and what prepare accepted can be applied.
NeverBroken == ~broken

\* Whatever was swapped, shared, split, rolled back, saved and restored: the row a
\* sequence will continue from holds the state of exactly the tokens the client
\* has put into it, and its position is the one the client has reached.
StateExact == phase = "idle" =>
  \A s \in SeqId :
    /\ told[s].pos = PosOf(mem, s)
    /\ mem.tail[s] >= 0 => State(s) = told[s].toks
=============================================================================
