--------------------------- MODULE CommonLogProofs ---------------------------
(***************************************************************************)
(* Theorems about the logger, for any number of threads, any size of the   *)
(* ring and any number of messages and pauses, and a caller that may pause  *)
(* at any time.                                                            *)
(***************************************************************************)
EXTENDS CommonLog, TLAPS

(* Positions around the ring without the remainder: the k-th after i. *)
At(i, k) == IF i + k < Size THEN i + k ELSE i + k - Size

(* The index after i. *)
LEMMA AfterIs ==
    ASSUME NEW i \in Index
    PROVE  After(i) = At(i, 1) /\ After(i) \in Index
<1>1. Size \in Nat /\ Size >= 3
    BY LogAssumption
<1>2. CASE i + 1 < Size
    BY <1>1, <1>2 DEF After, At, Index
<1>3. CASE i + 1 = Size
    <2>1. (i + 1) % Size = 0
        BY <1>1, <1>3
    <2> QED
        BY <1>1, <1>3, <2>1 DEF After, At, Index
<1> QED
    BY <1>1, <1>2, <1>3 DEF Index

(* The k-th index after i. *)
LEMMA AtIs ==
    ASSUME NEW i \in Index, NEW k \in Index
    PROVE  (i + k) % Size = At(i, k) /\ At(i, k) \in Index
<1>1. Size \in Nat /\ Size >= 3
    BY LogAssumption
<1>2. CASE i + k < Size
    BY <1>1, <1>2 DEF At, Index
<1>3. CASE i + k >= Size
    <2> DEFINE r == i + k - Size
    <2>1. r \in 0 .. Size - 1 /\ i + k = Size + r
        BY <1>1, <1>3 DEF Index
    <2>2. (Size + r) % Size = r
        BY <1>1, <2>1
    <2> QED
        BY <1>1, <1>3, <2>1, <2>2 DEF At, Index
<1> QED
    BY <1>1, <1>2, <1>3 DEF Index

----------------------------------------------------------------------------
(* The geometry of the ring.                                               *)
LEMMA DistIs ==
    ASSUME NEW i \in Index, NEW j \in Index
    PROVE  /\ Dist(i, j) \in Index
           /\ Dist(i, j) = 0 <=> i = j
           /\ At(i, Dist(i, j)) = j
           /\ \A k \in Index : k < Dist(i, j) => At(i, k) # j
BY LogAssumption DEF Dist, At, Index

(* The far end moves on, unless it would meet the near one. *)
LEMMA DistGrows ==
    ASSUME NEW i \in Index, NEW j \in Index, Dist(i, j) < Size - 1
    PROVE  Dist(i, At(j, 1)) = Dist(i, j) + 1
BY LogAssumption DEF Dist, At, Index

(* The near end moves on. *)
LEMMA DistShrinks ==
    ASSUME NEW i \in Index, NEW j \in Index, i # j
    PROVE  /\ Dist(At(i, 1), j) = Dist(i, j) - 1
           /\ \A k \in Index : k < Dist(i, j) - 1 => At(At(i, 1), k) = At(i, k + 1)
BY LogAssumption DEF Dist, At, Index

(* Positions counted from the next index. *)
LEMMA AtNext ==
    ASSUME NEW i \in Index, NEW k \in Index, k + 1 \in Index
    PROVE  At(At(i, 1), k) = At(i, k + 1)
BY LogAssumption DEF At, Index

(* Two distances that fit into the ring add up. *)
LEMMA DistAdds ==
    ASSUME NEW a \in Index, NEW b \in Index, NEW c \in Index, Dist(a, b) + Dist(b, c) < Size
    PROVE  Dist(a, c) = Dist(a, b) + Dist(b, c)
BY LogAssumption DEF Dist, Index

(* A ring that is not full has room for one. *)
LEMMA NotFull ==
    ASSUME head \in Index, tail \in Index, ~IsFull
    PROVE  Dist(head, tail) < Size - 1
BY AfterIs, LogAssumption DEF IsFull, Dist, At, Index

----------------------------------------------------------------------------
(* Who runs when: messages are accepted exactly while nobody pauses, and    *)
(* the worker ends only for a pause, with an empty ring.                   *)
Phase ==
    /\ running <=> caller = "idle"
    /\ worker = "done" => caller # "idle" /\ head = tail
    /\ caller = "paused" => worker = "done"
    /\ worker = "flush" /\ stop => caller = "join" /\ h = end /\ end = tail

(* While the worker prints: it has something at hand, and what it has       *)
(* printed, what it will print in this round, and what came later fit into *)
(* the ring together.  Only the entry that pause pushes may fill the ring   *)
(* to the last place.                                                       *)
Parts ==
    worker = "flush" =>
        /\ Dist(head, h) + Dist(h, end) \in 1 .. Size - 1
        /\ Dist(head, h) + Dist(h, end) + Dist(end, tail) <= Size
        /\ running => Dist(head, h) + Dist(h, end) + Dist(end, tail) < Size

(* Of the entries still to be read, the last one and no other ends the      *)
(* worker, and only while pause waits for that.                            *)
Marks ==
    /\ StopPending => Ahead # 0
    /\ \A k \in Index :
          k < Ahead => (queue[At(Reading, k)].is_end <=> StopPending /\ k = Ahead - 1)

(* The same as InOrder, without the remainder. *)
Order ==
    /\ Len(accepted) = Len(printed) + Pending
    /\ \A k \in 1 .. Len(printed) : accepted[k] = printed[k]
    /\ \A k \in Index :
          k < Pending => accepted[Len(printed) + k + 1] = queue[At(Reading, k)].msg

Sound == Phase /\ Parts /\ Marks /\ Order

(* After pause has pushed its entry into a full ring, and no flush was      *)
(* under way: the ring counts as empty, and the worker waits or is about    *)
(* to, while pause waits for it.                                            *)
Lost ==
    /\ caller = "join" /\ ~running
    /\ worker \in {"lock", "wait"}
    /\ head = tail

IInv ==
    /\ TypeOK
    /\ overfull => Lost
    /\ ~overfull => Sound

----------------------------------------------------------------------------
(* The new logger has the types. *)
LEMMA InitTypeOK == Init => TypeOK
<1> SUFFICES ASSUME Init
             PROVE  TypeOK
    OBVIOUS
<1>1. 0 \in Index /\ 0 \in 0 .. MaxAdd /\ 0 \in 0 .. MaxPause
    BY LogAssumption DEF Index
<1>2. queue \in [Index -> Entry]
    BY DEF Init, Entry
<1>3. accepted \in Seq(Message) /\ printed \in Seq(Message \cup {NoMessage})
    BY DEF Init
<1> QED
    BY <1>1, <1>2, <1>3 DEF Init, TypeOK

(* Every step keeps TypeOK. *)
LEMMA NextTypeOK ==
    ASSUME TypeOK, [Next]_vars
    PROVE  TypeOK'
<1> USE DEF TypeOK
<1>1. CASE UNCHANGED vars
    BY <1>1 DEF vars, ring, flush, history
<1>2. ASSUME NEW t \in Thread, AddWaits(t)
      PROVE  TypeOK'
    BY <1>2 DEF AddWaits, ring, flush, history
<1>3. ASSUME NEW t \in Thread, AddDiscards(t)
      PROVE  TypeOK'
    BY <1>3, LogAssumption DEF AddDiscards, ring, flush, history
<1>4. ASSUME NEW t \in Thread, Add(t)
      PROVE  TypeOK'
    <2> DEFINE m == <<t, sent[t] + 1>>
    <2>1. m \in Message
        BY <1>4, LogAssumption DEF Add, Message
    <2>2. queue' \in [Index -> Entry] /\ accepted' \in Seq(Message)
        BY <1>4, <2>1 DEF Add, Filled, Entry
    <2>3. tail' \in Index
        BY <1>4, AfterIs DEF Add
    <2>4. sent' \in [Thread -> 0 .. MaxAdd]
        BY <1>4, LogAssumption DEF Add
    <2> QED
        BY <1>4, <2>2, <2>3, <2>4 DEF Add, flush, Notified
<1>5. CASE WorkerWaits
    BY <1>5 DEF WorkerWaits, ring, flush, history
<1>6. CASE WorkerTakes
    BY <1>6 DEF WorkerTakes, ring, history
<1>7. CASE PrintEntry
    <2>1. h' \in Index
        BY <1>7, AfterIs DEF PrintEntry
    <2>2. queue[h] \in Entry
        OBVIOUS
    <2>3. stop' \in BOOLEAN /\ printed' \in Seq(Message \cup {NoMessage})
        BY <1>7, <2>2 DEF PrintEntry, Entry
    <2> QED
        BY <1>7, <2>1, <2>3 DEF PrintEntry, ring
<1>8. CASE FlushEnds
    BY <1>8 DEF FlushEnds, flush, history
<1>9. CASE Pause
    <2>1. tail' \in Index
        BY <1>9, AfterIs DEF Pause
    <2>2. queue' \in [Index -> Entry]
        BY <1>9 DEF Pause, Entry
    <2>3. pauses' \in 0 .. MaxPause
        BY <1>9, LogAssumption DEF Pause
    <2> QED
        BY <1>9, <2>1, <2>2, <2>3 DEF Pause, flush, Notified
<1>10. CASE Join
    BY <1>10 DEF Join, ring, flush, history
<1>11. CASE Resume
    BY <1>11 DEF Resume, ring, flush, history
<1> QED
    BY <1>1, <1>2, <1>3, <1>4, <1>5, <1>6, <1>7, <1>8, <1>9, <1>10, <1>11
    DEF Next, AddStep, WorkerStep

(* Type correctness, for every value of the constants. *)
THEOREM TypeCorrect == Spec => []TypeOK
<1>1. Init => TypeOK
    BY InitTypeOK
<1>2. TypeOK /\ [Next]_vars => TypeOK'
    BY NextTypeOK
<1> QED
    BY <1>1, <1>2, PTL DEF Spec

----------------------------------------------------------------------------
(* The invariant holds of a new logger. *)
LEMMA InitIInv == Init => IInv
<1> SUFFICES ASSUME Init
             PROVE  IInv
    OBVIOUS
<1>1. TypeOK
    BY InitTypeOK
<1>2. Ahead = 0 /\ ~StopPending /\ Pending = 0
    BY LogAssumption DEF Init, Ahead, Dist, StopPending, Pending
<1>3. Phase /\ Parts
    BY DEF Init, Phase, Parts
<1>4. Marks
    BY <1>2, LogAssumption DEF Marks, Index
<1>5. Order
    BY <1>2, LogAssumption DEF Init, Order, Index
<1> QED
    BY <1>1, <1>3, <1>4, <1>5 DEF Init, IInv, Sound

(* A step that leaves the ring, what is read next and what was accepted and *)
(* printed as they are.                                                    *)
LEMMA NothingMoves ==
    ASSUME Marks, Order, Phase', Parts',
           UNCHANGED <<queue, accepted, printed, Reading, Ahead, StopPending>>
    PROVE  Sound'
<1>1. Pending' = Pending
    BY DEF Pending
<1> QED
    BY <1>1 DEF Sound, Marks, Order, At

(* What distances are, as numbers. *)
LEMMA AheadIs ==
    ASSUME TypeOK
    PROVE  /\ head \in Index /\ tail \in Index /\ h \in Index /\ end \in Index /\ Reading \in Index
           /\ Size \in Nat /\ Size >= 3
           /\ Dist(head, h) \in Nat /\ Dist(h, end) \in Nat /\ Dist(end, tail) \in Nat
           /\ Dist(h, tail) \in Index /\ Dist(head, tail) \in Index /\ Ahead \in Nat
<1>1. head \in Index /\ tail \in Index /\ h \in Index /\ end \in Index
    BY DEF TypeOK
<1>2. /\ Dist(head, h) \in Index /\ Dist(h, end) \in Index /\ Dist(end, tail) \in Index
      /\ Dist(h, tail) \in Index /\ Dist(head, tail) \in Index
    BY <1>1, DistIs
<1> QED
    BY <1>1, <1>2, LogAssumption DEF Index, Reading, Ahead

(* An entry is written behind all others: the ring grows by one, and what   *)
(* is still to be read stays where it is.  A full ring grows only during a  *)
(* flush, and messages are not accepted any more then.                      *)
LEMMA Grows ==
    ASSUME TypeOK, Sound, TypeOK', running,
           IsFull => worker = "flush" /\ ~running',
           tail' = After(tail), worker' = Notified,
           UNCHANGED <<head, flush>>,
           ~(worker = "flush" /\ stop)
    PROVE  /\ Parts'
           /\ Reading' = Reading
           /\ Ahead' = Ahead + 1
           /\ Ahead \in Index /\ Ahead = Dist(Reading, tail)
           /\ At(Reading, Ahead) = tail
<1>0. /\ head \in Index /\ tail \in Index /\ h \in Index /\ end \in Index
      /\ Size \in Nat /\ Size >= 3
      /\ Dist(head, h) \in Nat /\ Dist(h, end) \in Nat /\ Dist(end, tail) \in Nat
      /\ Dist(h, tail) \in Index /\ Dist(head, tail) \in Index
    BY AheadIs
<1>1. tail' = At(tail, 1) /\ tail' \in Index
    BY <1>0, AfterIs
<1>2. ~IsFull => Dist(head, tail) < Size - 1
    BY <1>0, NotFull
<1>3. Reading' = Reading
    BY DEF Notified, Reading, flush
<1>4. CASE worker # "flush"
    <2>1. Reading = head /\ Ahead = Dist(head, tail) /\ Parts' /\ ~IsFull
        BY <1>4 DEF Reading, Ahead, Parts, Notified
    <2>2. Ahead' = Dist(head, At(tail, 1))
        BY <1>1, <1>4 DEF Ahead, Notified, Dist
    <2> QED
        BY <1>0, <1>2, <1>3, <2>1, <2>2, DistGrows, DistIs
<1>5. CASE worker = "flush"
    <2> DEFINE p == Dist(head, h)
               q == Dist(h, end)
               r == Dist(end, tail)
    <2>1. p + q \in 1 .. Size - 1 /\ p + q + r < Size /\ Ahead = q + r /\ Reading = h
        BY <1>5 DEF Sound, Parts, Ahead, Reading
    <2>2. Dist(h, tail) = q + r
        <3>1. q + r < Size
            BY <1>0, <2>1
        <3> QED
            BY <1>0, <3>1, DistAdds
    <2>3. Dist(head, tail) = p + q + r
        <3>1. p + Dist(h, tail) < Size
            BY <1>0, <2>1, <2>2
        <3>2. Dist(head, tail) = p + Dist(h, tail)
            BY <1>0, <3>1, DistAdds
        <3> QED
            BY <1>0, <2>2, <3>2
    <2>4. Dist(end, At(tail, 1)) = r + 1
        <3>1. r < Size - 1
            BY <1>0, <2>1
        <3> QED
            BY <1>0, <3>1, DistGrows
    <2>5. /\ Dist(head, h)' = p /\ Dist(h, end)' = q /\ Dist(end, tail)' = r + 1
          /\ Ahead' = q + (r + 1)
        BY <1>1, <1>5, <2>4 DEF Dist, flush, Ahead, Notified
    <2>6. p + q + (r + 1) <= Size /\ (running' => p + q + (r + 1) < Size)
        <3>1. p + q + (r + 1) <= Size
            BY <1>0, <2>1
        <3>2. ~IsFull => p + q + (r + 1) < Size
            BY <1>0, <1>2, <2>3
        <3> QED
            BY <3>1, <3>2
    <2>7. Parts'
        BY <2>1, <2>5, <2>6 DEF Parts
    <2>8. At(h, Dist(h, tail)) = tail
        BY <1>0, DistIs
    <2>9. Ahead' = Ahead + 1
        BY <1>0, <2>1, <2>5
    <2> QED
        BY <1>0, <1>3, <2>1, <2>2, <2>7, <2>8, <2>9
<1> QED
    BY <1>4, <1>5

(* The k-th entry behind Reading is not the one that is written. *)
LEMMA Apart ==
    ASSUME NEW i \in Index, NEW j \in Index, NEW k \in Index, k < Dist(i, j)
    PROVE  At(i, k) \in Index /\ At(i, k) # j
BY DistIs, AtIs

(* A message put into the ring keeps the invariant.                         *)
LEMMA AddKeeps ==
    ASSUME TypeOK, Sound, TypeOK', NEW t \in Thread, Add(t)
    PROVE  Sound'
<1>0. /\ Phase /\ Marks /\ Order
      /\ queue \in [Index -> Entry] /\ tail \in Index /\ Reading \in Index
    BY DEF Sound, TypeOK, Reading
<1>1. caller = "idle" /\ ~StopPending /\ ~StopPending' /\ worker # "done" /\ ~(worker = "flush" /\ stop)
    BY <1>0 DEF Add, Phase, StopPending
<1>2. Phase'
    BY <1>0, <1>1 DEF Add, Phase, Notified, flush
<1> DEFINE d == Ahead
           m == <<t, sent[t] + 1>>
<1>3. /\ Parts' /\ Reading' = Reading /\ Ahead' = d + 1
      /\ d \in Index /\ d = Dist(Reading, tail)
      /\ At(Reading, d) = tail
    BY <1>1, Grows DEF Add
<1>4. d \in Nat
    BY <1>3, LogAssumption DEF Index
<1>5. /\ queue'[tail] = [msg |-> m, is_end |-> FALSE]
      /\ \A i \in Index : i # tail => queue'[i] = queue[i]
    BY <1>0 DEF Add, Filled
<1>6. \A k \in Index : At(Reading, k)' = At(Reading, k)
    BY <1>3 DEF At
<1>7. \A k \in Index : k < d => At(Reading, k) \in Index /\ At(Reading, k) # tail
    BY <1>0, <1>3, Apart
<1>8. Marks'
    <2> SUFFICES ASSUME NEW k \in Index, k < d + 1
                 PROVE  ~queue'[At(Reading, k)'].is_end
        BY <1>1, <1>3 DEF Marks
    <2>1. CASE k = d
        BY <1>3, <1>5, <1>6, <2>1
    <2>2. CASE k < d
        BY <1>0, <1>1, <1>5, <1>6, <1>7, <2>2 DEF Marks
    <2> QED
        BY <1>4, <2>1, <2>2, LogAssumption DEF Index
<1>9. Order'
    <2>1. Pending = d /\ Pending' = d + 1
        BY <1>1, <1>3, <1>4 DEF Pending
    <2>2. accepted' = Append(accepted, m) /\ printed' = printed /\ accepted \in Seq(Message) /\ m \in Message
          /\ printed \in Seq(Message \cup {NoMessage})
        BY <1>0, LogAssumption DEF Add, TypeOK, Message
    <2>3. Len(accepted) = Len(printed) + d
        BY <1>0, <2>1 DEF Order
    <2>4. Len(accepted') = Len(printed') + Pending'
        BY <1>4, <2>1, <2>2, <2>3
    <2>5. \A k \in 1 .. Len(printed') : accepted'[k] = printed'[k]
        BY <1>0, <1>4, <2>2, <2>3 DEF Order
    <2>6. ASSUME NEW k \in Index, k < Pending'
          PROVE  accepted'[Len(printed') + k + 1] = queue'[At(Reading, k)'].msg
        <3>1. CASE k = d
            <4>1. accepted'[Len(printed') + k + 1] = m
                BY <1>4, <2>2, <2>3, <3>1
            <4> QED
                BY <1>3, <1>5, <1>6, <3>1, <4>1
        <3>2. CASE k < d
            <4>1. accepted'[Len(printed') + k + 1] = accepted[Len(printed) + k + 1]
                BY <1>4, <2>2, <2>3, <3>2 DEF Index
            <4>2. accepted[Len(printed) + k + 1] = queue[At(Reading, k)].msg
                BY <1>0, <2>1, <3>2 DEF Order
            <4> QED
                BY <1>5, <1>6, <1>7, <3>2, <4>1, <4>2
        <3> QED
            BY <1>4, <2>1, <2>6, <3>1, <3>2, LogAssumption DEF Index
    <2> QED
        BY <2>4, <2>5, <2>6 DEF Order
<1> QED
    BY <1>2, <1>3, <1>8, <1>9 DEF Sound

(* The entry that tells the worker to stop keeps the invariant when there   *)
(* is a place in the ring, or a flush that will free one.                   *)
LEMMA PauseKeeps ==
    ASSUME TypeOK, Sound, TypeOK', Pause, ~overfull'
    PROVE  Sound'
<1>0. /\ Phase /\ Marks /\ Order
      /\ queue \in [Index -> Entry] /\ tail \in Index /\ Reading \in Index
    BY DEF Sound, TypeOK, Reading
<1>1. caller = "idle" /\ ~StopPending /\ StopPending' /\ worker # "done" /\ ~(worker = "flush" /\ stop)
    BY <1>0 DEF Pause, Phase, StopPending, Notified, flush
<1>2. Phase'
    BY <1>0, <1>1 DEF Pause, Phase, Notified, flush
<1> DEFINE d == Ahead
<1>3. /\ Parts' /\ Reading' = Reading /\ Ahead' = d + 1
      /\ d \in Index /\ d = Dist(Reading, tail)
      /\ At(Reading, d) = tail
    BY <1>0, <1>1, Grows DEF Pause, Phase
<1>4. d \in Nat
    BY <1>3, LogAssumption DEF Index
<1>5. /\ queue'[tail].is_end
      /\ \A i \in Index : i # tail => queue'[i] = queue[i]
    BY <1>0 DEF Pause, Entry
<1>6. \A k \in Index : At(Reading, k)' = At(Reading, k)
    BY <1>3 DEF At
<1>7. \A k \in Index : k < d => At(Reading, k) \in Index /\ At(Reading, k) # tail
    BY <1>0, <1>3, Apart
<1>8. Marks'
    <2>1. Ahead' # 0
        BY <1>3, <1>4
    <2>2. ASSUME NEW k \in Index, k < d + 1
          PROVE  queue'[At(Reading, k)'].is_end <=> k = d
        <3>1. CASE k = d
            BY <1>3, <1>5, <1>6, <3>1
        <3>2. CASE k < d
            BY <1>0, <1>1, <1>4, <1>5, <1>6, <1>7, <3>2 DEF Marks, Index
        <3> QED
            BY <1>4, <2>2, <3>1, <3>2, LogAssumption DEF Index
    <2>3. ASSUME NEW k \in Index, k < Ahead'
          PROVE  queue'[At(Reading, k)'].is_end <=> StopPending' /\ k = Ahead' - 1
        <3>1. k < d + 1 /\ Ahead' - 1 = d
            BY <1>3, <1>4, <2>3
        <3> QED
            BY <1>1, <2>2, <3>1
    <2> QED
        BY <2>1, <2>3 DEF Marks
<1>9. Order'
    <2>1. Pending = d /\ Pending' = d
        BY <1>1, <1>3, <1>4 DEF Pending
    <2>2. accepted' = accepted /\ printed' = printed
        BY DEF Pause
    <2>3. ASSUME NEW k \in Index, k < d
          PROVE  accepted'[Len(printed') + k + 1] = queue'[At(Reading, k)'].msg
        BY <1>0, <1>5, <1>6, <1>7, <2>1, <2>2, <2>3 DEF Order
    <2> QED
        BY <1>0, <2>1, <2>2, <2>3 DEF Order
<1> QED
    BY <1>2, <1>3, <1>8, <1>9 DEF Sound

(* The worker's step to the next entry keeps the invariant. *)
LEMMA PrintKeeps ==
    ASSUME TypeOK, Sound, TypeOK', PrintEntry
    PROVE  Sound'
<1>0. /\ Phase /\ Parts /\ Marks /\ Order
      /\ queue \in [Index -> Entry]
      /\ tail \in Index /\ head \in Index /\ h \in Index /\ end \in Index
      /\ Size \in Nat /\ Size >= 3
      /\ printed \in Seq(Message \cup {NoMessage})
    BY LogAssumption DEF Sound, TypeOK
<1>1. /\ worker = "flush" /\ ~stop /\ h # end /\ Reading = h
      /\ Reading' = h' /\ worker' = "flush" /\ h' = At(h, 1) /\ h' \in Index
      /\ UNCHANGED <<queue, head, tail, end, running, caller, accepted>>
    BY <1>0, AfterIs DEF PrintEntry, Reading, ring
<1> DEFINE p == Dist(head, h)
           q == Dist(h, end)
           r == Dist(end, tail)
           d == Ahead
<1>2. p \in Nat /\ q \in Nat /\ r \in Nat
    BY AheadIs
<1>3. /\ q # 0 /\ d = q + r
      /\ p + q < Size /\ p + q + r <= Size /\ (running => p + q + r < Size)
    BY <1>0, <1>1, DistIs DEF Parts, Ahead
<1>4. Dist(At(h, 1), end) = q - 1 /\ Dist(head, At(h, 1)) = p + 1
    <2>1. p < Size - 1
        BY <1>0, <1>2, <1>3
    <2> QED
        BY <1>0, <1>1, <2>1, DistGrows, DistShrinks
<1>5. Dist(head, h)' = p + 1 /\ Dist(h, end)' = q - 1 /\ Dist(end, tail)' = r
    BY <1>1, <1>4 DEF Dist
<1>6. d >= 1 /\ d \in Nat /\ d <= Size /\ Ahead' = d - 1
    BY <1>0, <1>1, <1>2, <1>3, <1>5 DEF Ahead
<1>7. Parts'
    <2>1. /\ (p + 1) + (q - 1) \in 1 .. Size - 1
          /\ (p + 1) + (q - 1) + r <= Size
          /\ running => (p + 1) + (q - 1) + r < Size
        BY <1>0, <1>2, <1>3
    <2> QED
        BY <1>1, <1>5, <2>1 DEF Parts
<1>8. At(h, 0) = h /\ 0 \in Index
    BY <1>0 DEF At, Index
<1>9. queue[h].is_end <=> StopPending /\ d = 1
    <2>1. 0 < d /\ (0 = d - 1 <=> d = 1)
        BY <1>6
    <2> QED
        BY <1>0, <1>1, <1>8, <2>1 DEF Marks
<1>10. \A k \in Index : k < d - 1 => k + 1 \in Index /\ k + 1 < d /\ At(h', k) = At(h, k + 1)
    <2> SUFFICES ASSUME NEW k \in Index, k < d - 1
                 PROVE  k + 1 \in Index /\ k + 1 < d /\ At(h', k) = At(h, k + 1)
        OBVIOUS
    <2>1. k + 1 \in Index /\ k + 1 < d
        BY <1>0, <1>6 DEF Index
    <2> QED
        BY <1>0, <1>1, <2>1, AtNext
<1>11. CASE queue[h].is_end
    <2>1. StopPending /\ d = 1 /\ stop' /\ ~StopPending' /\ printed' = printed /\ caller = "join"
        BY <1>1, <1>9, <1>11 DEF PrintEntry, StopPending
    <2>2. Ahead' = 0
        BY <1>6, <2>1
    <2>3. h' = end' /\ end' = tail'
        <3>1. q = 1 /\ r = 0
            BY <1>2, <1>3, <2>1
        <3>2. Dist(At(h, 1), end) = 0
            BY <1>4, <3>1
        <3> QED
            BY <1>0, <1>1, <3>1, <3>2, DistIs
    <2>4. Phase'
        BY <1>0, <1>1, <2>1, <2>3 DEF Phase, PrintEntry
    <2>5. Marks'
        BY <2>1, <2>2 DEF Marks, Index
    <2>6. Pending = 0 /\ Pending' = 0
        <3>1. Pending = d - 1
            BY <2>1 DEF Pending
        <3>2. Pending' = Ahead' - 0
            BY <2>1 DEF Pending
        <3> QED
            BY <2>1, <2>2, <3>1, <3>2
    <2>7. Order'
        BY <1>0, <1>1, <2>1, <2>6 DEF Order, Index
    <2> QED
        BY <1>7, <2>4, <2>5, <2>7 DEF Sound
<1>12. CASE ~queue[h].is_end
    <2>1. ~stop' /\ printed' = Append(printed, queue[h].msg) /\ StopPending' = StopPending
        BY <1>0, <1>1, <1>12 DEF PrintEntry, StopPending, Entry
    <2>2. Phase'
        BY <1>0, <1>1, <2>1 DEF Phase, PrintEntry
    <2>3. StopPending => d >= 2
        BY <1>6, <1>9, <1>12
    <2>5. Marks'
        <3>1. StopPending' => Ahead' # 0
            BY <1>6, <2>1, <2>3
        <3>2. ASSUME NEW k \in Index, k < d - 1
              PROVE  queue'[At(Reading, k)'].is_end <=> StopPending' /\ k = d - 1 - 1
            <4>1. queue'[At(Reading, k)'] = queue[At(h, k + 1)]
                BY <1>1, <1>10, <3>2 DEF At
            <4>2. queue[At(h, k + 1)].is_end <=> StopPending /\ k + 1 = d - 1
                BY <1>0, <1>1, <1>10, <3>2 DEF Marks
            <4>3. k + 1 = d - 1 <=> k = d - 1 - 1
                BY <1>6 DEF Index
            <4> QED
                BY <2>1, <4>1, <4>2, <4>3
        <3> QED
            BY <1>6, <3>1, <3>2 DEF Marks
    <2>6. Order'
        <3>1. Pending \in Nat /\ Pending >= 1 /\ Pending' = Pending - 1 /\ Pending <= d
            BY <1>6, <2>1, <2>3 DEF Pending
        <3>2. /\ printed' \in Seq(Message \cup {NoMessage}) /\ Len(printed') = Len(printed) + 1
              /\ Len(printed) \in Nat
              /\ \A k \in 1 .. Len(printed) : printed'[k] = printed[k]
              /\ printed'[Len(printed) + 1] = queue[h].msg
            BY <1>0, <2>1 DEF Entry
        <3>3. accepted[Len(printed) + 1] = queue[h].msg
            <4>1. accepted[Len(printed) + 0 + 1] = queue[At(Reading, 0)].msg
                BY <1>0, <1>8, <3>1 DEF Order
            <4> QED
                BY <1>1, <1>8, <3>2, <4>1
        <3>4. Len(accepted') = Len(printed') + Pending'
            BY <1>0, <1>1, <3>1, <3>2 DEF Order
        <3>5. ASSUME NEW k \in 1 .. Len(printed')
              PROVE  accepted'[k] = printed'[k]
            BY <1>0, <1>1, <3>2, <3>3 DEF Order
        <3>6. ASSUME NEW k \in Index, k < Pending'
              PROVE  accepted'[Len(printed') + k + 1] = queue'[At(Reading, k)'].msg
            <4>1. k < d - 1 /\ k + 1 < Pending /\ k + 1 \in Index /\ k \in Nat
                BY <1>0, <1>6, <3>1, <3>6 DEF Index
            <4>2. queue'[At(Reading, k)'] = queue[At(h, k + 1)]
                BY <1>1, <1>10, <4>1 DEF At
            <4>3. accepted[Len(printed) + (k + 1) + 1] = queue[At(Reading, k + 1)].msg
                BY <1>0, <4>1 DEF Order
            <4>4. Len(printed') + k + 1 = Len(printed) + (k + 1) + 1
                BY <3>2, <4>1
            <4> QED
                BY <1>1, <4>2, <4>3, <4>4
        <3> QED
            BY <3>4, <3>5, <3>6 DEF Order
    <2> QED
        BY <1>7, <2>2, <2>5, <2>6 DEF Sound
<1> QED
    BY <1>11, <1>12

(* The steps that write no entry and read none keep the invariant. *)
LEMMA OthersKeep ==
    ASSUME TypeOK, Sound,
           \/ UNCHANGED vars
           \/ \E t \in Thread : AddWaits(t) \/ AddDiscards(t)
           \/ WorkerWaits \/ WorkerTakes \/ FlushEnds \/ Join \/ Resume
    PROVE  Sound'
<1>0. /\ Phase /\ Parts /\ Marks /\ Order
      /\ head \in Index /\ tail \in Index /\ h \in Index /\ end \in Index
      /\ Size \in Nat
    BY AheadIs DEF Sound
<1>1. CASE UNCHANGED vars
    <2>1. Phase' /\ Parts' /\ UNCHANGED <<queue, accepted, printed, Reading, Ahead, StopPending>>
        BY <1>0, <1>1 DEF vars, ring, flush, history, Phase, Parts, Dist, Reading, Ahead, StopPending
    <2> QED
        BY <1>0, <2>1, NothingMoves
<1>2. ASSUME NEW t \in Thread, AddWaits(t) \/ AddDiscards(t)
      PROVE  Sound'
    <2>1. Phase' /\ Parts' /\ UNCHANGED <<queue, accepted, printed, Reading, Ahead, StopPending>>
        BY <1>0, <1>2
        DEF AddWaits, AddDiscards, ring, flush, history, Phase, Parts, Dist, Reading, Ahead, StopPending
    <2> QED
        BY <1>0, <2>1, NothingMoves
<1>3. CASE WorkerWaits
    <2>1. Phase' /\ Parts' /\ UNCHANGED <<queue, accepted, printed, Reading, Ahead, StopPending>>
        BY <1>0, <1>3 DEF WorkerWaits, ring, flush, history, Phase, Parts, Dist, Reading, Ahead, StopPending
    <2> QED
        BY <1>0, <2>1, NothingMoves
<1>4. CASE WorkerTakes
    <2>1. Dist(head, head) = 0 /\ Dist(tail, tail) = 0 /\ Dist(head, tail) \in 1 .. Size - 1
        <3>1. Dist(head, tail) \in Index /\ Dist(head, tail) # 0
            BY <1>0, <1>4, DistIs DEF WorkerTakes, IsEmpty
        <3> QED
            BY <1>0, <3>1, DistIs DEF Index
    <2>2. /\ Dist(head, h)' = 0 /\ Dist(h, end)' = Dist(head, tail) /\ Dist(end, tail)' = 0
          /\ worker = "lock" /\ worker' = "flush"
        BY <1>4, <2>1 DEF WorkerTakes, ring, Dist
    <2>3. Parts'
        BY <1>0, <2>1, <2>2 DEF Parts
    <2>4. Ahead' = Ahead
        BY <2>1, <2>2 DEF Ahead
    <2>5. Phase' /\ UNCHANGED <<queue, accepted, printed, Reading, StopPending>>
        BY <1>0, <1>4 DEF WorkerTakes, ring, history, Phase, Reading, StopPending
    <2> QED
        BY <1>0, <2>3, <2>4, <2>5, NothingMoves
<1>5. CASE FlushEnds
    <2>1. /\ worker = "flush" /\ worker' # "flush" /\ h = end /\ head' = end
          /\ UNCHANGED <<queue, tail, accepted, printed>>
        BY <1>0, <1>5 DEF FlushEnds, Phase, history
    <2>2. Dist(end, end) = 0 /\ Dist(end, tail) \in Nat
        BY <1>0, DistIs DEF Index
    <2>3. Ahead = Dist(end, tail) /\ Ahead' = Dist(end, tail)
        BY <2>1, <2>2 DEF Ahead, Dist
    <2>4. Phase' /\ Parts' /\ UNCHANGED <<Reading, StopPending>>
        BY <1>0, <1>5, <2>1 DEF FlushEnds, flush, history, Phase, Parts, Reading, StopPending
    <2> QED
        BY <1>0, <2>1, <2>3, <2>4, NothingMoves
<1>6. CASE Join
    <2>1. Phase' /\ Parts' /\ UNCHANGED <<queue, accepted, printed, Reading, Ahead, StopPending>>
        BY <1>0, <1>6 DEF Join, ring, flush, history, Phase, Parts, Dist, Reading, Ahead, StopPending
    <2> QED
        BY <1>0, <2>1, NothingMoves
<1>7. CASE Resume
    <2>1. Phase' /\ Parts' /\ UNCHANGED <<queue, accepted, printed, Reading, Ahead, StopPending>>
        BY <1>0, <1>7 DEF Resume, ring, flush, history, Phase, Parts, Dist, Reading, Ahead, StopPending
    <2> QED
        BY <1>0, <2>1, NothingMoves
<1> QED
    BY <1>1, <1>2, <1>3, <1>4, <1>5, <1>6, <1>7

(* A ring that is full, and one more entry: tail meets head. *)
LEMMA Overflows ==
    ASSUME TypeOK, Sound, Pause, overfull'
    PROVE  Lost'
<1>1. worker # "flush" /\ tail' = head /\ head' = head /\ caller' = "join" /\ ~running'
    BY DEF Pause, IsFull
<1>2. worker \in {"lock", "wait"}
    BY <1>1 DEF TypeOK, Sound, Phase, Pause
<1> QED
    BY <1>1, <1>2 DEF Pause, Lost, Notified

(* A lost ring stays lost: the worker sleeps, messages are discarded, and    *)
(* pause waits.                                                             *)
LEMMA StaysLost ==
    ASSUME Lost, [Next]_vars
    PROVE  Lost' /\ overfull' = overfull
<1>1. CASE UNCHANGED vars
    BY <1>1 DEF vars, ring, history, Lost
<1>2. ASSUME NEW t \in Thread, AddStep(t)
      PROVE  Lost' /\ overfull' = overfull
    BY <1>2 DEF AddStep, AddWaits, AddDiscards, Add, ring, history, Lost
<1>3. CASE WorkerStep
    BY <1>3 DEF WorkerStep, WorkerWaits, WorkerTakes, PrintEntry, FlushEnds, IsEmpty, ring, history, Lost
<1>4. CASE Pause \/ Join \/ Resume
    BY <1>4 DEF Pause, Join, Resume, Lost
<1> QED
    BY <1>1, <1>2, <1>3, <1>4 DEF Next

(* The history variable changes in pause only. *)
LEMMA OverfullKept ==
    ASSUME [Next]_vars, ~Pause
    PROVE  overfull' = overfull
BY DEF Next, AddStep, WorkerStep, AddWaits, AddDiscards, Add, WorkerWaits, WorkerTakes, PrintEntry,
       FlushEnds, Join, Resume, vars, history

(* The invariant is inductive. *)
LEMMA NextIInv ==
    ASSUME IInv, [Next]_vars
    PROVE  IInv'
<1>0. TypeOK /\ TypeOK'
    BY NextTypeOK DEF IInv
<1>1. CASE overfull
    BY <1>0, <1>1, StaysLost DEF IInv
<1>2. CASE ~overfull /\ Pause
    BY <1>0, <1>2, PauseKeeps, Overflows DEF IInv
<1>3. CASE ~overfull /\ ~Pause
    <2>1. Sound'
        BY <1>0, <1>3, AddKeeps, PrintKeeps, OthersKeep DEF IInv, Next, AddStep, WorkerStep
    <2> QED
        BY <1>0, <1>3, <2>1, OverfullKept DEF IInv
<1> QED
    BY <1>1, <1>2, <1>3

(* The ring and its marks are always in order, or pause has made a full     *)
(* ring look empty.                                                         *)
THEOREM Invariance == Spec => []IInv
<1>1. Init => IInv
    BY InitIInv
<1>2. IInv /\ [Next]_vars => IInv'
    BY NextIInv
<1> QED
    BY <1>1, <1>2, PTL DEF Spec

(* The worker reads without the mutex only entries that nobody writes. *)
THEOREM NoRace == Spec => []NoDataRace
<1>1. IInv => NoDataRace
    <2> SUFFICES ASSUME IInv, worker = "flush", running, tail \in Between(h, end)
                 PROVE  FALSE
        BY DEF NoDataRace
    <2>1. /\ head \in Index /\ tail \in Index /\ h \in Index /\ end \in Index
          /\ Dist(head, h) + Dist(h, end) + Dist(end, tail) < Size
          /\ Dist(h, tail) < Dist(h, end)
        BY DEF IInv, Lost, Sound, TypeOK, Parts, Between
    <2> QED
        BY <2>1, LogAssumption DEF Dist, Index
<1> QED
    BY <1>1, Invariance, PTL

(* Nothing is lost, doubled or reordered. *)
THEOREM KeptInOrder == Spec => []InOrder
<1>1. IInv => InOrder
    <2> SUFFICES ASSUME IInv, ~overfull
                 PROVE  InOrder
        BY DEF InOrder
    <2>1. Order /\ Reading \in Index
        BY DEF IInv, Sound, TypeOK, Reading
    <2>2. Ahead \in Nat /\ Ahead <= Size /\ Size \in Nat
        <3>1. Ahead \in Nat /\ Size \in Nat /\ Dist(head, tail) \in Index /\ Dist(head, h) \in Nat
              /\ Dist(h, end) \in Nat /\ Dist(end, tail) \in Nat
            BY AheadIs DEF IInv
        <3> QED
            BY <3>1 DEF IInv, Sound, Parts, Ahead, Index
    <2>3. ASSUME NEW k \in 1 .. Pending
          PROVE  accepted[Len(printed) + k] = queue[(Reading + k - 1) % Size].msg
        <3>1. k - 1 \in Index /\ k - 1 < Pending /\ k \in Nat
            BY <2>2, LogAssumption DEF Pending, Index
        <3>2. accepted[Len(printed) + (k - 1) + 1] = queue[At(Reading, k - 1)].msg
            BY <2>1, <3>1 DEF Order
        <3>3. (Reading + (k - 1)) % Size = At(Reading, k - 1)
            BY <2>1, <3>1, AtIs
        <3>4. Reading + (k - 1) = Reading + k - 1 /\ Len(printed) + (k - 1) + 1 = Len(printed) + k
            BY <2>1, <3>1 DEF Index, IInv, TypeOK
        <3> QED
            BY <3>2, <3>3, <3>4
    <2> QED
        BY <2>1, <2>3 DEF Order, InOrder
<1> QED
    BY <1>1, Invariance, PTL

(* What pause is called for: all that was accepted is printed. *)
THEOREM PauseFlushes == Spec => []Flushed
<1>1. IInv => Flushed
    <2> SUFFICES ASSUME IInv, caller = "paused"
                 PROVE  printed = accepted
        BY DEF Flushed
    <2>1. worker = "done" /\ head = tail /\ head \in Index /\ Order
        BY DEF IInv, Sound, Lost, TypeOK, Phase
    <2>2. Pending = 0
        BY <2>1, LogAssumption DEF Pending, Ahead, StopPending, Dist, Index
    <2>3. printed \in Seq(Message \cup {NoMessage}) /\ accepted \in Seq(Message)
        BY DEF IInv, TypeOK
    <2>4. Len(accepted) = Len(printed) /\ \A k \in 1 .. Len(printed) : accepted[k] = printed[k]
        BY <2>1, <2>2, <2>3 DEF Order
    <2> QED
        BY <2>3, <2>4
<1> QED
    BY <1>1, Invariance, PTL

(* While pause waits, the entry that ends the worker is still before the    *)
(* worker, or it has met it: exactly unless pause found the ring full and   *)
(* no flush under way.                                                      *)
THEOREM StopArrives == Spec => []StopSeen
<1>1. ASSUME IInv, overfull
      PROVE  StopSeen
    <2>1. worker \in {"lock", "wait"} /\ head = tail /\ head \in Index
        BY <1>1 DEF IInv, Lost, TypeOK
    <2>2. Unread = {}
        BY <2>1, LogAssumption DEF Unread, Between, Dist, Index
    <2> QED
        BY <1>1, <2>1, <2>2 DEF StopSeen
<1>2. ASSUME IInv, ~overfull
      PROVE  StopSeen
    <2> SUFFICES ASSUME caller = "join", worker # "done", ~(worker = "flush" /\ stop)
                 PROVE  \E i \in Unread : queue[i].is_end
        BY <1>2 DEF StopSeen
    <2> DEFINE d == Ahead
    <2>1. /\ StopPending /\ d # 0 /\ d \in Nat
          /\ Reading \in Index /\ tail \in Index /\ h \in Index /\ end \in Index /\ head \in Index
          /\ Dist(head, h) \in Nat /\ Dist(h, end) \in Nat /\ Dist(end, tail) \in Nat
          /\ Dist(head, tail) \in Index
          /\ Marks /\ Parts
        BY <1>2, AheadIs DEF IInv, Sound, StopPending, Marks
    <2>2. d - 1 \in Index /\ d - 1 < d
        BY <2>1, LogAssumption DEF Index, Ahead, Parts
    <2>3. queue[At(Reading, d - 1)].is_end
        BY <2>1, <2>2 DEF Marks
    <2>4. At(Reading, d - 1) \in Unread
        <3>1. CASE worker # "flush"
            BY <2>1, <2>2, <3>1, LogAssumption DEF Unread, Ahead, Between, Reading, At, Dist, Index
        <3>2. CASE worker = "flush"
            <4>1. Reading = h /\ Unread = Between(h, end) \cup Between(end, tail)
                  /\ d = Dist(h, end) + Dist(end, tail)
                BY <3>2 DEF Reading, Unread, Ahead
            <4> QED
                BY <2>1, <2>2, <4>1, LogAssumption DEF Between, At, Dist, Index
        <3> QED
            BY <3>1, <3>2
    <2> QED
        BY <2>3, <2>4
<1>3. IInv => StopSeen
    BY <1>1, <1>2
<1> QED
    BY <1>3, Invariance, PTL
=============================================================================
