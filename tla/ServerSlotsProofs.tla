-------------------------- MODULE ServerSlotsProofs --------------------------
(***************************************************************************)
(* Requests and slots of the server, proved for any number of slots and    *)
(* whatever requests come, may fail and may leave.                         *)
(***************************************************************************)
EXTENDS ServerSlots, QueueOpsProofs

-----------------------------------------------------------------------------
(* What the settings say does not change.                                   *)

(* A request with its children: every task belongs to one. *)
LEMMA SettingFacts ==
    ASSUME setting \in Settings
    PROVE  /\ Task \subseteq Nat \ {0} /\ Root \subseteq Task
           /\ \E n \in Nat : Task = 1 .. n
           /\ \A t \in Task : /\ Children(t) \subseteq Task \ Root /\ t \in Ids(RootOf(t))
                              /\ RootOf(t) \in Root /\ Ids(t) \subseteq Task
           /\ \A r \in Root : /\ RootOf(r) = r /\ r \notin Children(r)
                              /\ \A t \in Task : t \in Ids(r) <=> RootOf(t) = r
           /\ \A t \in Task \ Root : Kind[t] = "completion" /\ Pin[t] = -1
           /\ \A t \in Task : Kind[t] # "completion" => Children(t) = {} /\ t \in Root
           /\ \A t \in Task : Pin[t] \in Slot \cup {-1} /\ (Kind[t] = "slot_action" => Pin[t] \in Slot)
<1> DEFINE g == setting
           tasks == DOMAIN g.kind
           roots == {t \in tasks : g.parent[t] = 0}
<1>1. /\ g.kind \in Seq({"completion", "slot_action", "metrics"})
      /\ g.pin \in [tasks -> Slot \cup {-1}] /\ g.parent \in [tasks -> roots \cup {0}]
      /\ \A t \in tasks :
            /\ Cardinality({c \in tasks : g.parent[c] = t}) < NSlots
            /\ g.parent[t] # 0 => g.kind[t] = "completion" /\ g.kind[g.parent[t]] = "completion" /\ g.pin[t] = -1
            /\ g.kind[t] = "slot_action" => g.pin[t] \in Slot
  BY ServerAssumption
<1>2. Task = tasks /\ Root = roots /\ Kind = g.kind /\ Parent = g.parent /\ Pin = g.pin
  BY DEF Task, Root, Kind, Parent, Pin
<1>3. PICK n \in Nat : tasks = 1 .. n
  BY <1>1
<1> HIDE DEF g, tasks, roots
<1>4. Task \subseteq Nat \ {0} /\ Root \subseteq Task /\ \A t \in Task : Parent[t] \in Root \cup {0}
  BY <1>1, <1>2, <1>3 DEF roots
<1>5. \A t \in Root : Parent[t] = 0
  BY DEF Root
<1>6. \A t \in Task : t \in Root <=> Parent[t] = 0
  BY DEF Root
<1>7. \A t \in Task : /\ Children(t) \subseteq Task \ Root /\ t \in Ids(RootOf(t))
                      /\ RootOf(t) \in Root /\ Ids(t) \subseteq Task
  BY <1>4, <1>6 DEF Children, Ids, RootOf
<1>8. \A r \in Root : /\ RootOf(r) = r /\ r \notin Children(r)
                      /\ \A t \in Task : t \in Ids(r) <=> RootOf(t) = r
  BY <1>4, <1>6 DEF Children, Ids, RootOf
<1>9. \A t \in Task : Kind[t] # "completion" => Children(t) = {} /\ t \in Root
  BY <1>1, <1>2, <1>4, <1>6 DEF Children
<1> QED BY <1>1, <1>2, <1>3, <1>4, <1>6, <1>7, <1>8, <1>9

(* Nor do the operators that depend on them.                                *)
EntryTypes == {Entry("task", r) : r \in Root} \cup {Entry("cancel", t) : t \in Task} \cup {NextResponse}
States == {"IDLE", "STARTED", "WAIT_OTHER", "PROCESSING_PROMPT", "DONE_PROMPT", "GENERATING"}
SlotTypes == [state : States, task : Task \cup {0}, n_gen : Nat, whole : BOOLEAN]

(* What the settings say is the same after a step. *)
LEMMA SettingFixed ==
    ASSUME setting' = setting
    PROVE  /\ Task' = Task /\ Root' = Root /\ Kind' = Kind /\ Parent' = Parent /\ Pin' = Pin
           /\ EntryTypes' = EntryTypes /\ SlotTypes' = SlotTypes
           /\ \A t : Children(t)' = Children(t) /\ Ids(t)' = Ids(t) /\ RootOf(t)' = RootOf(t)
BY DEF Task, Root, Kind, Parent, Pin, EntryTypes, SlotTypes, Children, Ids, RootOf

-----------------------------------------------------------------------------
(* Deferred tasks that are taken up.                                        *)

(* The two queues p hold what qs and ds hold together, none of it lost or  *)
(* doubled.                                                                 *)
Kept(A, qs, ds, p) ==
    \E q, d \in Seq(A) : /\ p = [queue |-> q, deferred |-> d]
                         /\ \A T : Count(q, T) + Count(d, T) = Count(qs, T) + Count(ds, T)

(* One of the deferred tasks moves. *)
LEMMA PopKeeps ==
    ASSUME NEW A, NEW qs \in Seq(A), NEW ds \in Seq(A), NEW s
    PROVE  Kept(A, qs, ds, PopDeferred([queue |-> qs, deferred |-> ds], s))
<1> DEFINE b == [queue |-> qs, deferred |-> ds]
           match == {i \in DOMAIN ds : IdSlot(ds[i]) = s}
           k == IF match = {} THEN 1 ELSE Min(match)
<1>1. CASE ds = <<>>
  <2>1. PopDeferred(b, s) = b
    BY <1>1 DEF PopDeferred
  <2> QED BY <2>1 DEF Kept
<1>2. CASE ds # <<>>
  <2>1. k \in DOMAIN ds
    <3>1. CASE match = {}
      BY <1>2, <3>1
    <3>2. CASE match # {}
      <4>1. match \subseteq Nat /\ match # {} /\ match \subseteq DOMAIN ds
        BY <3>2
      <4>2. \E x \in match : \A y \in match : x <= y
        BY <4>1, LeastNatural
      <4>3. Min(match) \in match
        BY <4>2 DEF Min
      <4> QED BY <3>2, <4>1, <4>3
    <3> QED BY <3>1, <3>2
  <2>2. PopDeferred(b, s) = [queue |-> <<ds[k]>> \o qs, deferred |-> RemoveAt(ds, k)]
    BY <1>2 DEF PopDeferred
  <2> HIDE DEF b, match, k
  <2>3. ds[k] \in A /\ <<ds[k]>> \in Seq(A) /\ <<ds[k]>> \o qs \in Seq(A)
    BY <2>1
  <2>4. RemoveAt(ds, k) \in Seq(A)
    BY <2>1, CountRemoveAt
  <2>5. ASSUME NEW T
        PROVE  Count(<<ds[k]>> \o qs, T) + Count(RemoveAt(ds, k), T) = Count(qs, T) + Count(ds, T)
    <3>1. Count(ds, T) = Count(RemoveAt(ds, k), T) + (IF ds[k] \in T THEN 1 ELSE 0)
      BY <2>1, CountRemoveAt
    <3>2. PICK e \in Seq(A) : e = <<ds[k]>>
      BY <2>3
    <3>3. Count(e \o qs, T) = Count(e, T) + Count(qs, T)
      BY CountConcat
    <3>4. Count(e, T) = IF ds[k] \in T THEN 1 ELSE 0
      BY <3>2, CountOne
    <3>5. Count(qs, T) \in Nat
      BY CountFinite
    <3>6. Count(RemoveAt(ds, k), T) \in Nat
      <4>1. PICK x \in Seq(A) : x = RemoveAt(ds, k)
        BY <2>4
      <4> QED BY <4>1, CountFinite
    <3> QED BY <3>1, <3>2, <3>3, <3>4, <3>5, <3>6
  <2> QED BY <2>2, <2>3, <2>4, <2>5 DEF b, Kept
<1> QED BY <1>1, <1>2

(* g[n] is what the queues are after the slots below n.                     *)
Popped(g, S, q, n) ==
    g = [i \in 0 .. n |-> IF i = 0 THEN q
                          ELSE IF i - 1 \in S THEN PopDeferred(g[i - 1], i - 1) ELSE g[i - 1]]

(* The queues before the first slot, and from each slot to the next. *)
LEMMA PoppedAt ==
    ASSUME NEW g, NEW S, NEW q, NEW n \in Nat, Popped(g, S, q, n)
    PROVE  /\ g[0] = q
           /\ \A i \in 1 .. n : g[i] = IF i - 1 \in S THEN PopDeferred(g[i - 1], i - 1) ELSE g[i - 1]
<1> DEFINE step(i) == IF i = 0 THEN q ELSE IF i - 1 \in S THEN PopDeferred(g[i - 1], i - 1) ELSE g[i - 1]
<1>1. g = [i \in 0 .. n |-> step(i)]
  BY DEF Popped
<1>2. \A i \in 0 .. n : g[i] = step(i)
  <2> HIDE DEF step
  <2> QED BY <1>1
<1>3. \A i \in 1 .. n : i \in 0 .. n /\ i # 0
  OBVIOUS
<1> QED BY <1>2, <1>3

(* There is such a function. *)
LEMMA PoppedExists ==
    ASSUME NEW S, NEW q, NEW n \in Nat
    PROVE  \E g : Popped(g, S, q, n)
<1> DEFINE N == {m \in Nat : \E g : Popped(g, S, q, m)}
           next(p, m) == IF m \in S THEN PopDeferred(p, m) ELSE p
<1>1. 0 \in N
  <2> DEFINE g == [i \in 0 .. 0 |-> q]
  <2>1. Popped(g, S, q, 0)
    BY DEF Popped
  <2> QED BY <2>1
<1>2. ASSUME NEW m \in Nat, m \in N PROVE m + 1 \in N
  <2>1. PICK g : Popped(g, S, q, m)
    BY <1>2
  <2>2. g[0] = q /\ \A i \in 1 .. m : g[i] = next(g[i - 1], i - 1)
    BY <2>1, PoppedAt
  <2> HIDE DEF next
  <2> DEFINE h == [i \in 0 .. m + 1 |-> IF i = m + 1 THEN next(g[m], m) ELSE g[i]]
  <2>3. \A i \in 0 .. m : h[i] = g[i]
    OBVIOUS
  <2>4. h[m + 1] = next(h[m], m)
    BY <2>3
  <2>5. h[0] = q /\ \A i \in 1 .. m : h[i] = next(h[i - 1], i - 1)
    <3>1. \A i \in 1 .. m : h[i] = g[i] /\ h[i - 1] = g[i - 1]
      BY <2>3
    <3>2. h[0] = g[0]
      BY <2>3
    <3> HIDE DEF h
    <3> QED BY <2>2, <3>1, <3>2
  <2>6. h = [i \in 0 .. m + 1 |-> h[i]]
    OBVIOUS
  <2> HIDE DEF h
  <2>7. \A i \in 0 .. m + 1 : h[i] = IF i = 0 THEN q ELSE next(h[i - 1], i - 1)
    BY <2>4, <2>5
  <2>8. h = [i \in 0 .. m + 1 |-> IF i = 0 THEN q ELSE next(h[i - 1], i - 1)]
    BY <2>6, <2>7
  <2>9. Popped(h, S, q, m + 1)
    BY <2>8 DEF Popped, next
  <2> QED BY <2>9
<1> HIDE DEF N
<1>3. Nat \subseteq N
  BY <1>1, <1>2, Induction
<1> QED BY <1>3 DEF N

(* Whatever slots are released, no task is lost or doubled. *)
LEMMA PopForKeeps ==
    ASSUME NEW A, NEW qs \in Seq(A), NEW ds \in Seq(A), NEW S
    PROVE  Kept(A, qs, ds, PopDeferredFor(S, [queue |-> qs, deferred |-> ds]))
<1> DEFINE b == [queue |-> qs, deferred |-> ds]
           after == CHOOSE g : Popped(g, S, b, NSlots)
           N == {n \in Nat : n <= NSlots => Kept(A, qs, ds, after[n])}
<1>1. NSlots \in Nat
  BY ServerAssumption
<1>2. Popped(after, S, b, NSlots)
  <2> HIDE DEF b
  <2> QED BY <1>1, PoppedExists
<1>3. PopDeferredFor(S, b) = after[NSlots]
  BY DEF PopDeferredFor, Popped
<1> HIDE DEF after
<1>4. after[0] = b
      /\ \A i \in 1 .. NSlots : after[i] = IF i - 1 \in S THEN PopDeferred(after[i - 1], i - 1) ELSE after[i - 1]
  <2> HIDE DEF b
  <2> QED BY <1>1, <1>2, PoppedAt
<1>5. Kept(A, qs, ds, b)
  BY DEF Kept
<1> HIDE DEF b
<1>6. 0 \in N
  BY <1>4, <1>5
<1>7. ASSUME NEW n \in Nat, n \in N, n + 1 <= NSlots PROVE Kept(A, qs, ds, after[n + 1])
  <2>1. Kept(A, qs, ds, after[n])
    BY <1>1, <1>7
  <2>2. PICK q1, d1 \in Seq(A) :
           /\ after[n] = [queue |-> q1, deferred |-> d1]
           /\ \A T : Count(q1, T) + Count(d1, T) = Count(qs, T) + Count(ds, T)
    BY <2>1 DEF Kept
  <2>3. after[n + 1] = IF n \in S THEN PopDeferred(after[n], n) ELSE after[n]
    BY <1>1, <1>4, <1>7
  <2>4. Kept(A, q1, d1, PopDeferred([queue |-> q1, deferred |-> d1], n))
    BY PopKeeps
  <2>5. CASE n \in S
    <3>1. Kept(A, q1, d1, after[n + 1])
      BY <2>2, <2>3, <2>4, <2>5
    <3> QED BY <2>2, <3>1 DEF Kept
  <2>6. CASE n \notin S
    BY <2>1, <2>3, <2>6
  <2> QED BY <2>5, <2>6
<1>8. \A n \in Nat : n \in N => n + 1 \in N
  BY <1>1, <1>7
<1> HIDE DEF N
<1>9. Nat \subseteq N
  BY <1>6, <1>8, Induction
<1>10. Kept(A, qs, ds, after[NSlots])
  BY <1>1, <1>9 DEF N
<1> QED BY <1>3, <1>10 DEF b

-----------------------------------------------------------------------------
(* The queues: what each step moves, takes out or adds.                     *)

QueueTypes ==
    /\ setting \in Settings
    /\ queue_tasks \in Seq(EntryTypes) /\ queue_tasks_deferred \in Seq(EntryTypes)
    /\ queue_tasks_unhandled \in Seq(EntryTypes)
    /\ taken = <<>> \/ \E e \in EntryTypes : taken = <<e>>
    /\ taken_yield = <<>> \/ \E e \in EntryTypes : taken_yield = <<e>>

(* How many entries of T are in the queues and in the threads' hands.       *)
Total(T) ==
    Count(queue_tasks, T) + Count(queue_tasks_deferred, T) + Count(queue_tasks_unhandled, T)
    + Count(taken, T) + Count(taken_yield, T)

(* The entries are counted in the queues and in the threads' hands, in numbers. *)
LEMMA TotalIs ==
    ASSUME QueueTypes, NEW T
    PROVE  /\ Total(T) = Count(Entries, T)
           /\ Count(queue_tasks, T) \in Nat /\ Count(queue_tasks_deferred, T) \in Nat
           /\ Count(queue_tasks_unhandled, T) \in Nat
           /\ Count(taken, T) \in Nat /\ Count(taken_yield, T) \in Nat /\ Total(T) \in Nat
           /\ taken \in Seq(EntryTypes) /\ taken_yield \in Seq(EntryTypes)
           /\ Entries \in Seq(EntryTypes)
<1>1. taken \in Seq(EntryTypes)
  <2>1. CASE taken = <<>>
    BY <2>1
  <2>2. CASE \E e \in EntryTypes : taken = <<e>>
    BY <2>2
  <2> QED BY <2>1, <2>2 DEF QueueTypes
<1>2. taken_yield \in Seq(EntryTypes)
  <2>1. CASE taken_yield = <<>>
    BY <2>1
  <2>2. CASE \E e \in EntryTypes : taken_yield = <<e>>
    BY <2>2
  <2> QED BY <2>1, <2>2 DEF QueueTypes
<1>3. \A p, q \in Seq(EntryTypes) : p \o q \in Seq(EntryTypes) /\ Count(p \o q, T) = Count(p, T) + Count(q, T)
  <2>1. \A p, q \in Seq(EntryTypes) : p \o q \in Seq(EntryTypes)
    OBVIOUS
  <2> QED BY <2>1, CountConcat
<1>4. \A p \in Seq(EntryTypes) : Count(p, T) \in Nat
  BY CountFinite
<1>5. PICK a \in Seq(EntryTypes) : a = queue_tasks \o queue_tasks_deferred
  BY <1>3 DEF QueueTypes
<1>6. PICK b \in Seq(EntryTypes) : b = a \o queue_tasks_unhandled
  BY <1>3 DEF QueueTypes
<1>7. PICK c \in Seq(EntryTypes) : c = b \o taken
  BY <1>1, <1>3
<1>8. Entries = c \o taken_yield
  BY <1>5, <1>6, <1>7 DEF Entries
<1>9. /\ Count(a, T) = Count(queue_tasks, T) + Count(queue_tasks_deferred, T)
      /\ Count(b, T) = Count(a, T) + Count(queue_tasks_unhandled, T)
      /\ Count(c, T) = Count(b, T) + Count(taken, T)
      /\ Count(Entries, T) = Count(c, T) + Count(taken_yield, T)
  BY <1>1, <1>2, <1>3, <1>5, <1>6, <1>7, <1>8 DEF QueueTypes
<1>10. /\ Count(queue_tasks, T) \in Nat /\ Count(queue_tasks_deferred, T) \in Nat
       /\ Count(queue_tasks_unhandled, T) \in Nat
       /\ Count(taken, T) \in Nat /\ Count(taken_yield, T) \in Nat
  BY <1>1, <1>2, <1>4 DEF QueueTypes
<1>11. Entries \in Seq(EntryTypes)
  BY <1>2, <1>3, <1>8
<1>12. Total(T) = Count(Entries, T) /\ Total(T) \in Nat
  BY <1>9, <1>10 DEF Total
<1> QED BY <1>1, <1>2, <1>10, <1>11, <1>12

(* All entries but NEXT_RESPONSE stay, somewhere.                           *)
Moved == QueueTypes' /\ \A T : NextResponse \notin T => Total(T)' = Total(T)

(* All but one, which a thread has had in its hands.                        *)
Consumed(q) ==
    /\ QueueTypes'
    /\ \E e \in EntryTypes : /\ q = <<e>>
                             /\ \A T : NextResponse \notin T => Total(T)' = Total(T) - (IF e \in T THEN 1 ELSE 0)

(* Slots that are released take up deferred tasks; none is lost or doubled. *)
LEMMA ReleaseKeeps ==
    ASSUME QueueTypes, NEW S, Release(S)
    PROVE  /\ queue_tasks' \in Seq(EntryTypes) /\ queue_tasks_deferred' \in Seq(EntryTypes)
           /\ \A T : Count(queue_tasks', T) + Count(queue_tasks_deferred', T)
                     = Count(queue_tasks, T) + Count(queue_tasks_deferred, T)
<1>1. PICK q \in Seq(EntryTypes) : q = queue_tasks
  BY DEF QueueTypes
<1>2. PICK d \in Seq(EntryTypes) : d = queue_tasks_deferred
  BY DEF QueueTypes
<1>3. Kept(EntryTypes, q, d, PopDeferredFor(S, [queue |-> q, deferred |-> d]))
  BY PopForKeeps
<1> QED BY <1>1, <1>2, <1>3 DEF Release, Kept

(* Steps that leave the queues alone. *)
LEMMA QueuesAlone ==
    ASSUME QueueTypes, setting' = setting, UNCHANGED <<queues, taken, taken_yield>>
    PROVE  Moved
BY SettingFixed DEF QueueTypes, Moved, Total, queues

(* Every count is a number. *)
LEMMA EntryCounts ==
    ASSUME QueueTypes
    PROVE  \A T : /\ Total(T) \in Nat
                  /\ Count(queue_tasks, T) \in Nat /\ Count(queue_tasks_deferred, T) \in Nat
                  /\ Count(queue_tasks_unhandled, T) \in Nat
                  /\ Count(taken, T) \in Nat /\ Count(taken_yield, T) \in Nat
BY TotalIs

(* Taking a task off the queue, on either thread. *)
LEMMA TakeMoves ==
    ASSUME QueueTypes, setting' = setting, TakeTask \/ YieldTake
    PROVE  Moved
<1> USE DEF queues
<1>1. EntryTypes' = EntryTypes
  BY SettingFixed
<1>2. queue_tasks # <<>> /\ queue_tasks' = Tail(queue_tasks)
  BY DEF TakeTask, YieldTake
<1>3. /\ Head(queue_tasks) \in EntryTypes /\ Tail(queue_tasks) \in Seq(EntryTypes)
      /\ \A T : Count(queue_tasks, T) = Count(<<Head(queue_tasks)>>, T) + Count(Tail(queue_tasks), T)
  <2>1. queue_tasks \in Seq(EntryTypes)
    BY DEF QueueTypes
  <2> QED BY <1>2, <2>1, CountHead
<1>4. QueueTypes'
  BY <1>1, <1>2, <1>3 DEF QueueTypes, TakeTask, YieldTake
<1>5. ASSUME NEW T PROVE Total(T)' = Total(T)
  <2>1. Count(<<>>, T) = 0
    BY CountEmpty
  <2>2. Count(queue_tasks, T) = Count(<<Head(queue_tasks)>>, T) + Count(queue_tasks', T)
    BY <1>2, <1>3
  <2>3. Count(queue_tasks, T) \in Nat /\ Count(queue_tasks', T) \in Nat /\ Count(<<Head(queue_tasks)>>, T) \in Nat
        /\ Count(queue_tasks_deferred, T) \in Nat /\ Count(queue_tasks_unhandled, T) \in Nat
        /\ Count(taken, T) \in Nat /\ Count(taken_yield, T) \in Nat
    <3>1. Count(queue_tasks', T) \in Nat
      BY <1>4, CountFinite DEF QueueTypes
    <3>2. Count(<<Head(queue_tasks)>>, T) \in Nat
      BY CountOne
    <3> QED BY <3>1, <3>2, EntryCounts
  <2>4. CASE TakeTask
    BY <2>1, <2>2, <2>3, <2>4 DEF TakeTask, Total
  <2>5. CASE YieldTake
    BY <2>1, <2>2, <2>3, <2>5 DEF YieldTake, Total
  <2> QED BY <2>4, <2>5
<1> QED BY <1>4, <1>5 DEF Moved

(* What a thread has in its hands goes to the end of a queue. *)
LEMMA PutMoves ==
    ASSUME QueueTypes, setting' = setting, NEW e \in EntryTypes, UNCHANGED queue_tasks,
           \/ /\ taken = <<e>> /\ taken' = <<>> /\ queue_tasks_deferred' = Append(queue_tasks_deferred, e)
              /\ UNCHANGED <<queue_tasks_unhandled, taken_yield>>
           \/ /\ taken_yield = <<e>> /\ taken_yield' = <<>>
              /\ queue_tasks_unhandled' = Append(queue_tasks_unhandled, e)
              /\ UNCHANGED <<queue_tasks_deferred, taken>>
    PROVE  Moved
<1>1. EntryTypes' = EntryTypes
  BY SettingFixed
<1>2. \A q \in Seq(EntryTypes) : Append(q, e) \in Seq(EntryTypes)
  OBVIOUS
<1>3. QueueTypes'
  BY <1>1, <1>2 DEF QueueTypes
<1>4. ASSUME NEW T PROVE Total(T)' = Total(T)
  <2>1. Count(<<>>, T) = 0 /\ Count(<<e>>, T) = IF e \in T THEN 1 ELSE 0
    BY CountEmpty, CountOne
  <2>2. \A q \in Seq(EntryTypes) : Count(Append(q, e), T) = Count(q, T) + (IF e \in T THEN 1 ELSE 0)
    BY CountAppend
  <2>3. /\ Count(Append(queue_tasks_deferred, e), T) = Count(queue_tasks_deferred, T) + (IF e \in T THEN 1 ELSE 0)
        /\ Count(Append(queue_tasks_unhandled, e), T) = Count(queue_tasks_unhandled, T) + (IF e \in T THEN 1 ELSE 0)
    BY <2>2 DEF QueueTypes
  <2>4. Count(queue_tasks, T) \in Nat /\ Count(queue_tasks_deferred, T) \in Nat
        /\ Count(queue_tasks_unhandled, T) \in Nat
        /\ Count(taken, T) \in Nat /\ Count(taken_yield, T) \in Nat
    BY EntryCounts
  <2>5. CASE taken = <<e>> /\ taken' = <<>>
    <3>1. Count(taken, T) = (IF e \in T THEN 1 ELSE 0) /\ Count(taken', T) = 0
      BY <2>1, <2>5
    <3>2. queue_tasks_deferred' = Append(queue_tasks_deferred, e)
          /\ UNCHANGED <<queue_tasks, queue_tasks_unhandled, taken_yield>>
      BY <2>5
    <3> QED BY <2>3, <2>4, <3>1, <3>2 DEF Total
  <2>6. CASE taken_yield = <<e>> /\ taken_yield' = <<>>
    <3>1. Count(taken_yield, T) = (IF e \in T THEN 1 ELSE 0) /\ Count(taken_yield', T) = 0
      BY <2>1, <2>6
    <3>2. queue_tasks_unhandled' = Append(queue_tasks_unhandled, e)
          /\ UNCHANGED <<queue_tasks, queue_tasks_deferred, taken>>
      BY <2>6
    <3> QED BY <2>3, <2>4, <3>1, <3>2 DEF Total
  <2> QED BY <2>5, <2>6
<1> QED BY <1>3, <1>4 DEF Moved

(* Slots are released; the task in the main thread's hands may be done with. *)
LEMMA ReleaseMoves ==
    ASSUME QueueTypes, setting' = setting, NEW S, Release(S) \/ UNCHANGED <<queue_tasks, queue_tasks_deferred>>,
           UNCHANGED <<queue_tasks_unhandled, taken_yield>>
    PROVE  /\ taken' = taken => Moved
           /\ taken # <<>> /\ taken' = <<>> => Consumed(taken)
<1>1. EntryTypes' = EntryTypes
  BY SettingFixed
<1>2. /\ queue_tasks' \in Seq(EntryTypes) /\ queue_tasks_deferred' \in Seq(EntryTypes)
      /\ \A T : Count(queue_tasks', T) + Count(queue_tasks_deferred', T)
                = Count(queue_tasks, T) + Count(queue_tasks_deferred, T)
  <2>1. CASE Release(S)
    BY <2>1, ReleaseKeeps
  <2>2. CASE UNCHANGED <<queue_tasks, queue_tasks_deferred>>
    BY <2>2 DEF QueueTypes
  <2> QED BY <2>1, <2>2
<1>3. ASSUME NEW T
      PROVE  /\ Total(T)' = Count(queue_tasks', T) + Count(queue_tasks_deferred', T)
                            + Count(queue_tasks_unhandled, T) + Count(taken', T) + Count(taken_yield, T)
             /\ Count(queue_tasks', T) \in Nat /\ Count(queue_tasks_deferred', T) \in Nat
             /\ Count(queue_tasks, T) \in Nat /\ Count(queue_tasks_deferred, T) \in Nat
             /\ Count(queue_tasks_unhandled, T) \in Nat
             /\ Count(taken, T) \in Nat /\ Count(taken_yield, T) \in Nat
  <2>1. \A q \in Seq(EntryTypes) : Count(q, T) \in Nat
    BY CountFinite
  <2> QED BY <1>2, <2>1, EntryCounts DEF Total
<1>4. ASSUME taken' = taken PROVE Moved
  <2>1. QueueTypes'
    BY <1>1, <1>2, <1>4 DEF QueueTypes
  <2>2. ASSUME NEW T PROVE Total(T)' = Total(T)
    <3>1. Count(queue_tasks', T) + Count(queue_tasks_deferred', T)
          = Count(queue_tasks, T) + Count(queue_tasks_deferred, T)
      BY <1>2
    <3> QED BY <1>3, <1>4, <3>1 DEF Total
  <2> QED BY <2>1, <2>2 DEF Moved
<1>5. ASSUME taken # <<>>, taken' = <<>> PROVE Consumed(taken)
  <2>1. QueueTypes'
    BY <1>1, <1>2, <1>5 DEF QueueTypes
  <2>2. PICK e \in EntryTypes : taken = <<e>>
    BY <1>5 DEF QueueTypes
  <2>3. ASSUME NEW T PROVE Total(T)' = Total(T) - (IF e \in T THEN 1 ELSE 0)
    <3>1. Count(queue_tasks', T) + Count(queue_tasks_deferred', T)
          = Count(queue_tasks, T) + Count(queue_tasks_deferred, T)
      BY <1>2
    <3>2. Count(taken', T) = 0 /\ Count(taken, T) = (IF e \in T THEN 1 ELSE 0)
      BY <1>5, <2>2, CountEmpty, CountOne
    <3> QED BY <1>3, <3>1, <3>2 DEF Total
  <2> QED BY <2>1, <2>2, <2>3 DEF Consumed
<1> QED BY <1>4, <1>5

(* The worker answers what it has in its hands. *)
LEMMA AnswerConsumes ==
    ASSUME QueueTypes, setting' = setting, UNCHANGED <<queues, taken>>, taken_yield # <<>>, taken_yield' = <<>>
    PROVE  Consumed(taken_yield)
<1>1. EntryTypes' = EntryTypes
  BY SettingFixed
<1>2. PICK e \in EntryTypes : taken_yield = <<e>>
  BY DEF QueueTypes
<1>3. QueueTypes'
  BY <1>1 DEF QueueTypes, queues
<1>4. ASSUME NEW T PROVE Total(T)' = Total(T) - (IF e \in T THEN 1 ELSE 0)
  <2>1. Count(taken_yield', T) = 0 /\ Count(taken_yield, T) = (IF e \in T THEN 1 ELSE 0)
    BY <1>2, CountEmpty, CountOne
  <2>2. /\ Count(queue_tasks, T) \in Nat /\ Count(queue_tasks_deferred, T) \in Nat
        /\ Count(queue_tasks_unhandled, T) \in Nat /\ Count(taken, T) \in Nat
    BY EntryCounts
  <2> QED BY <2>1, <2>2 DEF Total, queues
<1> QED BY <1>2, <1>3, <1>4 DEF Consumed

(* What was set aside goes back in front, and slots may be released. *)
LEMMA PutBackMoves ==
    ASSUME QueueTypes, setting' = setting, UNCHANGED <<taken, taken_yield>>, queue_tasks_unhandled' = <<>>,
           \/ queue_tasks' = queue_tasks_unhandled \o queue_tasks /\ UNCHANGED queue_tasks_deferred
           \/ \E S : LET q == PopDeferredFor(S, [queue    |-> queue_tasks_unhandled \o queue_tasks,
                                                 deferred |-> queue_tasks_deferred])
                     IN  queue_tasks' = q.queue /\ queue_tasks_deferred' = q.deferred
    PROVE  Moved
<1>1. EntryTypes' = EntryTypes
  BY SettingFixed
<1>2. PICK q \in Seq(EntryTypes) : q = queue_tasks_unhandled \o queue_tasks
  <2>1. \A a, b \in Seq(EntryTypes) : a \o b \in Seq(EntryTypes)
    OBVIOUS
  <2> QED BY <2>1 DEF QueueTypes
<1>3. PICK d \in Seq(EntryTypes) : d = queue_tasks_deferred
  BY DEF QueueTypes
<1>4. ASSUME NEW T
      PROVE  /\ Count(q, T) = Count(queue_tasks_unhandled, T) + Count(queue_tasks, T)
             /\ Count(q, T) \in Nat /\ Count(d, T) \in Nat
  <2>1. \A a, b \in Seq(EntryTypes) : Count(a \o b, T) = Count(a, T) + Count(b, T)
    BY CountConcat
  <2>2. \A a \in Seq(EntryTypes) : Count(a, T) \in Nat
    BY CountFinite
  <2> QED BY <1>2, <2>1, <2>2 DEF QueueTypes
<1>5. /\ queue_tasks' \in Seq(EntryTypes) /\ queue_tasks_deferred' \in Seq(EntryTypes)
      /\ \A T : Count(queue_tasks', T) + Count(queue_tasks_deferred', T) = Count(q, T) + Count(d, T)
  <2>1. CASE queue_tasks' = queue_tasks_unhandled \o queue_tasks /\ UNCHANGED queue_tasks_deferred
    BY <1>2, <1>3, <2>1
  <2>2. ASSUME NEW S, LET p == PopDeferredFor(S, [queue |-> q, deferred |-> d])
                      IN  queue_tasks' = p.queue /\ queue_tasks_deferred' = p.deferred
        PROVE  /\ queue_tasks' \in Seq(EntryTypes) /\ queue_tasks_deferred' \in Seq(EntryTypes)
               /\ \A T : Count(queue_tasks', T) + Count(queue_tasks_deferred', T) = Count(q, T) + Count(d, T)
    <3>1. Kept(EntryTypes, q, d, PopDeferredFor(S, [queue |-> q, deferred |-> d]))
      BY PopForKeeps
    <3> QED BY <2>2, <3>1 DEF Kept
  <2> QED BY <1>2, <1>3, <2>1, <2>2
<1>6. QueueTypes'
  BY <1>1, <1>5 DEF QueueTypes
<1>7. ASSUME NEW T PROVE Total(T)' = Total(T)
  <2>1. Count(queue_tasks', T) + Count(queue_tasks_deferred', T) = Count(q, T) + Count(d, T)
    BY <1>5
  <2>2. Count(queue_tasks_unhandled', T) = 0
    BY CountEmpty
  <2>3. /\ Count(queue_tasks, T) \in Nat /\ Count(queue_tasks_deferred, T) \in Nat
        /\ Count(queue_tasks_unhandled, T) \in Nat /\ Count(taken, T) \in Nat /\ Count(taken_yield, T) \in Nat
    BY EntryCounts
  <2>4. Count(queue_tasks', T) \in Nat /\ Count(queue_tasks_deferred', T) \in Nat
    BY <1>5, CountFinite
  <2> QED BY <1>3, <1>4, <2>1, <2>2, <2>3, <2>4 DEF Total
<1> QED BY <1>6, <1>7 DEF Moved

(* NEXT_RESPONSE comes and goes. *)
LEMMA NextMoves ==
    ASSUME QueueTypes, setting' = setting, UpdateSlots \/ HandleNextResponse
    PROVE  Moved
<1> USE DEF queues
<1>1. EntryTypes' = EntryTypes /\ NextResponse \in EntryTypes
  BY SettingFixed DEF EntryTypes
<1>2. <<NextResponse>> \in Seq(EntryTypes)
  BY <1>1
<1>3. QueueTypes'
  BY <1>1, <1>2 DEF QueueTypes, UpdateSlots, HandleNextResponse
<1>4. ASSUME NEW T, NextResponse \notin T PROVE Total(T)' = Total(T)
  <2>1. Count(<<NextResponse>>, T) = 0 /\ Count(<<>>, T) = 0
    BY <1>4, CountOne, CountEmpty
  <2> QED BY <2>1 DEF Total, UpdateSlots, HandleNextResponse
<1> QED BY <1>3, <1>4 DEF Moved

(* A request is posted. *)
LEMMA PostAdds ==
    ASSUME QueueTypes, setting' = setting, NEW r \in Root, PostTasks(r)
    PROVE  /\ QueueTypes'
           /\ \A T : Total(T)' = Total(T) + (IF Entry("task", r) \in T THEN 1 ELSE 0)
<1> DEFINE e == Entry("task", r)
<1>1. EntryTypes' = EntryTypes /\ e \in EntryTypes
  BY SettingFixed DEF EntryTypes
<1> HIDE DEF e
<1>2. \A q \in Seq(EntryTypes) : Append(q, e) \in Seq(EntryTypes)
  BY <1>1
<1>3. queue_tasks' = Append(queue_tasks, e)
      /\ UNCHANGED <<queue_tasks_deferred, queue_tasks_unhandled, taken, taken_yield>>
  BY DEF PostTasks, e
<1>4. QueueTypes'
  BY <1>1, <1>2, <1>3 DEF QueueTypes
<1>5. ASSUME NEW T PROVE Total(T)' = Total(T) + (IF e \in T THEN 1 ELSE 0)
  <2>1. \A q \in Seq(EntryTypes) : Count(Append(q, e), T) = Count(q, T) + (IF e \in T THEN 1 ELSE 0)
    BY <1>1, CountAppend
  <2>2. Count(queue_tasks', T) = Count(queue_tasks, T) + (IF e \in T THEN 1 ELSE 0)
    BY <1>3, <2>1 DEF QueueTypes
  <2>3. /\ Count(queue_tasks, T) \in Nat /\ Count(queue_tasks_deferred, T) \in Nat
        /\ Count(queue_tasks_unhandled, T) \in Nat /\ Count(taken, T) \in Nat /\ Count(taken_yield, T) \in Nat
    BY EntryCounts
  <2> QED BY <1>3, <2>2, <2>3 DEF Total
<1> QED BY <1>4, <1>5 DEF e

(* A request is cancelled: its tasks leave the queues. *)
LEMMA CancelTakesOut ==
    ASSUME QueueTypes, setting' = setting, NEW r \in Root, Cancel(r)
    PROVE  /\ QueueTypes'
           /\ \A T : (\A t \in Ids(r) : Entry("cancel", t) \notin T)
                        => Total(T)' <= Total(T) /\ (T \cap TaskEntries(Ids(r)) = {} => Total(T)' = Total(T))
<1> DEFINE ids == TasksInOrder(Ids(r))
           cancels == [i \in DOMAIN ids |-> Entry("cancel", ids[i])]
           out == TaskEntries(Ids(r))
<1>1. EntryTypes' = EntryTypes
  BY SettingFixed
<1>2. ids \in Seq(Ids(r)) /\ Ids(r) \subseteq Task
  <2>1. Ids(r) \subseteq Task /\ \E n \in Nat : Task = 1 .. n
    BY SettingFacts DEF QueueTypes
  <2>2. PICK q \in Seq(Task) : q = [t \in Task |-> t]
    <3>1. [t \in Task |-> t] \in Seq(Task)
      BY <2>1
    <3> QED BY <3>1
  <2>3. Select(q, Ids(r)) \in Seq(Task \cap Ids(r)) /\ Task \cap Ids(r) = Ids(r)
    BY <2>1, SelectType
  <2> QED BY <2>1, <2>2, <2>3 DEF TasksInOrder
<1> HIDE DEF ids
<1>3. cancels \in Seq(EntryTypes) /\ \A i \in DOMAIN cancels : \E t \in Ids(r) : cancels[i] = Entry("cancel", t)
  <2>1. \A i \in DOMAIN ids : ids[i] \in Ids(r)
    BY <1>2
  <2>2. \A i \in DOMAIN ids : Entry("cancel", ids[i]) \in EntryTypes
    BY <1>2, <2>1 DEF EntryTypes
  <2>3. PICK n \in Nat : DOMAIN ids = 1 .. n
    BY <1>2
  <2> QED BY <2>1, <2>2, <2>3
<1>4. /\ queue_tasks' = cancels \o Without(queue_tasks, out)
      /\ queue_tasks_deferred' = Without(queue_tasks_deferred, out)
      /\ queue_tasks_unhandled' = Without(queue_tasks_unhandled, out)
      /\ UNCHANGED <<taken, taken_yield>>
  BY DEF Cancel, ids
<1> HIDE DEF cancels, out
<1>5. /\ Without(queue_tasks, out) \in Seq(EntryTypes) /\ Without(queue_tasks_deferred, out) \in Seq(EntryTypes)
      /\ Without(queue_tasks_unhandled, out) \in Seq(EntryTypes)
      /\ \A T : /\ Count(Without(queue_tasks, out), T) = Count(queue_tasks, T \ out)
                /\ Count(Without(queue_tasks_deferred, out), T) = Count(queue_tasks_deferred, T \ out)
                /\ Count(Without(queue_tasks_unhandled, out), T) = Count(queue_tasks_unhandled, T \ out)
  <2>1. ASSUME NEW q \in Seq(EntryTypes)
        PROVE  /\ Without(q, out) \in Seq(EntryTypes)
               /\ \A T : Count(Without(q, out), T) = Count(q, T \ out)
    <3>1. Without(q, out) \in Seq(EntryTypes)
      BY CountWithout
    <3>2. ASSUME NEW T PROVE Count(Without(q, out), T) = Count(q, T \ out)
      BY CountWithout
    <3> QED BY <3>1, <3>2
  <2> QED BY <2>1 DEF QueueTypes
<1>6. PICK q \in Seq(EntryTypes) : q = Without(queue_tasks, out)
  BY <1>5
<1>7. queue_tasks' \in Seq(EntryTypes)
  <2>1. cancels \o q \in Seq(EntryTypes)
    BY <1>3
  <2> QED BY <1>4, <1>6, <2>1
<1>8. QueueTypes'
  BY <1>1, <1>4, <1>5, <1>7 DEF QueueTypes
<1>9. ASSUME NEW T, \A t \in Ids(r) : Entry("cancel", t) \notin T
      PROVE  Total(T)' <= Total(T) /\ (T \cap out = {} => Total(T)' = Total(T))
  <2>1. Count(cancels, T) = 0
    BY <1>3, <1>9, CountZero
  <2>2. Count(cancels \o q, T) = Count(cancels, T) + Count(q, T)
    BY <1>3, CountConcat
  <2>3. Count(q, T) \in Nat
    BY CountFinite
  <2>4. Count(queue_tasks', T) = Count(queue_tasks, T \ out)
    BY <1>4, <1>5, <1>6, <2>1, <2>2, <2>3
  <2>5. \A p \in Seq(EntryTypes) : Count(p, T \ out) <= Count(p, T) /\ Count(p, T) \in Nat /\ Count(p, T \ out) \in Nat
    BY CountMore, CountFinite
  <2>6. /\ Count(queue_tasks, T \ out) <= Count(queue_tasks, T)
        /\ Count(queue_tasks_deferred, T \ out) <= Count(queue_tasks_deferred, T)
        /\ Count(queue_tasks_unhandled, T \ out) <= Count(queue_tasks_unhandled, T)
        /\ Count(queue_tasks, T) \in Nat /\ Count(queue_tasks_deferred, T) \in Nat
        /\ Count(queue_tasks_unhandled, T) \in Nat /\ Count(taken, T) \in Nat /\ Count(taken_yield, T) \in Nat
        /\ Count(queue_tasks, T \ out) \in Nat /\ Count(queue_tasks_deferred, T \ out) \in Nat
        /\ Count(queue_tasks_unhandled, T \ out) \in Nat
    BY <2>5, EntryCounts DEF QueueTypes
  <2>7. Total(T)' = Count(queue_tasks, T \ out) + Count(queue_tasks_deferred, T \ out)
                    + Count(queue_tasks_unhandled, T \ out) + Count(taken, T) + Count(taken_yield, T)
    BY <1>4, <1>5, <2>4 DEF Total
  <2>8. Total(T)' <= Total(T)
    BY <2>6, <2>7 DEF Total
  <2>9. ASSUME T \cap out = {} PROVE Total(T)' = Total(T)
    <3>1. T \ out = T
      BY <2>9
    <3> QED BY <2>7, <3>1 DEF Total
  <2> QED BY <2>8, <2>9
<1> QED BY <1>8, <1>9 DEF out

-----------------------------------------------------------------------------
(* The queues, step by step of the threads.                                 *)

(* Steps that keep every task where some thread will find it. *)
LEMMA StepMoves ==
    ASSUME QueueTypes, setting' = setting,
           \/ TakeTask \/ YieldTake \/ HandleDefer \/ HandleNextResponse \/ UpdateSlots
           \/ PreDecode \/ Decode \/ DecodeFails \/ AbortAll \/ PostDecode \/ Wake
           \/ HandleSlotAction /\ Processing(Pin[taken[1].id])
           \/ YieldHandle /\ ~IsMetrics(taken_yield[1])
    PROVE  Moved
<1>1. CASE TakeTask \/ YieldTake
  BY <1>1, TakeMoves
<1>2. CASE HandleNextResponse \/ UpdateSlots
  BY <1>2, NextMoves
<1>3. ASSUME taken # <<>>, taken' = <<>>, Defer(taken[1]), UNCHANGED <<queue_tasks_unhandled, taken_yield>>
      PROVE  Moved
  <2>1. PICK e \in EntryTypes : taken = <<e>>
    BY <1>3 DEF QueueTypes
  <2>2. taken[1] = e
    BY <2>1
  <2>3. UNCHANGED queue_tasks /\ queue_tasks_deferred' = Append(queue_tasks_deferred, e)
    BY <1>3, <2>2 DEF Defer
  <2> QED BY <1>3, <2>1, <2>3, PutMoves
<1>4. CASE HandleDefer
  BY <1>3, <1>4 DEF HandleDefer, Taken
<1>5. CASE HandleSlotAction /\ Processing(Pin[taken[1].id])
  BY <1>3, <1>5 DEF HandleSlotAction, Taken
<1>6. CASE YieldHandle /\ ~IsMetrics(taken_yield[1])
  <2>1. PICK e \in EntryTypes : taken_yield = <<e>>
    BY <1>6 DEF QueueTypes, YieldHandle
  <2>2. taken_yield[1] = e
    BY <2>1
  <2>3. /\ taken_yield' = <<>> /\ queue_tasks_unhandled' = Append(queue_tasks_unhandled, e)
        /\ UNCHANGED <<queue_tasks, queue_tasks_deferred, taken>>
    BY <1>6, <2>2 DEF YieldHandle
  <2> QED BY <2>1, <2>3, PutMoves
<1>7. CASE PreDecode
  <2>1. \E S : Release(S)
    BY <1>7 DEF PreDecode
  <2>2. UNCHANGED <<queue_tasks_unhandled, taken, taken_yield>>
    BY <1>7 DEF PreDecode
  <2> QED BY <2>1, <2>2, ReleaseMoves
<1>8. CASE AbortAll
  <2>1. \E S : Release(S)
    BY <1>8 DEF AbortAll
  <2>2. UNCHANGED <<queue_tasks_unhandled, taken, taken_yield>>
    BY <1>8 DEF AbortAll
  <2> QED BY <2>1, <2>2, ReleaseMoves
<1>9. CASE PostDecode
  <2>1. \E S : Release(S)
    BY <1>9 DEF PostDecode
  <2>2. UNCHANGED <<queue_tasks_unhandled, taken, taken_yield>>
    BY <1>9 DEF PostDecode
  <2> QED BY <2>1, <2>2, ReleaseMoves
<1>10. CASE Decode
  BY <1>10, PutBackMoves DEF Decode, YieldEnd
<1>11. CASE DecodeFails
  <2>1. queue_tasks_unhandled' = <<>> /\ UNCHANGED <<taken, taken_yield>>
    BY <1>11 DEF DecodeFails
  <2>2. \E S : LET q == PopDeferredFor(S, [queue    |-> queue_tasks_unhandled \o queue_tasks,
                                           deferred |-> queue_tasks_deferred])
               IN  queue_tasks' = q.queue /\ queue_tasks_deferred' = q.deferred
    BY <1>11 DEF DecodeFails
  <2> QED BY <2>1, <2>2, PutBackMoves
<1>12. CASE Wake
  BY <1>12, QueuesAlone DEF Wake
<1> QED BY <1>1, <1>2, <1>4, <1>5, <1>6, <1>7, <1>8, <1>9, <1>10, <1>11, <1>12

(* Steps that are done with the task that a thread has in its hands. *)
LEMMA StepConsumes ==
    ASSUME QueueTypes, setting' = setting
    PROVE  /\ \/ HandleLaunch \/ HandleLaunchFails \/ HandleMetrics \/ HandleCancel
              \/ HandleSlotAction /\ ~Processing(Pin[taken[1].id])
              => Consumed(taken)
           /\ YieldHandle /\ IsMetrics(taken_yield[1]) => Consumed(taken_yield)
<1>1. ASSUME NEW S, Release(S) \/ UNCHANGED <<queue_tasks, queue_tasks_deferred>>,
             UNCHANGED <<queue_tasks_unhandled, taken_yield>>, taken # <<>>, taken' = <<>>
      PROVE  Consumed(taken)
  BY <1>1, ReleaseMoves
<1>2. ASSUME HandleLaunch PROVE Consumed(taken)
  BY <1>1, <1>2 DEF HandleLaunch, Taken
<1>3. ASSUME HandleLaunchFails PROVE Consumed(taken)
  <2>1. \E S : Release(S)
    BY <1>3 DEF HandleLaunchFails
  <2> QED BY <1>1, <1>3, <2>1 DEF HandleLaunchFails, Taken
<1>4. ASSUME HandleMetrics PROVE Consumed(taken)
  BY <1>1, <1>4 DEF HandleMetrics, Taken
<1>5. ASSUME HandleCancel PROVE Consumed(taken)
  BY <1>1, <1>5 DEF HandleCancel
<1>6. ASSUME HandleSlotAction, ~Processing(Pin[taken[1].id]) PROVE Consumed(taken)
  BY <1>1, <1>6 DEF HandleSlotAction, Taken
<1>7. ASSUME YieldHandle, IsMetrics(taken_yield[1]) PROVE Consumed(taken_yield)
  BY <1>7, AnswerConsumes DEF YieldHandle, queues
<1> QED BY <1>2, <1>3, <1>4, <1>5, <1>6, <1>7

-----------------------------------------------------------------------------
(* The slots.                                                               *)

(* The slots of a set, each once. *)
LEMMA SlotsOrdered ==
    ASSUME NEW S
    PROVE  /\ SlotsInOrder(S) \in Seq(Slot) /\ Distinct(SlotsInOrder(S))
           /\ Range(SlotsInOrder(S)) = S \cap Slot
<1> DEFINE q == Select([i \in 1 .. NSlots |-> i + (0 - 1)], S)
<1>1. NSlots \in Nat
  BY ServerAssumption
<1>2. 0 - 1 \in Int
  OBVIOUS
<1>3. /\ q \in Seq(Int) /\ Distinct(q)
      /\ Range(q) = {x \in S : \E i \in 1 .. NSlots : x = i + (0 - 1)}
  BY <1>1, <1>2, SelectNumbers
<1>4. [i \in 1 .. NSlots |-> i - 1] = [i \in 1 .. NSlots |-> i + (0 - 1)]
  BY <1>1
<1>5. SlotsInOrder(S) = q
  BY <1>4 DEF SlotsInOrder
<1>6. {x \in S : \E i \in 1 .. NSlots : x = i + (0 - 1)} = S \cap Slot
  <2>1. \A i \in 1 .. NSlots : i + (0 - 1) \in Slot
    BY <1>1 DEF Slot
  <2>2. \A x \in Slot : x + 1 \in 1 .. NSlots /\ x = (x + 1) + (0 - 1)
    BY <1>1 DEF Slot
  <2> QED BY <2>1, <2>2
<1> HIDE DEF q
<1>7. q \in Seq(Range(q))
  BY <1>3, RangeType
<1>8. q \in Seq(Slot)
  BY <1>3, <1>6, <1>7
<1> QED BY <1>3, <1>5, <1>6, <1>8

(* The tasks of a set, each once. *)
LEMMA TasksOrdered ==
    ASSUME setting \in Settings, NEW S, S \subseteq Task
    PROVE  /\ TasksInOrder(S) \in Seq(S) /\ Distinct(TasksInOrder(S))
           /\ Range(TasksInOrder(S)) = S
<1>1. PICK n \in Nat : Task = 1 .. n
  BY SettingFacts
<1>2. PICK d \in Int : d = 0
  OBVIOUS
<1> DEFINE q == Select([i \in 1 .. n |-> i + d], S)
<1>3. /\ q \in Seq(Int) /\ Distinct(q)
      /\ Range(q) = {x \in S : \E i \in 1 .. n : x = i + d}
  BY SelectNumbers
<1>4. [t \in Task |-> t] = [i \in 1 .. n |-> i + d]
  BY <1>1, <1>2
<1>5. TasksInOrder(S) = q
  BY <1>4 DEF TasksInOrder
<1>6. {x \in S : \E i \in 1 .. n : x = i + d} = S
  <2>1. \A x \in S : x \in 1 .. n /\ x = x + d
    BY <1>1, <1>2
  <2> QED BY <2>1
<1> HIDE DEF q
<1>7. q \in Seq(Range(q))
  BY <1>3, RangeType
<1> QED BY <1>3, <1>5, <1>6, <1>7

(* The task in the main thread's hands is a request. *)
LEMMA TakenTask ==
    ASSUME QueueTypes, NEW kind, Taken(kind)
    PROVE  /\ taken[1].id \in Root /\ taken = <<Entry("task", taken[1].id)>>
           /\ taken[1] = Entry("task", taken[1].id) /\ Kind[taken[1].id] = kind /\ phase = "tasks"
<1>1. PICK e \in EntryTypes : taken = <<e>>
  BY DEF QueueTypes, Taken
<1>2. taken[1] = e /\ e.type = "task" /\ Kind[e.id] = kind /\ phase = "tasks"
  BY <1>1 DEF Taken
<1>3. e \in {Entry("task", r) : r \in Root}
  BY <1>2 DEF EntryTypes, NextResponse, Entry
<1>4. e.id \in Root /\ e = Entry("task", e.id)
  BY <1>3 DEF Entry
<1> QED BY <1>1, <1>2, <1>4

SlotsTyped ==
    /\ slots \in [Slot -> SlotTypes]
    /\ \A s \in Slot : slots[s].state = "IDLE" <=> slots[s].task = 0

(* A request that is launched gets a free slot for itself and one for each *)
(* of its children.                                                        *)
Placed(r, place) ==
    /\ place \in [Ids(r) -> FreeSlots]
    /\ \A t, u \in Ids(r) : place[t] = place[u] => t = u
    /\ DOMAIN slots' = Slot /\ slots' = [s \in Slot |-> slots'[s]]
    /\ \A t \in Ids(r) : slots'[place[t]] = Launched(t)
    /\ \A s \in Slot : (\A t \in Ids(r) : place[t] # s) => slots'[s] = slots[s]

(* A launch places every task of the request in a free slot of its own. *)
LEMMA LaunchPlaces ==
    ASSUME QueueTypes, HandleLaunch
    PROVE  taken[1].id \in Root /\ \E place : Placed(taken[1].id, place)
<1> DEFINE r == taken[1].id
<1>1. r \in Root /\ Taken("completion")
  BY TakenTask DEF HandleLaunch
<1>2. r \in Task /\ r \notin Children(r) /\ Children(r) \subseteq Task /\ Pin[r] \in Slot \cup {-1}
  BY <1>1, SettingFacts DEF QueueTypes
<1> DEFINE free(s) == SlotsInOrder(FreeSlots \ {s})
           kids == TasksInOrder(Children(r))
           at(s, x) == {i \in DOMAIN kids : free(s)[i] = x}
<1>3. PICK s \in AvailableSlot(r) :
         /\ ~Processing(s) /\ Len(kids) <= Len(free(s))
         /\ slots' = [x \in Slot |-> IF x = s THEN Launched(r)
                                     ELSE IF at(s, x) # {} THEN Launched(kids[CHOOSE i \in at(s, x) : TRUE])
                                     ELSE slots[x]]
  BY DEF HandleLaunch
<1>4. s \in FreeSlots /\ FreeSlots \subseteq Slot
  BY <1>2, <1>3 DEF AvailableSlot, FreeSlots
<1>5. PICK q \in Seq(Slot) : q = free(s) /\ Distinct(q) /\ Range(q) = FreeSlots \ {s}
  BY <1>4, SlotsOrdered
<1>6. PICK k \in Seq(Children(r)) : k = kids /\ Distinct(k) /\ Range(k) = Children(r)
  BY <1>2, TasksOrdered DEF QueueTypes
<1>7. DOMAIN k \subseteq DOMAIN q
  BY <1>3, <1>5, <1>6
<1> DEFINE here(x) == {i \in DOMAIN k : q[i] = x}
<1>8. slots' = [x \in Slot |-> IF x = s THEN Launched(r)
                               ELSE IF here(x) # {} THEN Launched(k[CHOOSE i \in here(x) : TRUE])
                               ELSE slots[x]]
  BY <1>3, <1>5, <1>6
<1> HIDE DEF r, free, kids, at
<1> DEFINE place == [t \in Ids(r) |-> IF t = r THEN s ELSE q[CHOOSE i \in DOMAIN k : k[i] = t]]
<1>9. ASSUME NEW i \in DOMAIN k
      PROVE  /\ q[i] \in FreeSlots \ {s} /\ k[i] \in Children(r) /\ k[i] # r
             /\ place[k[i]] = q[i] /\ slots'[q[i]] = Launched(k[i])
  <2>1. q[i] \in FreeSlots \ {s} /\ k[i] \in Children(r) /\ k[i] # r
    BY <1>2, <1>5, <1>6, <1>7 DEF Range
  <2>2. (CHOOSE j \in DOMAIN k : k[j] = k[i]) = i
    <3>1. \A j \in DOMAIN k : k[j] = k[i] => j = i
      BY <1>6 DEF Distinct
    <3> QED BY <3>1
  <2>3. place[k[i]] = q[i]
    BY <2>1, <2>2 DEF Ids
  <2>4. here(q[i]) = {i}
    BY <1>5, <1>7 DEF Distinct
  <2>5. slots'[q[i]] = Launched(k[i])
    <3>1. (CHOOSE j \in here(q[i]) : TRUE) = i
      BY <2>4
    <3>2. q[i] \in Slot /\ q[i] # s /\ here(q[i]) # {}
      BY <1>4, <2>1, <2>4
    <3> HIDE DEF here
    <3> QED BY <1>8, <3>1, <3>2
  <2> HIDE DEF place
  <2> QED BY <2>1, <2>3, <2>5
<1>10. place[r] = s /\ slots'[s] = Launched(r)
  BY <1>4, <1>8 DEF Ids
<1>11. ASSUME NEW t \in Ids(r) PROVE t = r \/ \E i \in DOMAIN k : t = k[i]
  BY <1>6 DEF Ids, Range
<1>12. \A t \in Ids(r) : place[t] \in FreeSlots
  <2> HIDE DEF place
  <2> QED BY <1>4, <1>9, <1>10, <1>11
<1>13. place \in [Ids(r) -> FreeSlots]
  BY <1>12
<1>14. ASSUME NEW t \in Ids(r), NEW u \in Ids(r), place[t] = place[u] PROVE t = u
  <2> HIDE DEF place
  <2>1. CASE t = r
    BY <1>9, <1>10, <1>11, <1>14, <2>1
  <2>2. CASE u = r
    BY <1>9, <1>10, <1>11, <1>14, <2>2
  <2>3. CASE t # r /\ u # r
    <3>1. PICK i \in DOMAIN k : t = k[i]
      BY <1>11, <2>3
    <3>2. PICK j \in DOMAIN k : u = k[j]
      BY <1>11, <2>3
    <3>3. q[i] = q[j]
      BY <1>9, <1>14, <3>1, <3>2
    <3>4. i = j
      BY <1>5, <1>7, <3>3 DEF Distinct
    <3> QED BY <3>1, <3>2, <3>4
  <2> QED BY <2>1, <2>2, <2>3
<1>15. DOMAIN slots' = Slot /\ slots' = [x \in Slot |-> slots'[x]]
  BY <1>8
<1>16. \A t \in Ids(r) : slots'[place[t]] = Launched(t)
  <2> HIDE DEF place
  <2> QED BY <1>9, <1>10, <1>11
<1>17. ASSUME NEW x \in Slot, \A t \in Ids(r) : place[t] # x PROVE slots'[x] = slots[x]
  <2>1. x # s
    <3> HIDE DEF place
    <3> QED BY <1>10, <1>17 DEF Ids
  <2>2. here(x) = {}
    <3>1. \A i \in DOMAIN k : q[i] # x
      <4> HIDE DEF place
      <4> QED BY <1>9, <1>17 DEF Ids
    <3> QED BY <3>1
  <2> HIDE DEF here
  <2> QED BY <1>8, <2>1, <2>2
<1> HIDE DEF place
<1>18. Placed(r, place)
  BY <1>13, <1>14, <1>15, <1>16, <1>17 DEF Placed
<1> QED BY <1>1, <1>18 DEF r

(* The slots of the view that has been decoded have a token to sample.      *)
ViewReady ==
    phase = "post_decode" => \A s \in view \cap Slot : slots[s].state \in {"DONE_PROMPT", "GENERATING"}

(* Until they are sampled they stay so. *)
LEMMA ViewReadyStep ==
    ASSUME ViewReady, Next
    PROVE  ViewReady'
<1> USE DEF queues, main, prompts, results, clients
<1>1. Slot' = Slot
  BY DEF Slot
<1>2. CASE Decode
  <2>1. PICK d : view' = ToSample(d, slots')
    BY <1>2 DEF Decode
  <2> QED BY <1>1, <2>1 DEF ViewReady, ToSample
<1>3. CASE UNCHANGED main
  BY <1>1, <1>3 DEF ViewReady
<1>4. CASE phase' # "post_decode"
  BY <1>4 DEF ViewReady
<1>5. ASSUME NEW r \in Root, PostTasks(r) \/ Leave(r) \/ Receive(r) \/ Stop(r) \/ Cleanup(r) \/ Cancel(r)
      PROVE  UNCHANGED main
  BY <1>5 DEF PostTasks, Leave, Receive, Stop, Cleanup, Cancel
<1>6. ASSUME WorkerStep \/ Terminated
      PROVE  UNCHANGED main
  BY <1>6 DEF WorkerStep, YieldTake, YieldHandle, Terminated, vars
<1>7. ASSUME MainStep, ~Decode
      PROVE  phase' # "post_decode"
  BY <1>7 DEF MainStep, TakeTask, HandleDefer, HandleLaunch, HandleLaunchFails, HandleSlotAction, HandleMetrics,
              Taken, HandleCancel, HandleNextResponse, UpdateSlots, PreDecode, DecodeFails, AbortAll, PostDecode, Wake
<1> QED BY <1>2, <1>3, <1>4, <1>5, <1>6, <1>7 DEF Next, ReaderStep

(* What decoding does to a slot: it stays, or is a child that joins its     *)
(* parent, whose sequence is whole unless the batch was decoded in views.   *)
LEMMA DecodeSlots ==
    ASSUME Decode, NEW s \in Slot
    PROVE  \/ /\ slots'[s] = slots[s]
              /\ prompt'[s] = prompt[s] \/ ~Processing(s)
           \/ /\ slots[s].state = "WAIT_OTHER" /\ prompt'[s] = slots[s].task
              /\ \E w \in BOOLEAN : /\ slots'[s] = [slots[s] EXCEPT !.state = "DONE_PROMPT", !.whole = w]
                                    /\ May("split") \/ w
<1> DEFINE done(x) == {p \in Slot : slots[p].state = "DONE_PROMPT" /\ slots[p].task = Parent[slots[x].task]}
           join == {x \in Slot : slots[x].state = "WAIT_OTHER" /\ done(x) # {}}
<1>1. slots' = [x \in Slot |-> IF x \in join
                               THEN [slots[x] EXCEPT !.state = "DONE_PROMPT", !.whole = done(x) \cap batch' = {}]
                               ELSE slots[x]]
  BY DEF Decode
<1>2. PICK cleared \in SUBSET {x \in FreeSlots : prompt[x] # 0} :
         prompt' = [x \in Slot |-> IF x \in join THEN slots[x].task
                                   ELSE IF x \in cleared THEN 0 ELSE prompt[x]]
  BY DEF Decode
<1>3. PICK d \in Views(join) : batch' = batch \ d
  BY DEF Decode
<1>4. May("split") \/ batch' = {}
  BY <1>3 DEF Views
<1> HIDE DEF join, done
<1>5. CASE s \in join
  <2>1. slots[s].state = "WAIT_OTHER"
    BY <1>5 DEF join
  <2>2. PICK w \in BOOLEAN : w = (done(s) \cap batch' = {})
    OBVIOUS
  <2>3. May("split") \/ w
    BY <1>4, <2>2
  <2>4. slots'[s] = [slots[s] EXCEPT !.state = "DONE_PROMPT", !.whole = w]
    BY <1>1, <1>5, <2>2
  <2>5. prompt'[s] = slots[s].task
    BY <1>2, <1>5
  <2> QED BY <2>1, <2>3, <2>4, <2>5
<1>6. CASE s \notin join
  BY <1>1, <1>2, <1>6 DEF FreeSlots
<1> QED BY <1>5, <1>6

(* Slots hold what they should. *)
LEMMA SlotsTypedStep ==
    ASSUME QueueTypes, SlotsTyped, ViewReady, setting' = setting, Next
    PROVE  SlotsTyped'
<1>1. SlotTypes' = SlotTypes /\ 0 \notin Task /\ Root \subseteq Task
  BY SettingFixed, SettingFacts DEF QueueTypes
<1>2. Idle \in SlotTypes /\ Idle.state = "IDLE" /\ Idle.task = 0
  BY DEF Idle, SlotTypes, States
<1>3. ASSUME NEW t \in Task PROVE Launched(t) \in SlotTypes /\ Launched(t).state # "IDLE" /\ Launched(t).task = t
  BY <1>3 DEF Launched, Idle, SlotTypes, States
<1>4. SUFFICES ASSUME slots' # slots
               PROVE  /\ slots' \in [Slot -> SlotTypes]
                      /\ \A s \in Slot : slots'[s].state = "IDLE" <=> slots'[s].task = 0
  BY <1>1 DEF SlotsTyped
<1>5. ASSUME NEW S, slots' = [s \in Slot |-> IF s \in S THEN Idle ELSE slots[s]]
      PROVE  /\ slots' \in [Slot -> SlotTypes]
             /\ \A s \in Slot : slots'[s].state = "IDLE" <=> slots'[s].task = 0
  BY <1>2, <1>5 DEF SlotsTyped
<1>6. CASE HandleCancel
  BY <1>5, <1>6 DEF HandleCancel
<1>7. CASE DecodeFails \/ AbortAll
  BY <1>2, <1>7 DEF DecodeFails, AbortAll
<1>8. CASE HandleLaunch
  <2>0. PICK r \in Root : \E place : Placed(r, place)
    BY <1>8, LaunchPlaces
  <2>1. PICK place : Placed(r, place)
    BY <2>0
  <2>2. Ids(r) \subseteq Task
    BY <1>1, SettingFacts DEF QueueTypes
  <2>3. ASSUME NEW s \in Slot PROVE slots'[s] \in SlotTypes /\ (slots'[s].state = "IDLE" <=> slots'[s].task = 0)
    <3>1. CASE \E t \in Ids(r) : place[t] = s
      BY <1>1, <1>3, <2>1, <2>2, <3>1 DEF Placed
    <3>2. CASE \A t \in Ids(r) : place[t] # s
      BY <2>1, <3>2 DEF Placed, SlotsTyped
    <3> QED BY <3>1, <3>2
  <2>4. DOMAIN slots' = Slot /\ slots' = [s \in Slot |-> slots'[s]]
    BY <2>1 DEF Placed
  <2> QED BY <2>3, <2>4
<1>9. ASSUME NEW state, state \in States \ {"IDLE"}, NEW s \in Slot, slots[s].state # "IDLE"
      PROVE  LET new == [slots[s] EXCEPT !.state = state]
             IN  new \in SlotTypes /\ new.state # "IDLE" /\ new.task # 0
  BY <1>9 DEF SlotsTyped, SlotTypes
<1>10. CASE PreDecode
  <2>1. PICK what \in [Slot -> {"none", "next", "fit", "part", "empty", "fail"}] :
           LET to(w) == {s \in Slot : what[s] = w}
               off == to("empty") \cup to("fail") IN
           /\ to("fit") \subseteq {s \in Slot : slots[s].state \in {"STARTED", "PROCESSING_PROMPT"}}
           /\ to("part") \cup to("empty") \subseteq {s \in Slot : slots[s].state \in {"STARTED"}}
           /\ slots' = [s \in Slot |-> CASE s \in off -> Idle
                                         [] s \in to("part") -> Advance(s, "PROCESSING_PROMPT")
                                         [] s \in to("fit") -> Advance(s, "DONE_PROMPT")
                                         [] OTHER -> slots[s]]
    BY <1>10 DEF PreDecode
  <2>2. ASSUME NEW s \in Slot PROVE slots'[s] \in SlotTypes /\ (slots'[s].state = "IDLE" <=> slots'[s].task = 0)
    <3>1. CASE what[s] = "empty" \/ what[s] = "fail"
      <4>1. slots'[s] = Idle
        BY <2>1, <3>1
      <4> QED BY <1>2, <4>1
    <3>2. CASE what[s] = "part"
      <4>1. slots'[s] = Advance(s, "PROCESSING_PROMPT") /\ slots[s].state # "IDLE"
        BY <2>1, <3>2
      <4> QED BY <1>9, <4>1 DEF Advance, States
    <3>3. CASE what[s] = "fit"
      <4>1. slots'[s] = Advance(s, "DONE_PROMPT") /\ slots[s].state # "IDLE"
        BY <2>1, <3>3
      <4> QED BY <1>9, <4>1 DEF Advance, States
    <3>4. CASE what[s] = "none" \/ what[s] = "next"
      <4>1. slots'[s] = slots[s]
        BY <2>1, <3>4
      <4> QED BY <4>1 DEF SlotsTyped
    <3> QED BY <3>1, <3>2, <3>3, <3>4
  <2>3. slots' = [s \in Slot |-> slots'[s]]
    BY <2>1
  <2> QED BY <2>2, <2>3
<1>11. CASE Decode
  <2>1. ASSUME NEW s \in Slot PROVE slots'[s] \in SlotTypes /\ (slots'[s].state = "IDLE" <=> slots'[s].task = 0)
    <3>1. CASE slots'[s] = slots[s]
      BY <3>1 DEF SlotsTyped
    <3>2. ASSUME slots[s].state = "WAIT_OTHER", NEW w \in BOOLEAN,
                 slots'[s] = [slots[s] EXCEPT !.state = "DONE_PROMPT", !.whole = w]
          PROVE  slots'[s] \in SlotTypes /\ (slots'[s].state = "IDLE" <=> slots'[s].task = 0)
      <4>1. slots[s] \in SlotTypes /\ slots[s].task # 0 /\ "DONE_PROMPT" \in States /\ 0 \in Nat
        BY <3>2 DEF SlotsTyped, States
      <4>2. slots'[s] \in SlotTypes /\ slots'[s].state = "DONE_PROMPT" /\ slots'[s].task = slots[s].task
        <5>1. PICK x : x = [slots[s] EXCEPT !.state = "DONE_PROMPT"]
          OBVIOUS
        <5>2. x \in SlotTypes /\ x.state = "DONE_PROMPT" /\ x.task = slots[s].task
          BY <4>1, <5>1 DEF SlotTypes
        <5>3. slots'[s] = [x EXCEPT !.whole = w]
          BY <3>2, <5>1
        <5> QED BY <5>2, <5>3 DEF SlotTypes
      <4> QED BY <4>1, <4>2
    <3> QED BY <1>11, <3>1, <3>2, DecodeSlots
  <2>2. slots' = [s \in Slot |-> slots'[s]]
    BY <1>11 DEF Decode
  <2> QED BY <2>1, <2>2
<1>12. CASE PostDecode
  <2>1. phase = "post_decode"
    BY <1>12 DEF PostDecode
  <2>2. PICK off : slots' = [s \in Slot |->
                                IF s \in off THEN Idle
                                ELSE IF s \in view
                                     THEN [slots[s] EXCEPT !.state = "GENERATING", !.n_gen = @ + 1]
                                     ELSE slots[s]]
    BY <1>12 DEF PostDecode
  <2>3. ASSUME NEW s \in Slot PROVE slots'[s] \in SlotTypes /\ (slots'[s].state = "IDLE" <=> slots'[s].task = 0)
    <3>1. CASE s \in off
      BY <1>2, <2>2, <3>1
    <3>2. CASE s \notin off /\ s \in view
      <4>1. slots[s].state # "IDLE" /\ slots[s] \in SlotTypes /\ slots[s].task # 0
        BY <2>1, <3>2 DEF SlotsTyped, ViewReady
      <4>2. PICK n \in Nat : n = slots[s].n_gen + 1
        BY <4>1 DEF SlotTypes
      <4>3. slots'[s] = [slots[s] EXCEPT !.state = "GENERATING", !.n_gen = n]
        BY <2>2, <3>2, <4>2
      <4>4. slots'[s] \in SlotTypes /\ slots'[s].state = "GENERATING" /\ slots'[s].task = slots[s].task
        <5>1. PICK x : x = [slots[s] EXCEPT !.state = "GENERATING"]
          OBVIOUS
        <5>2. x \in SlotTypes /\ x.state = "GENERATING" /\ x.task = slots[s].task
          BY <4>1, <5>1 DEF SlotTypes, States
        <5>3. slots'[s] = [x EXCEPT !.n_gen = n]
          BY <4>3, <5>1
        <5> QED BY <5>2, <5>3 DEF SlotTypes
      <4> QED BY <4>1, <4>4
    <3>3. CASE s \notin off /\ s \notin view
      BY <2>2, <3>3 DEF SlotsTyped
    <3> QED BY <3>1, <3>2, <3>3
  <2>4. slots' = [s \in Slot |-> slots'[s]]
    BY <2>2
  <2> QED BY <2>3, <2>4
<1>13. ASSUME NEW r \in Root, PostTasks(r) \/ Leave(r) \/ Receive(r) \/ Stop(r) \/ Cleanup(r) \/ Cancel(r)
       PROVE  UNCHANGED slots
  BY <1>13 DEF PostTasks, Leave, Receive, Stop, Cleanup, Cancel, main
<1>14. ASSUME WorkerStep \/ Terminated
       PROVE  UNCHANGED slots
  BY <1>14 DEF WorkerStep, YieldTake, YieldHandle, Terminated, vars, main
<1>15. ASSUME MainStep
       PROVE  HandleCancel \/ DecodeFails \/ AbortAll \/ HandleLaunch \/ PreDecode \/ Decode \/ PostDecode
  BY <1>4, <1>15 DEF MainStep, TakeTask, HandleDefer, HandleLaunchFails, HandleSlotAction, HandleMetrics,
                     HandleNextResponse, UpdateSlots, Wake, main
<1> QED BY <1>4, <1>6, <1>7, <1>8, <1>10, <1>11, <1>12, <1>13, <1>14, <1>15 DEF Next, ReaderStep

(* Entries are tasks, cancellations and NEXT_RESPONSE. *)
LEMMA QueueTypesStep ==
    ASSUME QueueTypes, setting' = setting, Next
    PROVE  QueueTypes'
<1> USE DEF queues, clients, results, prompts, main
<1>1. ASSUME Moved \/ Consumed(taken) \/ Consumed(taken_yield) PROVE QueueTypes'
  BY <1>1 DEF Moved, Consumed
<1>2. ASSUME NEW r \in Root, PostTasks(r) PROVE QueueTypes'
  BY <1>2, PostAdds
<1>3. ASSUME NEW r \in Root, Cancel(r) PROVE QueueTypes'
  BY <1>3, CancelTakesOut
<1>4. ASSUME NEW r \in Root, Leave(r) \/ Receive(r) \/ Stop(r) \/ Cleanup(r) PROVE Moved
  BY <1>4, QueuesAlone DEF Leave, Receive, Stop, Cleanup
<1>5. ASSUME Terminated PROVE Moved
  BY <1>5, QueuesAlone DEF Terminated, vars
<1>6. ASSUME MainStep \/ WorkerStep PROVE Moved \/ Consumed(taken) \/ Consumed(taken_yield)
  BY <1>6, StepMoves, StepConsumes DEF MainStep, WorkerStep
<1> QED BY <1>1, <1>2, <1>3, <1>4, <1>5, <1>6 DEF Next, ReaderStep

-----------------------------------------------------------------------------
(* Prompts.                                                                 *)

(* Choosing a slot changes no other slot's prompt, and none at all without  *)
(* a prompt cache. *)
LEMMA CacheTouchesOne ==
    ASSUME prompt = [x \in Slot |-> prompt[x]], NEW s \in Slot, NEW u \in CacheUpdates(s)
    PROVE  /\ u.prompt = [x \in Slot |-> u.prompt[x]]
           /\ \A x \in Slot \ {s} : u.prompt[x] = prompt[x]
           /\ ~setting.cache => u.prompt = prompt
           /\ \E p, saved : u = [prompt |-> p, states |-> saved]
<1> DEFINE now == [prompt |-> prompt, states |-> states]
           after(saved) ==
            {[now EXCEPT !.states = saved]}
            \cup {[prompt |-> [prompt EXCEPT ![s] = p], states |-> saved \ {p}] :
                     p \in saved \ {prompt[s]}}
            \cup {[prompt |-> [prompt EXCEPT ![s] = 0], states |-> saved] :
                     p \in saved \ {prompt[s]}}
<1>1. u = now \/ (setting.cache /\ \E saved : u \in after(saved))
  BY DEF CacheUpdates
<1>2. ASSUME NEW saved, u \in after(saved)
      PROVE  /\ u.prompt = prompt \/ \E p : u.prompt = [prompt EXCEPT ![s] = p]
             /\ \E p, kept : u = [prompt |-> p, states |-> kept]
  <2>1. CASE u = [now EXCEPT !.states = saved]
    <3>1. u = [prompt |-> prompt, states |-> saved]
      BY <2>1
    <3> QED BY <3>1
  <2>2. ASSUME NEW p, u = [prompt |-> [prompt EXCEPT ![s] = p], states |-> saved \ {p}]
        PROVE  /\ u.prompt = [prompt EXCEPT ![s] = p]
               /\ \E q, kept : u = [prompt |-> q, states |-> kept]
    BY <2>2
  <2>3. CASE u = [prompt |-> [prompt EXCEPT ![s] = 0], states |-> saved]
    BY <2>3
  <2> QED BY <1>2, <2>1, <2>2, <2>3
<1>3. CASE u = now
  BY <1>3
<1> HIDE DEF after
<1>4. ASSUME setting.cache, NEW saved, u \in after(saved)
      PROVE  /\ u.prompt = [x \in Slot |-> u.prompt[x]]
             /\ \A x \in Slot \ {s} : u.prompt[x] = prompt[x]
             /\ \E p, kept : u = [prompt |-> p, states |-> kept]
  <2>1. CASE u.prompt = prompt
    BY <1>2, <1>4, <2>1
  <2>2. ASSUME NEW p, u.prompt = [prompt EXCEPT ![s] = p]
        PROVE  /\ u.prompt = [x \in Slot |-> u.prompt[x]]
               /\ \A x \in Slot \ {s} : u.prompt[x] = prompt[x]
    BY <2>2
  <2> QED BY <1>2, <1>4, <2>1, <2>2
<1> QED BY <1>1, <1>3, <1>4

(* Saving the prompts of idle slots changes those of no other. *)
LEMMA IdleTouchesIdle ==
    ASSUME NEW u, u.prompt = [x \in Slot |-> u.prompt[x]], NEW idle, NEW v \in IdleSaves(u, idle)
    PROVE  /\ v.prompt = [x \in Slot |-> v.prompt[x]]
           /\ \A x \in Slot \ idle : v.prompt[x] = u.prompt[x]
<1>1. \/ v = u
      \/ \E off \in {{}, idle} : \E S :
            v = [prompt |-> [s \in Slot |-> IF s \in off THEN 0 ELSE u.prompt[s]], states |-> S]
  BY DEF IdleSaves
<1>2. ASSUME NEW off \in {{}, idle}, NEW S,
             v = [prompt |-> [s \in Slot |-> IF s \in off THEN 0 ELSE u.prompt[s]], states |-> S]
      PROVE  /\ v.prompt = [x \in Slot |-> v.prompt[x]]
             /\ \A x \in Slot \ idle : v.prompt[x] = u.prompt[x]
  BY <1>2
<1> QED BY <1>1, <1>2

(* A batch is not decoded in views when requests have children, and with a  *)
(* prompt cache no request asks for a slot: without these, runs of the      *)
(* model checker show a slot that generates from a prompt that is not its   *)
(* task's.                                                                  *)
NoChildrenInViews ==
    \A g \in Settings : "split" \in g.fail => \A t \in DOMAIN g.kind : g.parent[t] = 0
NoPinWithCache ==
    \A g \in Settings : g.cache => \A t \in DOMAIN g.kind : g.kind[t] = "completion" => g.pin[t] = -1

(* Slot x, holding the prompt of task p, has all it needs.                  *)
Running == {"PROCESSING_PROMPT", "DONE_PROMPT", "GENERATING"}
Holds(x, p) ==
    /\ x.whole
    /\ x.state \in Running => p = x.task
    /\ x.state = "WAIT_OTHER" => Parent[x.task] # 0
PromptsHold == prompt = [x \in Slot |-> prompt[x]] /\ \A s \in Slot : Holds(slots[s], prompt[s])

(* New in a slot, nothing is needed yet. *)
LEMMA HoldsAnyway ==
    ASSUME NEW p
    PROVE  Holds(Idle, p) /\ \A t : Holds(Launched(t), p)
BY DEF Holds, Idle, Launched, Running

(* A slot that is not processing holds whatever prompt it has. *)
LEMMA FreeHolds ==
    ASSUME PromptsHold, NEW s \in Slot, ~Processing(s), NEW p
    PROVE  Holds(slots[s], p)
BY DEF PromptsHold, Holds, Processing, Running

(* Slots hold what they need when tasks are handled. *)
LEMMA PromptsHandle ==
    ASSUME QueueTypes, PromptsHold, NoPinWithCache,
           HandleDefer \/ HandleLaunch \/ HandleLaunchFails \/ HandleSlotAction
    PROVE  prompt' = [x \in Slot |-> prompt'[x]] /\ \A s \in Slot : Holds(slots'[s], prompt'[s])
<1> DEFINE t == taken[1].id
           free(s) == SlotsInOrder(FreeSlots \ {s})
           Good == prompt' = [x \in Slot |-> prompt'[x]] /\ \A s \in Slot : Holds(slots'[s], prompt'[s])
<1>1. ASSUME Taken("completion") \/ Taken("slot_action")
      PROVE  t \in Task /\ Pin[t] \in Slot \cup {-1} /\ AvailableSlot(t) \subseteq Slot
             /\ (Taken("slot_action") => Pin[t] \in Slot)
             /\ (Taken("completion") /\ setting.cache => AvailableSlot(t) = FreeSlots)
  <2>1. t \in Root /\ (Taken("slot_action") => Kind[t] = "slot_action")
        /\ (Taken("completion") => Kind[t] = "completion")
    BY <1>1, TakenTask
  <2>2. t \in Task /\ Pin[t] \in Slot \cup {-1} /\ (Kind[t] = "slot_action" => Pin[t] \in Slot)
    BY <2>1, SettingFacts DEF QueueTypes
  <2>3. Kind[t] = "completion" /\ setting.cache => Pin[t] = -1
    BY <2>2 DEF NoPinWithCache, QueueTypes, Task, Kind, Pin
  <2> QED BY <2>1, <2>2, <2>3 DEF AvailableSlot, FreeSlots
<1> HIDE DEF t
<1>2. CASE UNCHANGED <<slots, prompt>>
  BY <1>2 DEF PromptsHold
<1>3. ASSUME slots' = slots, NEW off, off \subseteq FreeSlots, prompt' = [x \in Slot |-> prompt'[x]],
             \A x \in Slot \ off : prompt'[x] = prompt[x]
      PROVE  Good
  <2>1. ASSUME NEW s \in Slot PROVE Holds(slots'[s], prompt'[s])
    <3>1. CASE Processing(s)
      BY <1>3, <3>1 DEF PromptsHold, FreeSlots
    <3>2. CASE ~Processing(s)
      BY <1>3, <3>2, FreeHolds
    <3> QED BY <3>1, <3>2
  <2> QED BY <1>3, <2>1
<1>4. CASE HandleDefer
  <2>1. slots' = slots /\ Taken("completion")
    BY <1>4 DEF HandleDefer
  <2>2. CASE UNCHANGED prompt
    BY <1>2, <2>1, <2>2
  <2>3. ASSUME NEW s \in AvailableSlot(t), NEW u \in CacheUpdates(s), prompt' = u.prompt
        PROVE  Good
    <3>1. s \in Slot /\ (setting.cache => s \in FreeSlots)
      BY <1>1, <2>1
    <3>2. /\ prompt' = [x \in Slot |-> prompt'[x]] /\ \A x \in Slot \ {s} : prompt'[x] = prompt[x]
          /\ ~setting.cache => UNCHANGED prompt
      BY <2>3, <3>1, CacheTouchesOne DEF PromptsHold
    <3>3. CASE setting.cache
      <4>1. {s} \subseteq FreeSlots
        BY <3>1, <3>3
      <4> QED BY <1>3, <2>1, <3>2, <4>1
    <3>4. CASE ~setting.cache
      BY <1>2, <2>1, <3>2, <3>4
    <3> QED BY <3>3, <3>4
  <2> QED BY <1>4, <2>2, <2>3 DEF HandleDefer, prompts, Cached, t
<1>5. CASE HandleLaunch
  <2> DEFINE kids == TasksInOrder(Children(t))
             at(s, x) == {i \in DOMAIN kids : free(s)[i] = x}
  <2>1. PICK s \in AvailableSlot(t) :
          /\ slots' = [x \in Slot |->
                          IF x = s THEN Launched(t)
                          ELSE IF at(s, x) # {} THEN Launched(kids[CHOOSE i \in at(s, x) : TRUE])
                          ELSE slots[x]]
          /\ \E u \in CacheUpdates(s) :
             \E v \in IdleSaves(u, {x \in Slot : slots'[x].state = "IDLE"}) : prompt' = v.prompt
    BY <1>5 DEF HandleLaunch, Cached, t
  <2>2. PICK u \in CacheUpdates(s) :
             \E v \in IdleSaves(u, {x \in Slot : slots'[x].state = "IDLE"}) : prompt' = v.prompt
    BY <2>1
  <2>3. s \in Slot
    BY <1>1, <1>5 DEF HandleLaunch
  <2>4. /\ u.prompt = [x \in Slot |-> u.prompt[x]]
        /\ \A x \in Slot \ {s} : u.prompt[x] = prompt[x]
    BY <2>3, CacheTouchesOne DEF PromptsHold
  <2>5. /\ prompt' = [x \in Slot |-> prompt'[x]]
        /\ \A x \in Slot : slots'[x].state # "IDLE" => prompt'[x] = u.prompt[x]
    BY <2>2, <2>4, IdleTouchesIdle
  <2>6. ASSUME NEW x \in Slot
        PROVE  (slots'[x] = slots[x] /\ x # s) \/ \E c : slots'[x] = Launched(c)
    BY <2>1
  <2>7. ASSUME NEW x \in Slot PROVE Holds(slots'[x], prompt'[x])
    <3>1. CASE \E c : slots'[x] = Launched(c)
      BY <3>1, HoldsAnyway
    <3>2. CASE slots'[x] = slots[x] /\ x # s
      <4>1. CASE slots[x].state = "IDLE"
        BY <3>2, <4>1, FreeHolds DEF Processing
      <4>2. CASE slots[x].state # "IDLE"
        <5>1. prompt'[x] = prompt[x]
          BY <2>4, <2>5, <3>2, <4>2
        <5> QED BY <3>2, <5>1 DEF PromptsHold
      <4> QED BY <4>1, <4>2
    <3> QED BY <2>6, <3>1, <3>2
  <2> QED BY <2>5, <2>7
<1>6. CASE HandleLaunchFails
  <2>0. PICK s \in AvailableSlot(t) :
          /\ ~Processing(s) /\ Len(TasksInOrder(Children(t))) <= Len(free(s))
          /\ \E u \in CacheUpdates(s) : \E n \in 0 .. Len(TasksInOrder(Children(t))) :
             Cached([u EXCEPT !.prompt = [x \in Slot |-> IF x \in {free(s)[i] : i \in 1 .. n} THEN 0 ELSE @[x]]])
    BY <1>6 DEF HandleLaunchFails, t
  <2>1. PICK u \in CacheUpdates(s), n \in 0 .. Len(TasksInOrder(Children(t))) :
          Cached([u EXCEPT !.prompt = [x \in Slot |-> IF x \in {free(s)[i] : i \in 1 .. n} THEN 0 ELSE @[x]]])
    BY <2>0
  <2>2. s \in FreeSlots /\ slots' = slots
    BY <1>1, <1>6, <2>0 DEF HandleLaunchFails, FreeSlots
  <2>3. /\ u.prompt = [x \in Slot |-> u.prompt[x]]
        /\ \A x \in Slot \ {s} : u.prompt[x] = prompt[x]
        /\ \E p, saved : u = [prompt |-> p, states |-> saved]
    BY <1>1, <1>6, CacheTouchesOne DEF PromptsHold, HandleLaunchFails
  <2>4. Len(TasksInOrder(Children(t))) \in Nat
    BY <1>1, <1>6, TasksOrdered, SettingFacts DEF QueueTypes, HandleLaunchFails, Children
  <2>5. free(s) \in Seq(Slot) /\ Range(free(s)) \subseteq FreeSlots
    BY SlotsOrdered
  <2> DEFINE off == {free(s)[i] : i \in 1 .. n}
  <2>6. off \subseteq FreeSlots
    <3> HIDE DEF free
    <3>1. \A i \in 1 .. n : i \in DOMAIN free(s)
      BY <2>0, <2>4, <2>5
    <3> QED BY <2>5, <3>1 DEF Range
  <2> HIDE DEF off
  <2>7. prompt' = [x \in Slot |-> IF x \in off THEN 0 ELSE u.prompt[x]]
    BY <2>1, <2>3 DEF Cached, off
  <2>8. PICK changed : changed = off \cup {s} /\ changed \subseteq FreeSlots
    BY <2>2, <2>6
  <2>9. prompt' = [x \in Slot |-> prompt'[x]]
    BY <2>7
  <2>10. \A x \in Slot \ changed : prompt'[x] = prompt[x]
    BY <2>3, <2>7, <2>8
  <2> QED BY <1>3, <2>2, <2>8, <2>9, <2>10
<1>7. CASE HandleSlotAction
  <2>1. slots' = slots /\ Pin[t] \in Slot
    BY <1>1, <1>7 DEF HandleSlotAction
  <2>2. CASE UNCHANGED prompt
    BY <1>2, <2>1, <2>2
  <2>3. CASE ~Processing(Pin[t]) /\ prompt' = [prompt EXCEPT ![Pin[t]] = 0]
    <3>1. {Pin[t]} \subseteq FreeSlots
      BY <2>1, <2>3 DEF FreeSlots
    <3>2. prompt' = [x \in Slot |-> prompt'[x]] /\ \A x \in Slot \ {Pin[t]} : prompt'[x] = prompt[x]
      BY <2>3 DEF PromptsHold
    <3> QED BY <1>3, <2>1, <3>1, <3>2
  <2> QED BY <1>7, <2>2, <2>3 DEF HandleSlotAction, prompts, t
<1> QED BY <1>4, <1>5, <1>6, <1>7

(* And when they are updated, cancelled or released. *)
LEMMA PromptsUpdate ==
    ASSUME PromptsHold, ViewReady, setting \in Settings, NoChildrenInViews, SlotsTyped,
           HandleCancel \/ PreDecode \/ Decode \/ DecodeFails \/ AbortAll \/ PostDecode
    PROVE  prompt' = [x \in Slot |-> prompt'[x]] /\ \A s \in Slot : Holds(slots'[s], prompt'[s])
<1>1. \A s \in Slot : \A S : s \notin S => PromptsAfterRelease(S)[s] = prompt[s]
  BY DEF PromptsAfterRelease
<1>2. CASE HandleCancel
  <2>1. PICK run : /\ slots' = [s \in Slot |-> IF s \in run THEN Idle ELSE slots[s]]
                   /\ prompt' = PromptsAfterRelease(run)
    BY <1>2 DEF HandleCancel
  <2>2. prompt' = [x \in Slot |-> prompt'[x]]
    BY <2>1 DEF PromptsAfterRelease
  <2>3. ASSUME NEW s \in Slot PROVE Holds(slots'[s], prompt'[s])
    <3>1. CASE s \in run
      BY <2>1, <3>1, HoldsAnyway
    <3>2. CASE s \notin run
      BY <1>1, <2>1, <3>2 DEF PromptsHold
    <3> QED BY <3>1, <3>2
  <2> QED BY <2>2, <2>3
<1>3. CASE DecodeFails \/ AbortAll
  <2>1. \A s \in Slot : slots'[s] = Idle
    BY <1>3 DEF DecodeFails, AbortAll
  <2>2. prompt' = [x \in Slot |-> prompt'[x]]
    BY <1>3 DEF DecodeFails, AbortAll
  <2> QED BY <2>1, <2>2, HoldsAnyway
<1>4. CASE PreDecode
  <2>1. PICK what \in [Slot -> {"none", "next", "fit", "part", "empty", "fail"}] :
           LET to(w) == {s \in Slot : what[s] = w}
               off == to("empty") \cup to("fail") IN
           /\ slots' = [s \in Slot |-> CASE s \in off -> Idle
                                         [] s \in to("part") -> Advance(s, "PROCESSING_PROMPT")
                                         [] s \in to("fit") -> Advance(s, "DONE_PROMPT")
                                         [] OTHER -> slots[s]]
           /\ prompt' = [s \in Slot |-> IF s \in to("part") \cup to("fit") THEN slots[s].task
                                        ELSE PromptsAfterRelease(off)[s]]
    BY <1>4 DEF PreDecode
  <2>2. prompt' = [x \in Slot |-> prompt'[x]]
    BY <2>1
  <2>3. ASSUME NEW s \in Slot PROVE Holds(slots'[s], prompt'[s])
    <3>1. CASE what[s] = "empty" \/ what[s] = "fail"
      <4>1. slots'[s] = Idle
        BY <2>1, <3>1
      <4> QED BY <4>1, HoldsAnyway
    <3>2. CASE what[s] = "part" \/ what[s] = "fit"
      <4>1. PICK state \in Running : slots'[s] = [slots[s] EXCEPT !.state = state]
        BY <2>1, <3>2 DEF Advance, Running
      <4>2. prompt'[s] = slots[s].task
        BY <2>1, <3>2
      <4>3. slots[s] \in SlotTypes /\ slots[s].whole
        BY DEF SlotsTyped, PromptsHold, Holds
      <4> QED BY <4>1, <4>2, <4>3 DEF Holds, Running, SlotTypes
    <3>3. CASE what[s] = "none" \/ what[s] = "next"
      <4>1. slots'[s] = slots[s]
        BY <2>1, <3>3
      <4>2. prompt'[s] = prompt[s]
        <5> DEFINE off == {x \in Slot : what[x] = "empty"} \cup {x \in Slot : what[x] = "fail"}
        <5>1. s \notin off
          BY <3>3
        <5>2. prompt'[s] = PromptsAfterRelease(off)[s]
          BY <2>1, <3>3
        <5> HIDE DEF off
        <5> QED BY <1>1, <5>1, <5>2
      <4> QED BY <4>1, <4>2 DEF PromptsHold
    <3> QED BY <3>1, <3>2, <3>3
  <2> QED BY <2>2, <2>3
<1>5. CASE Decode
  <2>1. prompt' = [x \in Slot |-> prompt'[x]]
    BY <1>5 DEF Decode
  <2>2. ASSUME NEW s \in Slot PROVE Holds(slots'[s], prompt'[s])
    <3>1. CASE slots'[s] = slots[s] /\ prompt'[s] = prompt[s]
      BY <3>1 DEF PromptsHold
    <3>2. CASE slots'[s] = slots[s] /\ ~Processing(s)
      BY <3>2, FreeHolds
    <3>3. ASSUME slots[s].state = "WAIT_OTHER", prompt'[s] = slots[s].task, NEW w \in BOOLEAN,
                 slots'[s] = [slots[s] EXCEPT !.state = "DONE_PROMPT", !.whole = w], May("split") \/ w
          PROVE  Holds(slots'[s], prompt'[s])
      <4>1. slots[s] \in SlotTypes /\ slots[s].task \in Task /\ Parent[slots[s].task] # 0
        <5>1. slots[s].state # "IDLE" /\ slots[s] \in SlotTypes
          BY <3>3 DEF SlotsTyped
        <5>2. slots[s].task # 0
          BY <5>1 DEF SlotsTyped
        <5>3. Parent[slots[s].task] # 0
          BY <3>3 DEF PromptsHold, Holds
        <5> QED BY <5>1, <5>2, <5>3 DEF SlotTypes
      <4>2. w
        BY <3>3, <4>1 DEF NoChildrenInViews, May, Task, Parent, Kind
      <4>3. slots'[s].state = "DONE_PROMPT" /\ slots'[s].task = slots[s].task /\ slots'[s].whole = w
        <5>1. PICK x : x = [slots[s] EXCEPT !.state = "DONE_PROMPT"]
          OBVIOUS
        <5>2. x \in SlotTypes /\ x.state = "DONE_PROMPT" /\ x.task = slots[s].task
          BY <4>1, <5>1 DEF SlotTypes, States
        <5>3. slots'[s] = [x EXCEPT !.whole = w]
          BY <3>3, <5>1
        <5> QED BY <5>2, <5>3 DEF SlotTypes
      <4> QED BY <3>3, <4>2, <4>3 DEF Holds
    <3> QED BY <1>5, <3>1, <3>2, <3>3, DecodeSlots
  <2> QED BY <2>1, <2>2
<1>6. CASE PostDecode
  <2>1. PICK off : /\ slots' = [s \in Slot |->
                                  IF s \in off THEN Idle
                                  ELSE IF s \in view
                                       THEN [slots[s] EXCEPT !.state = "GENERATING", !.n_gen = @ + 1]
                                       ELSE slots[s]]
                   /\ prompt' = PromptsAfterRelease(off)
    BY <1>6 DEF PostDecode
  <2>2. prompt' = [x \in Slot |-> prompt'[x]]
    BY <2>1 DEF PromptsAfterRelease
  <2>3. ASSUME NEW s \in Slot PROVE Holds(slots'[s], prompt'[s])
    <3>1. CASE s \in off
      BY <2>1, <3>1, HoldsAnyway
    <3>2. CASE s \notin off /\ s \in view
      <4>1. slots[s].state \in {"DONE_PROMPT", "GENERATING"} /\ slots[s] \in SlotTypes
        BY <1>6, <3>2 DEF PostDecode, ViewReady, SlotsTyped
      <4>2. slots[s].whole /\ prompt[s] = slots[s].task
        BY <4>1 DEF PromptsHold, Holds, Running
      <4>3. prompt'[s] = prompt[s]
        BY <1>1, <2>1, <3>2
      <4>4. slots'[s] = [slots[s] EXCEPT !.state = "GENERATING", !.n_gen = @ + 1]
        BY <2>1, <3>2
      <4>5. PICK x : x = [slots[s] EXCEPT !.state = "GENERATING"]
        OBVIOUS
      <4>6. x \in SlotTypes /\ x.state = "GENERATING" /\ x.task = slots[s].task /\ x.whole = slots[s].whole
        BY <4>1, <4>5 DEF SlotTypes, States
      <4>7. PICK n : slots'[s] = [x EXCEPT !.n_gen = n]
        BY <4>4, <4>5
      <4>8. slots'[s].state = "GENERATING" /\ slots'[s].task = slots[s].task /\ slots'[s].whole = slots[s].whole
        BY <4>6, <4>7 DEF SlotTypes
      <4> QED BY <4>2, <4>3, <4>8 DEF Holds
    <3>3. CASE s \notin off /\ s \notin view
      BY <1>1, <2>1, <3>3 DEF PromptsHold
    <3> QED BY <3>1, <3>2, <3>3
  <2> QED BY <2>2, <2>3
<1> QED BY <1>2, <1>3, <1>4, <1>5, <1>6

(* Every other step leaves slots and prompts alone. *)
LEMMA PromptsStep ==
    ASSUME QueueTypes, SlotsTyped, ViewReady, PromptsHold, NoChildrenInViews, NoPinWithCache,
           setting' = setting, Next
    PROVE  PromptsHold'
<1> USE DEF prompts, main
<1>1. Parent' = Parent
  BY SettingFixed
<1>2. SUFFICES prompt' = [x \in Slot |-> prompt'[x]] /\ \A s \in Slot : Holds(slots'[s], prompt'[s])
  BY <1>1 DEF PromptsHold, Holds, Running
<1>3. CASE UNCHANGED <<slots, prompt>>
  BY <1>3 DEF PromptsHold
<1>4. ASSUME HandleDefer \/ HandleLaunch \/ HandleLaunchFails \/ HandleSlotAction
      PROVE  prompt' = [x \in Slot |-> prompt'[x]] /\ \A s \in Slot : Holds(slots'[s], prompt'[s])
  BY <1>4, PromptsHandle
<1>5. ASSUME HandleCancel \/ PreDecode \/ Decode \/ DecodeFails \/ AbortAll \/ PostDecode
      PROVE  prompt' = [x \in Slot |-> prompt'[x]] /\ \A s \in Slot : Holds(slots'[s], prompt'[s])
  BY <1>5, PromptsUpdate DEF QueueTypes
<1>6. ASSUME NEW r \in Root, PostTasks(r) \/ Leave(r) \/ Receive(r) \/ Stop(r) \/ Cleanup(r) \/ Cancel(r)
      PROVE  UNCHANGED <<slots, prompt>>
  BY <1>6 DEF PostTasks, Leave, Receive, Stop, Cleanup, Cancel
<1>7. ASSUME WorkerStep \/ Terminated
      PROVE  UNCHANGED <<slots, prompt>>
  BY <1>7 DEF WorkerStep, YieldTake, YieldHandle, Terminated, vars
<1>8. ASSUME TakeTask \/ HandleMetrics \/ HandleNextResponse \/ UpdateSlots \/ Wake
      PROVE  UNCHANGED <<slots, prompt>>
  BY <1>8 DEF TakeTask, HandleMetrics, HandleNextResponse, UpdateSlots, Wake
<1> QED BY <1>3, <1>4, <1>5, <1>6, <1>7, <1>8 DEF Next, ReaderStep, MainStep

-----------------------------------------------------------------------------
(* Types, and prompts.                                                      *)

SlotTypeOK == QueueTypes /\ SlotsTyped /\ ViewReady

(* The queues hold tasks, cancellations and NEXT_RESPONSE; every slot has a *)
(* state of the code, and is idle exactly when it has no task; a view that  *)
(* has been decoded consists of slots with a token to sample. *)
THEOREM SlotTypeCorrect == Spec => []SlotTypeOK
<1>1. Init => SlotTypeOK
  <2> SUFFICES ASSUME Init PROVE SlotTypeOK
    OBVIOUS
  <2>1. QueueTypes
    BY DEF Init, QueueTypes
  <2>2. SlotsTyped
    BY DEF Init, SlotsTyped, SlotTypes, States, Idle
  <2>3. ViewReady
    BY DEF Init, ViewReady
  <2> QED BY <2>1, <2>2, <2>3 DEF SlotTypeOK
<1>2. SlotTypeOK /\ [Next]_vars => SlotTypeOK'
  <2> SUFFICES ASSUME SlotTypeOK, [Next]_vars PROVE SlotTypeOK'
    OBVIOUS
  <2>1. CASE Next
    <3>1. setting' = setting
      BY <2>1 DEF Next, ReaderStep, MainStep, WorkerStep, Terminated, vars
    <3> QED BY <2>1, <3>1, QueueTypesStep, SlotsTypedStep, ViewReadyStep DEF SlotTypeOK
  <2>2. CASE UNCHANGED vars
    <3>1. EntryTypes' = EntryTypes /\ SlotTypes' = SlotTypes
      BY <2>2, SettingFixed DEF vars
    <3> QED BY <2>2, <3>1 DEF SlotTypeOK, QueueTypes, SlotsTyped, ViewReady, vars, queues, main
  <2> QED BY <2>1, <2>2
<1> QED BY <1>1, <1>2, PTL DEF Spec

(* A slot generates from the prompt of its own task, and from all of it,    *)
(* whatever is launched, saved, erased, cancelled or cleared meanwhile;     *)
(* unless a parent's batch may be decoded in views, or requests ask for     *)
(* slots of a server with a prompt cache. *)
THEOREM PromptsMatch ==
    ASSUME NoChildrenInViews, NoPinWithCache
    PROVE  Spec => []PromptMatches
<1>1. Init => PromptsHold
  <2> SUFFICES ASSUME Init PROVE PromptsHold
    OBVIOUS
  <2> QED BY HoldsAnyway DEF Init, PromptsHold
<1>2. PromptsHold /\ SlotTypeOK /\ [Next]_vars => PromptsHold'
  <2> SUFFICES ASSUME PromptsHold, SlotTypeOK, [Next]_vars PROVE PromptsHold'
    OBVIOUS
  <2>1. CASE Next
    <3>1. setting' = setting
      BY <2>1 DEF Next, ReaderStep, MainStep, WorkerStep, Terminated, vars
    <3> QED BY <2>1, <3>1, PromptsStep DEF SlotTypeOK
  <2>2. CASE UNCHANGED vars
    <3>1. Parent' = Parent
      BY <2>2 DEF vars, Parent
    <3> QED BY <2>2, <3>1 DEF PromptsHold, Holds, Running, vars, main, prompts
  <2> QED BY <2>1, <2>2
<1>3. PromptsHold => PromptMatches
  BY DEF PromptsHold, Holds, Running, PromptMatches
<1> QED BY <1>1, <1>2, <1>3, SlotTypeCorrect, PTL DEF Spec

-----------------------------------------------------------------------------
(* Who has a task: the slots, and the results that wait.                    *)

Having(S, t) == {s \in S : slots[s].task = t}
Held(t) == Cardinality(Having(Slot, t))
Waiting(t) == Count(queue_results, ResultsFor({t}))
Got(t) == IF t \in received[RootOf(t)] THEN 1 ELSE 0
Asked(t) == Total({Entry("task", RootOf(t))})

(* Errors among the results for request r.                                  *)
Errors(r) == {Result(t, TRUE) : t \in Ids(r)}

ResultTypes ==
    /\ queue_results \in Seq(ResultsFor(Task))
    /\ reader \in [Root -> {"new", "waiting", "stop", "cleanup", "cancel", "done"}]
    /\ received = [r \in Root |-> received[r]]
    /\ waiting_task_ids = {t \in Task : reader[RootOf(t)] \in {"waiting", "stop"}}

(* There are finitely many slots. *)
LEMMA SlotsFinite == IsFiniteSet(Slot)
<1>1. NSlots \in Nat
  BY ServerAssumption
<1>2. 0 \in Int /\ NSlots - 1 \in Int
  BY <1>1
<1> QED BY <1>2, FS_Interval DEF Slot

(* The copies of a task, part by part.                                      *)
Parts(t) ==
    /\ Copies(t) = Asked(t) + Waiting(t) + Held(t) + Got(t)
    /\ Asked(t) \in Nat /\ Waiting(t) \in Nat /\ Held(t) \in Nat /\ Got(t) \in {0, 1}
    /\ Copies(t) \in Nat

(* The copies of a task are what its parts add up to. *)
LEMMA CopiesAre ==
    ASSUME QueueTypes, ResultTypes, NEW t
    PROVE  Parts(t)
<1>1. Asked(t) = Count(Entries, {Entry("task", RootOf(t))}) /\ Asked(t) \in Nat
  BY TotalIs DEF Asked
<1>2. Waiting(t) \in Nat
  BY CountFinite DEF ResultTypes, Waiting
<1>3. Held(t) \in Nat
  <2>1. IsFiniteSet(Having(Slot, t))
    BY SlotsFinite, FS_Subset DEF Having
  <2> QED BY <2>1, FS_CardinalityType DEF Held
<1>4. Got(t) \in {0, 1}
  BY DEF Got
<1>5. Copies(t) = Asked(t) + Waiting(t) + Held(t) + Got(t)
  BY <1>1 DEF Copies, Waiting, Held, Having, Got
<1> QED BY <1>1, <1>2, <1>3, <1>4, <1>5 DEF Parts

(* Slots S are released: their tasks are held by that many slots less. *)
LEMMA HeldAfterRelease ==
    ASSUME NEW S, S \subseteq Slot, NEW t, t # 0,
           \A s \in Slot : slots'[s].task = IF s \in S THEN 0 ELSE slots[s].task
    PROVE  /\ Held(t)' = Held(t) - Cardinality(Having(S, t))
           /\ Cardinality(Having(S, t)) \in Nat /\ Held(t) \in Nat /\ Held(t)' \in Nat
<1> DEFINE all == {s \in Slot : slots[s].task = t}
           out == {s \in S : slots[s].task = t}
           left == {s \in Slot : slots'[s].task = t}
<1>1. IsFiniteSet(all) /\ IsFiniteSet(out) /\ IsFiniteSet(left)
  BY SlotsFinite, FS_Subset
<1>2. all = left \cup out /\ left \cap out = {}
  OBVIOUS
<1>3. Held(t) = Cardinality(all) /\ Held(t)' = Cardinality(left)
  BY DEF Held, Having, Slot
<1> HIDE DEF all, out, left
<1>4. Cardinality(all) = Cardinality(left) + Cardinality(out)
  <2>1. Cardinality(left \cup out) = Cardinality(left) + Cardinality(out) - Cardinality(left \cap out)
    BY <1>1, FS_Union
  <2>2. Cardinality(left \cap out) = 0
    BY <1>2, FS_EmptySet
  <2>3. Cardinality(left) \in Nat /\ Cardinality(out) \in Nat
    BY <1>1, FS_CardinalityType
  <2> QED BY <1>2, <2>1, <2>2, <2>3
<1>5. Cardinality(left) \in Nat /\ Cardinality(out) \in Nat /\ Cardinality(all) \in Nat
  BY <1>1, FS_CardinalityType
<1> QED BY <1>3, <1>4, <1>5 DEF out, Having

(* A request is launched: one more slot has it, and each of its children. *)
LEMMA HeldAfterLaunch ==
    ASSUME SlotsTyped, setting \in Settings, NEW r \in Root, NEW place, Placed(r, place), NEW t \in Task
    PROVE  Held(t)' = Held(t) + (IF t \in Ids(r) THEN 1 ELSE 0)
<1> DEFINE had == {s \in Slot : slots[s].task = t}
           has == {s \in Slot : slots'[s].task = t}
<1>1. IsFiniteSet(had)
  BY SlotsFinite, FS_Subset
<1>2. Held(t) = Cardinality(had) /\ Held(t)' = Cardinality(has)
  BY DEF Held, Having, Slot
<1>3. \A u \in Ids(r) : place[u] \in Slot /\ slots[place[u]].task = 0 /\ slots'[place[u]].task = u
  <2>1. ASSUME NEW u PROVE Launched(u).task = u
    BY DEF Launched, Idle
  <2>2. \A s \in FreeSlots : s \in Slot /\ slots[s].task = 0
    BY DEF FreeSlots, Processing, SlotsTyped
  <2>3. \A u \in Ids(r) : place[u] \in FreeSlots /\ slots'[place[u]] = Launched(u)
    BY DEF Placed
  <2> QED BY <2>1, <2>2, <2>3
<1>4. \A s \in Slot : (\A u \in Ids(r) : place[u] # s) => slots'[s] = slots[s]
  BY DEF Placed
<1>5. t # 0
  BY SettingFacts
<1>6. CASE t \in Ids(r)
  <2>1. place[t] \notin had /\ place[t] \in Slot
    BY <1>3, <1>5, <1>6
  <2>2. has = had \cup {place[t]}
    <3>1. ASSUME NEW s \in Slot PROVE s \in has <=> s \in had \cup {place[t]}
      <4>1. CASE \E u \in Ids(r) : place[u] = s
        BY <1>3, <1>5, <1>6, <4>1
      <4>2. CASE \A u \in Ids(r) : place[u] # s
        BY <1>4, <1>6, <4>2
      <4> QED BY <4>1, <4>2
    <3> QED BY <2>1, <3>1
  <2> HIDE DEF had, has
  <2> QED BY <1>1, <1>2, <1>6, <2>1, <2>2, FS_AddElement
<1>7. CASE t \notin Ids(r)
  <2>1. has = had
    <3>1. ASSUME NEW s \in Slot PROVE s \in has <=> s \in had
      <4>1. CASE \E u \in Ids(r) : place[u] = s
        BY <1>3, <1>5, <1>7, <4>1
      <4>2. CASE \A u \in Ids(r) : place[u] # s
        BY <1>4, <4>2
      <4> QED BY <4>1, <4>2
    <3> QED BY <3>1
  <2>2. Cardinality(had) \in Nat
    BY <1>1, FS_CardinalityType
  <2> HIDE DEF had, has
  <2> QED BY <1>2, <1>7, <2>1, <2>2
<1> QED BY <1>6, <1>7

(* The same after a step. *)
LEMMA CopiesNext ==
    ASSUME NEW t
    PROVE  QueueTypes' /\ ResultTypes' => Parts(t)'
<1>1. QueueTypes /\ ResultTypes => Parts(t)
  BY CopiesAre
<1> QED BY <1>1, PTL

-----------------------------------------------------------------------------
(* What is sent.                                                            *)

(* Only results that somebody waits for are kept, behind the others. *)
LEMMA SendAdds ==
    ASSUME ResultTypes, NEW A, NEW res \in Seq(A), Send(res)
    PROVE  /\ queue_results' \in Seq(ResultsFor(Task))
           /\ \A T : /\ Count(queue_results', T)
                           = Count(queue_results, T) + Count(res, ResultsFor(waiting_task_ids) \cap T)
                     /\ Count(queue_results, T) \in Nat
                     /\ Count(res, ResultsFor(waiting_task_ids) \cap T) \in Nat
<1> DEFINE W == ResultsFor(waiting_task_ids)
<1>1. W \subseteq ResultsFor(Task)
  BY DEF ResultsFor, ResultTypes
<1> HIDE DEF W
<1>2. PICK q \in Seq(ResultsFor(Task)) : q = queue_results
  BY DEF ResultTypes
<1>3. PICK sent \in Seq(A \cap W) : sent = Select(res, W)
  BY SelectType
<1>4. sent \in Seq(ResultsFor(Task))
  BY <1>1, <1>3
<1>5. queue_results' = q \o sent
  BY <1>2, <1>3 DEF Send, W
<1>6. q \o sent \in Seq(ResultsFor(Task))
  BY <1>4
<1>7. ASSUME NEW T
      PROVE  /\ Count(queue_results', T) = Count(queue_results, T) + Count(res, W \cap T)
             /\ Count(queue_results, T) \in Nat /\ Count(res, W \cap T) \in Nat
  <2>1. Count(q \o sent, T) = Count(q, T) + Count(sent, T)
    BY <1>4, CountConcat
  <2>2. Count(sent, T) = Count(res, W \cap T)
    BY <1>3, CountSelect
  <2>3. Count(q, T) \in Nat /\ Count(res, W \cap T) \in Nat
    BY CountFinite
  <2> QED BY <1>2, <1>5, <2>1, <2>2, <2>3
<1> QED BY <1>5, <1>6, <1>7 DEF W

(* The results res answer the tasks of the slots S, each once.              *)
Answers(res, S) ==
    /\ \E A : res \in Seq(A)
    /\ \A t \in Task : Count(res, ResultsFor({t})) = Cardinality(Having(S, t))

(* The slots of S whose result is in T.                                     *)
With(S, error, T) == {s \in S : Result(slots[s].task, error) \in T}

(* Released slots give one result each. *)
LEMMA ResultsCount ==
    ASSUME NEW S, S \subseteq Slot, NEW error, NEW T
    PROVE  /\ ResultsOf(S, error) \in Seq({Result(slots[s].task, error) : s \in Slot})
           /\ Count(ResultsOf(S, error), T) = Cardinality(With(S, error, T))
<1> DEFINE f == [s \in Slot |-> Result(slots[s].task, error)]
           R == {Result(slots[s].task, error) : s \in Slot}
<1>1. PICK q \in Seq(Slot) : q = SlotsInOrder(S) /\ Distinct(q) /\ Range(q) = S
  BY SlotsOrdered
<1>2. ResultsOf(S, error) = [i \in DOMAIN q |-> Result(slots[q[i]].task, error)]
  BY <1>1 DEF ResultsOf
<1>3. \A i \in DOMAIN q : q[i] \in Slot
  OBVIOUS
<1>4. ResultsOf(S, error) = [i \in DOMAIN q |-> f[q[i]]]
  BY <1>2, <1>3
<1>5. \A s \in Slot : f[s] = Result(slots[s].task, error) /\ f[s] \in R
  OBVIOUS
<1> HIDE DEF f, R
<1>6. ResultsOf(S, error) \in Seq(R)
  BY <1>3, <1>4, <1>5
<1>7. Count(ResultsOf(S, error), T) = Cardinality(With(S, error, T))
  <2>1. Count([i \in DOMAIN q |-> f[q[i]]], T) = Cardinality({a \in Range(q) : f[a] \in T})
    BY <1>1, CountMapped
  <2>2. {a \in Range(q) : f[a] \in T} = With(S, error, T)
    BY <1>1, <1>5 DEF With
  <2> QED BY <1>4, <2>1, <2>2
<1> QED BY <1>6, <1>7 DEF R

(* A result is for its task, and no other. *)
LEMMA ResultIn ==
    ASSUME NEW x, NEW t, NEW error \in BOOLEAN
    PROVE  Result(x, error) \in ResultsFor({t}) <=> x = t
<1>1. ASSUME Result(x, error) \in ResultsFor({t}) PROVE x = t
  <2>1. PICK f \in BOOLEAN : Result(x, error) = Result(t, f)
    BY <1>1 DEF ResultsFor
  <2> QED BY <2>1 DEF Result
<1> QED BY <1>1 DEF ResultsFor

(* Released slots answer their tasks. *)
LEMMA AnswersOne ==
    ASSUME NEW S, S \subseteq Slot, NEW error \in BOOLEAN
    PROVE  Answers(ResultsOf(S, error), S)
<1>1. ASSUME NEW t \in Task
      PROVE  Count(ResultsOf(S, error), ResultsFor({t})) = Cardinality(Having(S, t))
  <2>1. With(S, error, ResultsFor({t})) = Having(S, t)
    <3>1. ASSUME NEW s \in S PROVE Result(slots[s].task, error) \in ResultsFor({t}) <=> slots[s].task = t
      <4>1. PICK x : x = slots[s].task
        OBVIOUS
      <4>2. Result(x, error) \in ResultsFor({t}) <=> x = t
        BY ResultIn
      <4> QED BY <4>1, <4>2
    <3> QED BY <3>1 DEF With, Having
  <2>2. PICK T : T = ResultsFor({t})
    OBVIOUS
  <2>3. Count(ResultsOf(S, error), T) = Cardinality(With(S, error, T))
    BY ResultsCount
  <2> QED BY <2>1, <2>2, <2>3
<1>2. \E A : ResultsOf(S, error) \in Seq(A)
  BY ResultsCount
<1> QED BY <1>1, <1>2 DEF Answers

(* The same with two kinds of answers. *)
LEMMA AnswersTwo ==
    ASSUME NEW E, NEW F, E \subseteq Slot, F \subseteq Slot, E \cap F = {},
           NEW e \in BOOLEAN, NEW f \in BOOLEAN
    PROVE  Answers(ResultsOf(E, e) \o ResultsOf(F, f), E \cup F)
<1> DEFINE R == {Result(slots[s].task, e) : s \in Slot} \cup {Result(slots[s].task, f) : s \in Slot}
<1>1. PICK p \in Seq(R) : p = ResultsOf(E, e)
  <2>1. ResultsOf(E, e) \in Seq({Result(slots[s].task, e) : s \in Slot})
    BY ResultsCount
  <2>2. \A q \in Seq({Result(slots[s].task, e) : s \in Slot}) : q \in Seq(R)
    OBVIOUS
  <2> QED BY <2>1, <2>2
<1>2. PICK q \in Seq(R) : q = ResultsOf(F, f)
  <2>1. ResultsOf(F, f) \in Seq({Result(slots[s].task, f) : s \in Slot})
    BY ResultsCount
  <2>2. \A r \in Seq({Result(slots[s].task, f) : s \in Slot}) : r \in Seq(R)
    OBVIOUS
  <2> QED BY <2>1, <2>2
<1> HIDE DEF R
<1>3. p \o q \in Seq(R)
  OBVIOUS
<1>4. ASSUME NEW t \in Task
      PROVE  Count(p \o q, ResultsFor({t})) = Cardinality(Having(E \cup F, t))
  <2> DEFINE H == Having(E, t)
             K == Having(F, t)
  <2>1. Count(p, ResultsFor({t})) = Cardinality(H) /\ Count(q, ResultsFor({t})) = Cardinality(K)
    BY <1>1, <1>2, AnswersOne DEF Answers
  <2>2. Count(p \o q, ResultsFor({t})) = Count(p, ResultsFor({t})) + Count(q, ResultsFor({t}))
    BY CountConcat
  <2>3. IsFiniteSet(H) /\ IsFiniteSet(K) /\ H \cap K = {}
    BY SlotsFinite, FS_Subset DEF Having
  <2>4. Having(E \cup F, t) = H \cup K
    BY DEF Having
  <2> HIDE DEF H, K
  <2>5. Cardinality(H \cup K) = Cardinality(H) + Cardinality(K)
    <3>1. Cardinality(H \cup K) = Cardinality(H) + Cardinality(K) - Cardinality(H \cap K)
      BY <2>3, FS_Union
    <3>2. Cardinality(H \cap K) = 0
      BY <2>3, FS_EmptySet
    <3>3. Cardinality(H) \in Nat /\ Cardinality(K) \in Nat
      BY <2>3, FS_CardinalityType
    <3> QED BY <3>1, <3>2, <3>3
  <2> QED BY <2>1, <2>2, <2>4, <2>5
<1> QED BY <1>1, <1>2, <1>3, <1>4 DEF Answers

(* Results that are sent: nobody's who does not wait. *)
LEMMA SendReaches ==
    ASSUME QueueTypes, ResultTypes, setting' = setting, NEW A, NEW res \in Seq(A), Send(res), UNCHANGED clients
    PROVE  /\ ResultTypes'
           /\ \A t \in Task : /\ t \in waiting_task_ids =>
                                    Waiting(t)' = Waiting(t) + Count(res, ResultsFor({t}))
                              /\ t \notin waiting_task_ids => Waiting(t)' = Waiting(t)
           /\ \A r \in Root :
                 /\ Count(queue_results, Errors(r)) <= Count(queue_results', Errors(r))
                 /\ reader[r] \notin {"waiting", "stop"} =>
                       Count(queue_results', ResultsFor(Ids(r))) = Count(queue_results, ResultsFor(Ids(r)))
<1> DEFINE W == ResultsFor(waiting_task_ids)
<1>1. /\ queue_results' \in Seq(ResultsFor(Task))
      /\ \A T : /\ Count(queue_results', T) = Count(queue_results, T) + Count(res, W \cap T)
                /\ Count(queue_results, T) \in Nat /\ Count(res, W \cap T) \in Nat
  BY SendAdds
<1>2. ASSUME NEW ids
      PROVE  W \cap ResultsFor(ids) = ResultsFor(waiting_task_ids \cap ids)
  BY DEF ResultsFor, Result
<1>3. ResultTypes'
  <2>1. Task' = Task /\ Root' = Root /\ \A t : RootOf(t)' = RootOf(t)
    BY SettingFixed
  <2>2. ResultsFor(Task)' = ResultsFor(Task)
    BY <2>1 DEF ResultsFor
  <2>3. UNCHANGED waiting_task_ids
    BY DEF Send
  <2> QED BY <1>1, <2>1, <2>2, <2>3 DEF ResultTypes, clients
<1>4. Count(res, {}) = 0
  BY CountZero
<1>5. ResultsFor({}) = {}
  BY DEF ResultsFor
<1> HIDE DEF W
<1>6. ASSUME NEW t \in Task
      PROVE  /\ t \in waiting_task_ids => Waiting(t)' = Waiting(t) + Count(res, ResultsFor({t}))
             /\ t \notin waiting_task_ids => Waiting(t)' = Waiting(t)
  <2>1. Waiting(t) = Count(queue_results, ResultsFor({t})) /\ Waiting(t)' = Count(queue_results', ResultsFor({t}))
    BY DEF Waiting, ResultsFor
  <2>2. ASSUME t \in waiting_task_ids PROVE W \cap ResultsFor({t}) = ResultsFor({t})
    <3>1. waiting_task_ids \cap {t} = {t}
      BY <2>2
    <3> QED BY <1>2, <3>1
  <2>3. ASSUME t \notin waiting_task_ids PROVE W \cap ResultsFor({t}) = {}
    <3>1. waiting_task_ids \cap {t} = {}
      BY <2>3
    <3> QED BY <1>2, <1>5, <3>1
  <2>4. Waiting(t)' = Waiting(t) + Count(res, W \cap ResultsFor({t})) /\ Waiting(t) \in Nat
    BY <1>1, <2>1
  <2>5. t \in waiting_task_ids => Count(res, W \cap ResultsFor({t})) = Count(res, ResultsFor({t}))
    BY <2>2
  <2>6. t \notin waiting_task_ids => Count(res, W \cap ResultsFor({t})) = 0
    BY <1>4, <2>3
  <2> QED BY <2>4, <2>5, <2>6
<1>7. ASSUME NEW r \in Root
      PROVE  Count(queue_results, Errors(r)) <= Count(queue_results', Errors(r))
  <2>1. PICK T : T = Errors(r)
    OBVIOUS
  <2>2. /\ Count(queue_results', T) = Count(queue_results, T) + Count(res, W \cap T)
        /\ Count(queue_results, T) \in Nat /\ Count(res, W \cap T) \in Nat
    BY <1>1
  <2>3. Count(queue_results, T) <= Count(queue_results', T)
    BY <2>2
  <2> QED BY <2>1, <2>3
<1>8. ASSUME NEW r \in Root, reader[r] \notin {"waiting", "stop"}
      PROVE  Count(queue_results', ResultsFor(Ids(r))) = Count(queue_results, ResultsFor(Ids(r)))
  <2>1. waiting_task_ids \cap Ids(r) = {}
    <3>1. \A t \in Task : t \in Ids(r) => RootOf(t) = r
      BY SettingFacts DEF QueueTypes
    <3> QED BY <1>8, <3>1 DEF ResultTypes
  <2>2. W \cap ResultsFor(Ids(r)) = {}
    BY <1>2, <1>5, <2>1
  <2>3. Count(queue_results', ResultsFor(Ids(r)))
        = Count(queue_results, ResultsFor(Ids(r))) + Count(res, W \cap ResultsFor(Ids(r)))
        /\ Count(queue_results, ResultsFor(Ids(r))) \in Nat
    BY <1>1
  <2>4. Count(res, W \cap ResultsFor(Ids(r))) = 0
    BY <1>4, <2>2
  <2> QED BY <2>3, <2>4
<1> QED BY <1>3, <1>6, <1>7, <1>8

-----------------------------------------------------------------------------
(* What a step of the server does to the copies of a task: there are never  *)
(* more of them, and as many for a reader that waits, unless an error is    *)
(* sent to it.                                                              *)
Settled ==
    /\ QueueTypes' /\ ResultTypes'
    /\ \A t \in Task : /\ Copies(t)' <= Copies(t)
                       /\ Total({Entry("cancel", t)})' <= Total({Entry("cancel", t)})
    /\ \A r \in Root :
          /\ Count(queue_results, Errors(r)) <= Count(queue_results', Errors(r))
          /\ reader[r] \notin {"waiting", "stop"} =>
                Count(queue_results', ResultsFor(Ids(r))) = Count(queue_results, ResultsFor(Ids(r)))
          /\ reader[r] = "waiting" =>
                (\A t \in Ids(r) : Copies(t)' = Copies(t)) \/ Count(queue_results', Errors(r)) > 0

(* Entries of different kinds are different. *)
LEMMA EntriesDiffer ==
    /\ \A r, t : Entry("task", r) # Entry("cancel", t) /\ NextResponse # Entry("task", r)
                 /\ NextResponse # Entry("cancel", t)
    /\ \A type, r, t : Entry(type, r) = Entry(type, t) => r = t
BY DEF Entry, NextResponse

(* Steps that only move entries. *)
LEMMA MoveSettles ==
    ASSUME QueueTypes, ResultTypes, setting' = setting, Moved, UNCHANGED <<results, clients>>,
           \A s \in Slot : slots'[s].task = slots[s].task
    PROVE  Settled
<1>1. Task' = Task /\ Root' = Root /\ \A t : RootOf(t)' = RootOf(t)
  BY SettingFixed
<1>2. QueueTypes'
  BY DEF Moved
<1>3. ResultTypes'
  BY <1>1 DEF ResultTypes, ResultsFor, results, clients
<1>4. ASSUME NEW t \in Task
      PROVE  Copies(t)' = Copies(t) /\ Copies(t) \in Nat
             /\ Total({Entry("cancel", t)})' <= Total({Entry("cancel", t)})
  <2>1. Parts(t) /\ Parts(t)'
    BY <1>2, <1>3, CopiesAre, CopiesNext
  <2>2. NextResponse \notin {Entry("task", RootOf(t))} /\ NextResponse \notin {Entry("cancel", t)}
    BY EntriesDiffer
  <2>3. Asked(t)' = Asked(t) /\ Total({Entry("cancel", t)})' = Total({Entry("cancel", t)})
    <3>1. Total({Entry("task", RootOf(t))})' = Total({Entry("task", RootOf(t))})
      BY <1>1, <2>2 DEF Moved, Entry
    <3>2. Total({Entry("cancel", t)})' = Total({Entry("cancel", t)})
      BY <2>2 DEF Moved, Entry
    <3> QED BY <1>1, <3>1, <3>2 DEF Asked, Entry
  <2>4. Waiting(t)' = Waiting(t) /\ Got(t)' = Got(t)
    BY <1>1 DEF Waiting, Got, results, clients, ResultsFor, Result
  <2>5. Held(t)' = Held(t)
    <3>1. {s \in Slot : slots'[s].task = t} = {s \in Slot : slots[s].task = t}
      OBVIOUS
    <3> QED BY <3>1 DEF Held, Having, Slot
  <2>6. Total({Entry("cancel", t)}) \in Nat
    BY EntryCounts
  <2> QED BY <2>1, <2>3, <2>4, <2>5, <2>6 DEF Parts
<1>5. \A r \in Root : Ids(r) \subseteq Task
  BY SettingFacts DEF QueueTypes
<1>6. ASSUME NEW T PROVE Count(queue_results', T) = Count(queue_results, T) /\ Count(queue_results, T) \in Nat
  <2>1. Count(queue_results, T) \in Nat
    BY CountFinite DEF ResultTypes
  <2> QED BY <2>1 DEF results
<1>7. ASSUME NEW r \in Root
      PROVE  /\ Count(queue_results, Errors(r)) <= Count(queue_results', Errors(r))
             /\ Count(queue_results', ResultsFor(Ids(r))) = Count(queue_results, ResultsFor(Ids(r)))
             /\ \A t \in Ids(r) : Copies(t)' = Copies(t)
  <2>1. PICK T : T = Errors(r)
    OBVIOUS
  <2>2. Count(queue_results, T) <= Count(queue_results', T)
    BY <1>6
  <2> QED BY <1>4, <1>5, <1>6, <2>1, <2>2
<1>8. ASSUME NEW t \in Task PROVE Copies(t)' <= Copies(t)
  <2>1. Copies(t)' = Copies(t)
    BY <1>4
  <2>2. Copies(t) \in Nat
    BY <1>4
  <2>3. \A n \in Nat : n <= n
    OBVIOUS
  <2> QED BY <2>1, <2>2, <2>3
<1> QED BY <1>2, <1>3, <1>4, <1>7, <1>8 DEF Settled

(* Whoever waits for request r waits for each of its tasks. *)
LEMMA ReaderWaits ==
    ASSUME QueueTypes, ResultTypes, NEW r \in Root, reader[r] = "waiting", NEW t \in Ids(r)
    PROVE  t \in Task /\ RootOf(t) = r /\ t \in waiting_task_ids
<1>1. t \in Task
  BY SettingFacts DEF QueueTypes
<1>2. RootOf(t) = r
  BY <1>1, SettingFacts DEF QueueTypes
<1> QED BY <1>1, <1>2 DEF ResultTypes

(* Steps that release slots and answer their tasks. *)
LEMMA ReleaseSettles ==
    ASSUME QueueTypes, ResultTypes, setting' = setting, Moved, UNCHANGED clients,
           NEW S, S \subseteq Slot, NEW res, Answers(res, S), Send(res),
           \A s \in Slot : slots'[s].task = IF s \in S THEN 0 ELSE slots[s].task
    PROVE  Settled
<1>1. Task' = Task /\ Root' = Root /\ \A t : RootOf(t)' = RootOf(t)
  BY SettingFixed
<1>2. PICK A : res \in Seq(A)
  BY DEF Answers
<1>3. /\ ResultTypes'
      /\ \A t \in Task : /\ t \in waiting_task_ids =>
                               Waiting(t)' = Waiting(t) + Count(res, ResultsFor({t}))
                         /\ t \notin waiting_task_ids => Waiting(t)' = Waiting(t)
      /\ \A r \in Root :
            /\ Count(queue_results, Errors(r)) <= Count(queue_results', Errors(r))
            /\ reader[r] \notin {"waiting", "stop"} =>
                  Count(queue_results', ResultsFor(Ids(r))) = Count(queue_results, ResultsFor(Ids(r)))
  BY <1>2, SendReaches
<1>4. QueueTypes'
  BY DEF Moved
<1>5. ASSUME NEW t \in Task
      PROVE  /\ Copies(t)' <= Copies(t)
             /\ t \in waiting_task_ids => Copies(t)' = Copies(t)
             /\ Total({Entry("cancel", t)})' <= Total({Entry("cancel", t)})
  <2>1. Parts(t) /\ Parts(t)'
    BY <1>3, <1>4, CopiesAre, CopiesNext
  <2>2. NextResponse \notin {Entry("task", RootOf(t))} /\ NextResponse \notin {Entry("cancel", t)}
    BY EntriesDiffer
  <2>3. Asked(t)' = Asked(t)
    <3>1. Total({Entry("task", RootOf(t))})' = Total({Entry("task", RootOf(t))})
      BY <1>1, <2>2 DEF Moved, Entry
    <3> QED BY <1>1, <3>1 DEF Asked, Entry
  <2>4. Total({Entry("cancel", t)})' = Total({Entry("cancel", t)}) /\ Total({Entry("cancel", t)}) \in Nat
    <3>1. Total({Entry("cancel", t)})' = Total({Entry("cancel", t)})
      BY <2>2 DEF Moved, Entry
    <3> QED BY <3>1, EntryCounts
  <2>5. Got(t)' = Got(t)
    BY <1>1 DEF Got, clients
  <2>6. PICK n \in Nat : n = Cardinality(Having(S, t))
                         /\ Held(t)' = Held(t) - n /\ Held(t) \in Nat /\ Held(t)' \in Nat
    <3>1. t # 0
      BY SettingFacts DEF QueueTypes
    <3> QED BY <3>1, HeldAfterRelease
  <2>7. Count(res, ResultsFor({t})) = n
    BY <2>6 DEF Answers
  <2>8. CASE t \in waiting_task_ids
    <3>1. Waiting(t)' = Waiting(t) + n
      BY <1>3, <2>7, <2>8
    <3>2. Copies(t)' = Copies(t) /\ Copies(t) \in Nat
      BY <2>1, <2>3, <2>5, <2>6, <3>1 DEF Parts
    <3> QED BY <2>4, <3>2
  <2>9. CASE t \notin waiting_task_ids
    <3>1. Waiting(t)' = Waiting(t)
      BY <1>3, <2>9
    <3>2. Copies(t)' <= Copies(t)
      BY <2>1, <2>3, <2>5, <2>6, <3>1 DEF Parts
    <3> QED BY <2>4, <2>9, <3>2
  <2> QED BY <2>8, <2>9
<1>6. ASSUME NEW r \in Root, reader[r] = "waiting", NEW t \in Ids(r)
      PROVE  Copies(t)' = Copies(t)
  <2>1. t \in Task /\ t \in waiting_task_ids
    BY <1>6, ReaderWaits
  <2> QED BY <1>5, <2>1
<1> QED BY <1>3, <1>4, <1>5, <1>6 DEF Settled

(* Steps that answer the request in a thread's hands at once: with an error *)
(* for one of its tasks, or a result for the only one. *)
LEMMA AnswerSettles ==
    ASSUME QueueTypes, ResultTypes, setting' = setting, UNCHANGED clients, UNCHANGED slots,
           NEW r \in Root, Consumed(<<Entry("task", r)>>),
           NEW a \in Ids(r), NEW error \in BOOLEAN, Send(<<Result(a, error)>>), error = TRUE \/ Ids(r) = {a}
    PROVE  Settled
<1> DEFINE res == <<Result(a, error)>>
<1>1. Task' = Task /\ Root' = Root /\ \A t : RootOf(t)' = RootOf(t)
  BY SettingFixed
<1>2. a \in Task /\ RootOf(a) = r /\ Ids(r) \subseteq Task /\ \A t \in Task : t \in Ids(r) <=> RootOf(t) = r
  BY SettingFacts DEF QueueTypes
<1>3. res \in Seq({Result(a, error)})
  OBVIOUS
<1>4. /\ ResultTypes'
      /\ \A t \in Task : /\ t \in waiting_task_ids =>
                               Waiting(t)' = Waiting(t) + Count(res, ResultsFor({t}))
                         /\ t \notin waiting_task_ids => Waiting(t)' = Waiting(t)
      /\ \A q \in Root :
            /\ Count(queue_results, Errors(q)) <= Count(queue_results', Errors(q))
            /\ reader[q] \notin {"waiting", "stop"} =>
                  Count(queue_results', ResultsFor(Ids(q))) = Count(queue_results, ResultsFor(Ids(q)))
  BY <1>3, SendReaches
<1>5. QueueTypes' /\ \A T : NextResponse \notin T => Total(T)' = Total(T) - (IF Entry("task", r) \in T THEN 1 ELSE 0)
  <2>1. PICK e \in EntryTypes : /\ <<Entry("task", r)>> = <<e>>
                                /\ \A T : NextResponse \notin T => Total(T)' = Total(T) - (IF e \in T THEN 1 ELSE 0)
    BY DEF Consumed
  <2>2. e = Entry("task", r)
    BY <2>1
  <2> QED BY <2>1, <2>2 DEF Consumed
<1>6. ASSUME NEW t \in Task
      PROVE  Count(res, ResultsFor({t})) = IF t = a THEN 1 ELSE 0
  <2>1. Result(a, error) \in ResultsFor({t}) <=> a = t
    BY ResultIn
  <2> QED BY <2>1, CountOne
<1> HIDE DEF res
<1>7. ASSUME NEW t \in Task
      PROVE  /\ Copies(t)' <= Copies(t) /\ Copies(t)' \in Nat /\ Copies(t) \in Nat
             /\ t \notin Ids(r) \/ (t = a /\ t \in waiting_task_ids) => Copies(t)' = Copies(t)
             /\ Total({Entry("cancel", t)})' <= Total({Entry("cancel", t)})
  <2>1. Parts(t) /\ Parts(t)'
    BY <1>4, <1>5, CopiesAre, CopiesNext
  <2>2. /\ NextResponse \notin {Entry("task", RootOf(t))} /\ NextResponse \notin {Entry("cancel", t)}
        /\ Entry("task", r) \notin {Entry("cancel", t)}
        /\ Entry("task", r) \in {Entry("task", RootOf(t))} <=> t \in Ids(r)
    BY <1>2, EntriesDiffer
  <2>3. Asked(t)' = Asked(t) - (IF t \in Ids(r) THEN 1 ELSE 0)
    <3>1. PICK T : T = {Entry("task", RootOf(t))}
      OBVIOUS
    <3>2. Total(T)' = Total(T) - (IF t \in Ids(r) THEN 1 ELSE 0)
      BY <1>5, <2>2, <3>1
    <3>3. T = {Entry("task", RootOf(t)')}
      BY <1>1, <3>1
    <3> QED BY <3>1, <3>2, <3>3 DEF Asked, Entry
  <2>4. Total({Entry("cancel", t)})' = Total({Entry("cancel", t)}) /\ Total({Entry("cancel", t)}) \in Nat
    <3>1. Total({Entry("cancel", t)})' = Total({Entry("cancel", t)}) - 0
      BY <1>5, <2>2 DEF Entry
    <3>2. Total({Entry("cancel", t)}) \in Nat
      BY EntryCounts
    <3> QED BY <3>1, <3>2
  <2>5. Got(t)' = Got(t) /\ Held(t)' = Held(t)
    BY <1>1 DEF Got, clients, Held, Having, Slot
  <2>6. Waiting(t)' = Waiting(t) + (IF t = a /\ t \in waiting_task_ids THEN 1 ELSE 0)
    <3>1. Waiting(t) \in Nat
      BY <2>1 DEF Parts
    <3>2. CASE t \in waiting_task_ids
      BY <1>4, <1>6, <3>1, <3>2
    <3>3. CASE t \notin waiting_task_ids
      <4>1. Waiting(t)' = Waiting(t)
        BY <1>4, <3>3
      <4> QED BY <3>1, <3>3, <4>1
    <3> QED BY <3>2, <3>3
  <2>7. t = a => t \in Ids(r)
    OBVIOUS
  <2>8. /\ Copies(t)' <= Copies(t) /\ Copies(t)' \in Nat /\ Copies(t) \in Nat
        /\ t \notin Ids(r) \/ (t = a /\ t \in waiting_task_ids) => Copies(t)' = Copies(t)
    BY <2>1, <2>3, <2>5, <2>6, <2>7 DEF Parts
  <2> QED BY <2>4, <2>8
<1>8. ASSUME NEW q \in Root, reader[q] = "waiting"
      PROVE  (\A t \in Ids(q) : Copies(t)' = Copies(t)) \/ Count(queue_results', Errors(q)) > 0
  <2>1. CASE q # r
    <3>1. \A t \in Ids(q) : t \in Task /\ t \notin Ids(r)
      BY <1>2, <1>8, <2>1, ReaderWaits
    <3> QED BY <1>7, <3>1
  <2>2. CASE q = r
    <3>1. a \in waiting_task_ids
      BY <1>8, <2>2, ReaderWaits
    <3>2. CASE Ids(r) = {a}
      BY <1>2, <1>7, <2>2, <3>1, <3>2
    <3>3. CASE error = TRUE
      <4>1. Result(a, error) \in ResultsFor(waiting_task_ids) \cap Errors(q)
        <5>1. Result(a, error) = Result(a, TRUE)
          BY <3>3
        <5>2. Result(a, error) \in ResultsFor(waiting_task_ids)
          BY <3>1 DEF ResultsFor
        <5>3. Result(a, TRUE) \in Errors(q)
          BY <2>2 DEF Errors
        <5> QED BY <5>1, <5>2, <5>3
      <4>2. Count(res, ResultsFor(waiting_task_ids) \cap Errors(q)) = 1
        BY <4>1, CountOne DEF res
      <4>3. PICK T : T = Errors(q)
        OBVIOUS
      <4>4. Count(queue_results', T) = Count(queue_results, T) + Count(res, ResultsFor(waiting_task_ids) \cap T)
            /\ Count(queue_results, T) \in Nat
        BY <1>3, SendAdds DEF res
      <4>5. Count(queue_results', T) > 0
        BY <4>2, <4>3, <4>4
      <4> QED BY <4>3, <4>5
    <3> QED BY <3>2, <3>3
  <2> QED BY <2>1, <2>2
<1> QED BY <1>4, <1>5, <1>7, <1>8 DEF Settled

(* A request is launched: its tasks leave the threads' hands for slots. *)
LEMMA LaunchSettles ==
    ASSUME QueueTypes, SlotsTyped, ResultTypes, setting' = setting, HandleLaunch
    PROVE  Settled
<1>1. Task' = Task /\ Root' = Root /\ \A t : RootOf(t)' = RootOf(t)
  BY SettingFixed
<1>0. PICK r \in Root : r = taken[1].id /\ \E place : Placed(r, place)
  BY LaunchPlaces
<1>2. PICK place : r = taken[1].id /\ Placed(r, place)
  BY <1>0
<1>3. taken = <<Entry("task", r)>>
  BY <1>2, TakenTask DEF HandleLaunch
<1>4. QueueTypes' /\ \A T : NextResponse \notin T => Total(T)' = Total(T) - (IF Entry("task", r) \in T THEN 1 ELSE 0)
  <2>1. Consumed(taken)
    BY StepConsumes
  <2>2. PICK e \in EntryTypes : /\ taken = <<e>>
                                /\ \A T : NextResponse \notin T => Total(T)' = Total(T) - (IF e \in T THEN 1 ELSE 0)
    BY <2>1 DEF Consumed
  <2>3. e = Entry("task", r)
    BY <1>3, <2>2
  <2> QED BY <2>1, <2>2, <2>3 DEF Consumed
<1>5. UNCHANGED <<results, clients>>
  BY DEF HandleLaunch, Taken
<1>6. ResultTypes'
  BY <1>1, <1>5 DEF ResultTypes, ResultsFor, results, clients
<1>7. Ids(r) \subseteq Task /\ \A t \in Task : t \in Ids(r) <=> RootOf(t) = r
  BY SettingFacts DEF QueueTypes
<1>8. ASSUME NEW t \in Task
      PROVE  /\ Copies(t)' = Copies(t) /\ Copies(t) \in Nat
             /\ Total({Entry("cancel", t)})' <= Total({Entry("cancel", t)})
  <2>1. Parts(t) /\ Parts(t)'
    BY <1>4, <1>6, CopiesAre, CopiesNext
  <2>2. /\ NextResponse \notin {Entry("task", RootOf(t))} /\ NextResponse \notin {Entry("cancel", t)}
        /\ Entry("task", r) \notin {Entry("cancel", t)}
        /\ Entry("task", r) \in {Entry("task", RootOf(t))} <=> t \in Ids(r)
    BY <1>7, EntriesDiffer
  <2>3. Asked(t)' = Asked(t) - (IF t \in Ids(r) THEN 1 ELSE 0)
    <3>1. PICK T : T = {Entry("task", RootOf(t))}
      OBVIOUS
    <3>2. Total(T)' = Total(T) - (IF t \in Ids(r) THEN 1 ELSE 0)
      BY <1>4, <2>2, <3>1
    <3>3. T = {Entry("task", RootOf(t)')}
      BY <1>1, <3>1
    <3> QED BY <3>1, <3>2, <3>3 DEF Asked, Entry
  <2>4. Total({Entry("cancel", t)})' = Total({Entry("cancel", t)}) /\ Total({Entry("cancel", t)}) \in Nat
    <3>1. Total({Entry("cancel", t)})' = Total({Entry("cancel", t)}) - 0
      BY <1>4, <2>2 DEF Entry
    <3>2. Total({Entry("cancel", t)}) \in Nat
      BY EntryCounts
    <3> QED BY <3>1, <3>2
  <2>5. Got(t)' = Got(t) /\ Waiting(t)' = Waiting(t)
    BY <1>1, <1>5 DEF Got, Waiting, results, clients, ResultsFor, Result
  <2>6. Held(t)' = Held(t) + (IF t \in Ids(r) THEN 1 ELSE 0)
    BY <1>2, HeldAfterLaunch DEF QueueTypes
  <2>7. Copies(t)' = Copies(t) /\ Copies(t) \in Nat
    BY <2>1, <2>3, <2>5, <2>6 DEF Parts
  <2> QED BY <2>4, <2>7
<1>9. ASSUME NEW T PROVE Count(queue_results', T) = Count(queue_results, T) /\ Count(queue_results, T) \in Nat
  <2>1. Count(queue_results, T) \in Nat
    BY CountFinite DEF ResultTypes
  <2> QED BY <1>5, <2>1 DEF results
<1>10. ASSUME NEW q \in Root
       PROVE  /\ Count(queue_results, Errors(q)) <= Count(queue_results', Errors(q))
              /\ Count(queue_results', ResultsFor(Ids(q))) = Count(queue_results, ResultsFor(Ids(q)))
              /\ \A t \in Ids(q) : Copies(t)' = Copies(t)
  <2>1. PICK T : T = Errors(q)
    OBVIOUS
  <2>2. Count(queue_results, T) <= Count(queue_results', T)
    BY <1>9
  <2>3. Ids(q) \subseteq Task
    BY SettingFacts DEF QueueTypes
  <2> QED BY <1>8, <1>9, <2>1, <2>2, <2>3
<1>11. ASSUME NEW t \in Task PROVE Copies(t)' <= Copies(t)
  <2>1. Copies(t)' = Copies(t)
    BY <1>8
  <2>2. Copies(t) \in Nat
    BY <1>8
  <2>3. \A n \in Nat : n <= n
    OBVIOUS
  <2> QED BY <2>1, <2>2, <2>3
<1> QED BY <1>4, <1>6, <1>8, <1>10, <1>11 DEF Settled

(* Tasks are cancelled only after their reader has done with them.          *)
Uncancelled == \A t \in Task : reader[RootOf(t)] # "done" => Total({Entry("cancel", t)}) = 0

(* A task is cancelled: nobody waits for it. *)
LEMMA CancelSettles ==
    ASSUME QueueTypes, SlotsTyped, ResultTypes, Uncancelled, setting' = setting, HandleCancel
    PROVE  Settled
<1>1. Task' = Task /\ Root' = Root /\ \A t : RootOf(t)' = RootOf(t)
  BY SettingFixed
<1>2. PICK c \in Task : taken = <<Entry("cancel", c)>>
  <2>1. PICK e \in EntryTypes : taken = <<e>>
    BY DEF QueueTypes, HandleCancel
  <2>2. e.type = "cancel"
    BY <2>1 DEF HandleCancel
  <2>3. e \in {Entry("cancel", t) : t \in Task}
    BY <2>2 DEF EntryTypes, NextResponse, Entry
  <2> QED BY <2>1, <2>3
<1>3. taken[1].id = c
  BY <1>2 DEF Entry
<1>4. reader[RootOf(c)] = "done"
  <2>1. Count(taken, {Entry("cancel", c)}) = 1
    BY <1>2, CountOne
  <2>2. Total({Entry("cancel", c)}) # 0
    <3>1. PICK T : T = {Entry("cancel", c)}
      OBVIOUS
    <3>2. Count(taken, T) = 1
      BY <2>1, <3>1
    <3>3. Count(queue_tasks, T) \in Nat /\ Count(queue_tasks_deferred, T) \in Nat
          /\ Count(queue_tasks_unhandled, T) \in Nat /\ Count(taken_yield, T) \in Nat
      BY EntryCounts
    <3>4. Total(T) # 0
      BY <3>2, <3>3 DEF Total
    <3> QED BY <3>1, <3>4
  <2> QED BY <2>2 DEF Uncancelled
<1>5. QueueTypes' /\ \A T : NextResponse \notin T => Total(T)' = Total(T) - (IF Entry("cancel", c) \in T THEN 1 ELSE 0)
  <2>1. Consumed(taken)
    BY StepConsumes
  <2>2. PICK e \in EntryTypes : /\ taken = <<e>>
                                /\ \A T : NextResponse \notin T => Total(T)' = Total(T) - (IF e \in T THEN 1 ELSE 0)
    BY <2>1 DEF Consumed
  <2>3. e = Entry("cancel", c)
    BY <1>2, <2>2
  <2> QED BY <2>1, <2>2, <2>3 DEF Consumed
<1>6. UNCHANGED <<results, clients>>
  BY DEF HandleCancel
<1>7. ResultTypes'
  BY <1>1, <1>6 DEF ResultTypes, ResultsFor, results, clients
<1>8. PICK S : S = Having(Slot, c)
  OBVIOUS
<1>9. S \subseteq Slot /\ \A s \in Slot : slots'[s].task = IF s \in S THEN 0 ELSE slots[s].task
  BY <1>3, <1>8 DEF HandleCancel, Having, Idle
<1>10. ASSUME NEW t \in Task
       PROVE  /\ Copies(t)' <= Copies(t)
              /\ t # c => Copies(t)' = Copies(t)
              /\ Total({Entry("cancel", t)})' <= Total({Entry("cancel", t)})
  <2>1. Parts(t) /\ Parts(t)'
    BY <1>5, <1>7, CopiesAre, CopiesNext
  <2>2. /\ NextResponse \notin {Entry("task", RootOf(t))} /\ NextResponse \notin {Entry("cancel", t)}
        /\ Entry("cancel", c) \notin {Entry("task", RootOf(t))}
    BY EntriesDiffer
  <2>3. Asked(t)' = Asked(t)
    <3>1. PICK T : T = {Entry("task", RootOf(t))}
      OBVIOUS
    <3>2. Total(T)' = Total(T) - 0
      BY <1>5, <2>2, <3>1
    <3>3. T = {Entry("task", RootOf(t)')}
      BY <1>1, <3>1
    <3>4. Total(T) \in Nat
      BY EntryCounts
    <3> QED BY <3>1, <3>2, <3>3, <3>4 DEF Asked, Entry
  <2>4. Total({Entry("cancel", t)})' <= Total({Entry("cancel", t)})
    <3>1. PICK T : T = {Entry("cancel", t)}
      OBVIOUS
    <3>2. NextResponse \notin T
      BY <2>2, <3>1
    <3>3. Total(T)' = Total(T) - (IF Entry("cancel", c) \in T THEN 1 ELSE 0)
      BY <1>5, <3>2
    <3>4. Total(T) \in Nat
      BY EntryCounts
    <3>5. Total(T)' <= Total(T)
      BY <3>3, <3>4
    <3> QED BY <3>1, <3>5 DEF Entry
  <2>5. Got(t)' = Got(t) /\ Waiting(t)' = Waiting(t)
    BY <1>1, <1>6 DEF Got, Waiting, results, clients, ResultsFor, Result
  <2>6. PICK n \in Nat : n = Cardinality(Having(S, t))
                         /\ Held(t)' = Held(t) - n /\ Held(t) \in Nat /\ Held(t)' \in Nat
    <3>1. t # 0
      BY SettingFacts DEF QueueTypes
    <3> QED BY <1>9, <3>1, HeldAfterRelease
  <2>7. Copies(t)' <= Copies(t)
    BY <2>1, <2>3, <2>5, <2>6 DEF Parts
  <2>8. ASSUME t # c PROVE Copies(t)' = Copies(t)
    <3>1. Having(S, t) = {}
      BY <1>8, <2>8 DEF Having
    <3>2. n = 0
      BY <2>6, <3>1, FS_EmptySet
    <3> QED BY <2>1, <2>3, <2>5, <2>6, <3>2 DEF Parts
  <2> QED BY <2>4, <2>7, <2>8
<1>11. ASSUME NEW T PROVE Count(queue_results', T) = Count(queue_results, T) /\ Count(queue_results, T) \in Nat
  <2>1. Count(queue_results, T) \in Nat
    BY CountFinite DEF ResultTypes
  <2> QED BY <1>6, <2>1 DEF results
<1>12. ASSUME NEW q \in Root
       PROVE  /\ Count(queue_results, Errors(q)) <= Count(queue_results', Errors(q))
              /\ Count(queue_results', ResultsFor(Ids(q))) = Count(queue_results, ResultsFor(Ids(q)))
              /\ reader[q] = "waiting" => \A t \in Ids(q) : Copies(t)' = Copies(t)
  <2>1. PICK T : T = Errors(q)
    OBVIOUS
  <2>2. Count(queue_results, T) <= Count(queue_results', T)
    BY <1>11
  <2>3. ASSUME reader[q] = "waiting", NEW t \in Ids(q) PROVE Copies(t)' = Copies(t)
    BY <1>4, <1>10, <2>3, ReaderWaits
  <2> QED BY <1>11, <2>1, <2>2, <2>3
<1> QED BY <1>5, <1>7, <1>10, <1>12 DEF Settled

-----------------------------------------------------------------------------
(* Every step of the server settles.                                        *)

(* Only slots have results. *)
LEMMA ResultsOfSlots ==
    ASSUME NEW S, NEW error
    PROVE  ResultsOf(S, error) = ResultsOf(S \cap Slot, error)
<1>1. NSlots \in Nat
  BY ServerAssumption
<1>2. PICK q \in Seq(Slot) : q = [i \in 1 .. NSlots |-> i - 1]
  <2>1. \A i \in 1 .. NSlots : i - 1 \in Slot
    BY <1>1 DEF Slot
  <2>2. [i \in 1 .. NSlots |-> i - 1] \in Seq(Slot)
    BY <1>1, <2>1
  <2> QED BY <2>2
<1>3. PICK T : T = S \cap Slot
  OBVIOUS
<1>4. Slot \cap S = Slot \cap T
  BY <1>3
<1>5. Select(q, S) = Select(q, T)
  BY <1>4, SelectSame
<1>6. SlotsInOrder(S) = SlotsInOrder(T)
  BY <1>2, <1>5 DEF SlotsInOrder
<1> QED BY <1>3, <1>6 DEF ResultsOf

(* Steps that only move entries, and change no slot's task. *)
LEMMA MovesSettle ==
    ASSUME QueueTypes, SlotsTyped, ResultTypes, setting' = setting,
           \/ TakeTask \/ YieldTake \/ HandleDefer \/ HandleNextResponse \/ UpdateSlots \/ Decode \/ Wake
           \/ HandleSlotAction /\ Processing(Pin[taken[1].id])
           \/ YieldHandle /\ ~IsMetrics(taken_yield[1])
    PROVE  Settled
<1> USE DEF main
<1>1. Moved
  BY StepMoves
<1>2. UNCHANGED <<results, clients>>
  BY DEF TakeTask, YieldTake, HandleDefer, HandleNextResponse, UpdateSlots, Decode, Wake, HandleSlotAction,
         YieldHandle, Taken
<1>3. ASSUME NEW s \in Slot PROVE slots'[s].task = slots[s].task
  <2>1. CASE Decode
    <3>1. CASE slots'[s] = slots[s]
      BY <3>1
    <3>2. ASSUME NEW w, slots'[s] = [slots[s] EXCEPT !.state = "DONE_PROMPT", !.whole = w]
          PROVE  slots'[s].task = slots[s].task
      <4>1. slots[s] \in SlotTypes
        BY DEF SlotsTyped
      <4>2. PICK x : x = [slots[s] EXCEPT !.state = "DONE_PROMPT"]
        OBVIOUS
      <4>3. x \in SlotTypes /\ x.task = slots[s].task
        BY <4>1, <4>2 DEF SlotTypes, States
      <4>4. slots'[s] = [x EXCEPT !.whole = w]
        BY <3>2, <4>2
      <4> QED BY <4>3, <4>4 DEF SlotTypes
    <3> QED BY <2>1, <3>1, <3>2, DecodeSlots
  <2>2. CASE UNCHANGED slots
    BY <2>2
  <2> QED BY <2>1, <2>2 DEF TakeTask, YieldTake, HandleDefer, HandleNextResponse, UpdateSlots, Wake,
                            HandleSlotAction, YieldHandle
<1> QED BY <1>1, <1>2, <1>3, MoveSettles

(* Steps that answer a request at once. *)
LEMMA AnswersSettle ==
    ASSUME QueueTypes, ResultTypes, setting' = setting,
           \/ HandleLaunchFails \/ HandleMetrics
           \/ HandleSlotAction /\ ~Processing(Pin[taken[1].id])
           \/ YieldHandle /\ IsMetrics(taken_yield[1])
    PROVE  Settled
<1> USE DEF main
<1>1. ASSUME NEW r \in Root, Kind[r] # "completion" PROVE Ids(r) = {r}
  BY <1>1, SettingFacts DEF QueueTypes, Ids
<1>2. UNCHANGED slots /\ UNCHANGED clients
  BY DEF HandleLaunchFails, HandleMetrics, HandleSlotAction, YieldHandle, Taken
<1>3. ASSUME NEW r \in Root, Ids(r) = {r}, NEW error \in BOOLEAN, Send(<<Result(r, error)>>),
             Consumed(<<Entry("task", r)>>)
      PROVE  Settled
  <2>1. r \in Ids(r)
    BY <1>3
  <2> QED BY <1>2, <1>3, <2>1, AnswerSettles
<1>4. CASE HandleMetrics
  <2>1. PICK r \in Root : r = taken[1].id /\ taken = <<Entry("task", r)>> /\ Kind[r] = "metrics"
    BY <1>4, TakenTask DEF HandleMetrics
  <2>2. Consumed(<<Entry("task", r)>>)
    BY <1>4, <2>1, StepConsumes
  <2>3. Send(<<Result(r, FALSE)>>)
    BY <1>4, <2>1 DEF HandleMetrics
  <2> QED BY <1>1, <1>3, <2>1, <2>2, <2>3
<1>5. CASE HandleSlotAction /\ ~Processing(Pin[taken[1].id])
  <2>1. PICK r \in Root : r = taken[1].id /\ taken = <<Entry("task", r)>> /\ Kind[r] = "slot_action"
    BY <1>5, TakenTask DEF HandleSlotAction
  <2>2. Consumed(<<Entry("task", r)>>)
    BY <1>5, <2>1, StepConsumes
  <2>3. PICK error \in BOOLEAN : Send(<<Result(r, error)>>)
    BY <1>5, <2>1 DEF HandleSlotAction
  <2> QED BY <1>1, <1>3, <2>1, <2>2, <2>3
<1>6. CASE YieldHandle /\ IsMetrics(taken_yield[1])
  <2>1. PICK e \in EntryTypes : taken_yield = <<e>>
    BY <1>6 DEF QueueTypes, YieldHandle
  <2>2. taken_yield[1] = e /\ e.type = "task" /\ Kind[e.id] = "metrics"
    BY <1>6, <2>1 DEF IsMetrics
  <2>3. e \in {Entry("task", r) : r \in Root}
    BY <2>2 DEF EntryTypes, NextResponse, Entry
  <2>4. PICK r \in Root : e = Entry("task", r) /\ e.id = r
    BY <2>3 DEF Entry
  <2>5. Consumed(<<Entry("task", r)>>)
    BY <1>6, <2>1, <2>4, StepConsumes
  <2>6. Send(<<Result(r, FALSE)>>)
    BY <1>6, <2>2, <2>4 DEF YieldHandle
  <2> QED BY <1>1, <1>3, <2>2, <2>4, <2>5, <2>6
<1>7. CASE HandleLaunchFails
  <2>1. PICK r \in Root : r = taken[1].id /\ taken = <<Entry("task", r)>>
    BY <1>7, TakenTask DEF HandleLaunchFails
  <2>2. Consumed(<<Entry("task", r)>>)
    BY <1>7, <2>1, StepConsumes
  <2>3. Children(r) \subseteq Task
    BY SettingFacts DEF QueueTypes, Children
  <2>4. PICK kids \in Seq(Children(r)) : kids = TasksInOrder(Children(r))
    BY <2>3, TasksOrdered DEF QueueTypes
  <2>5. PICK n \in 0 .. Len(kids) :
           Send(<<Result(IF n = Len(kids) THEN r ELSE kids[n + 1], TRUE)>>)
    BY <1>7, <2>1, <2>4 DEF HandleLaunchFails
  <2>6. PICK a \in Ids(r) : a = IF n = Len(kids) THEN r ELSE kids[n + 1]
    <3>1. CASE n = Len(kids)
      BY <3>1 DEF Ids
    <3>2. CASE n # Len(kids)
      <4>1. n + 1 \in DOMAIN kids
        BY <3>2
      <4> QED BY <3>2, <4>1 DEF Ids
    <3> QED BY <3>1, <3>2
  <2>7. Send(<<Result(a, TRUE)>>)
    BY <2>5, <2>6
  <2>8. PICK error \in BOOLEAN : error = TRUE
    OBVIOUS
  <2>9. Send(<<Result(a, error)>>)
    BY <2>7, <2>8
  <2> QED BY <1>2, <2>2, <2>8, <2>9, AnswerSettles
<1> QED BY <1>4, <1>5, <1>6, <1>7

(* Steps that release slots. *)
LEMMA ReleasesSettle ==
    ASSUME QueueTypes, SlotsTyped, ResultTypes, setting' = setting,
           PreDecode \/ DecodeFails \/ AbortAll \/ PostDecode
    PROVE  Settled
<1>1. Moved
  BY StepMoves
<1>2. UNCHANGED clients
  BY DEF PreDecode, DecodeFails, AbortAll, PostDecode
<1>3. CASE DecodeFails \/ AbortAll
  <2>1. PICK run : run = {s \in Slot : Processing(s)}
    OBVIOUS
  <2>2. Send(ResultsOf(run, TRUE)) /\ run \subseteq Slot
    BY <1>3, <2>1 DEF DecodeFails, AbortAll
  <2>3. Answers(ResultsOf(run, TRUE), run)
    BY <2>2, AnswersOne
  <2>4. \A s \in Slot : slots'[s].task = IF s \in run THEN 0 ELSE slots[s].task
    <3>1. \A s \in Slot : slots'[s].task = 0
      <4>1. slots' = [s \in Slot |-> Idle]
        BY <1>3 DEF DecodeFails, AbortAll
      <4>2. Idle.task = 0
        BY DEF Idle
      <4> QED BY <4>1, <4>2
    <3>2. \A s \in Slot : s \notin run => slots[s].task = 0
      BY <2>1 DEF Processing, SlotsTyped
    <3> QED BY <3>1, <3>2
  <2> QED BY <1>1, <1>2, <2>2, <2>3, <2>4, ReleaseSettles
<1>4. CASE PreDecode
  <2>1. PICK what \in [Slot -> {"none", "next", "fit", "part", "empty", "fail"}] :
           LET to(w) == {s \in Slot : what[s] = w}
               off == to("empty") \cup to("fail") IN
           /\ slots' = [s \in Slot |-> CASE s \in off -> Idle
                                         [] s \in to("part") -> Advance(s, "PROCESSING_PROMPT")
                                         [] s \in to("fit") -> Advance(s, "DONE_PROMPT")
                                         [] OTHER -> slots[s]]
           /\ Send(ResultsOf(to("fail"), TRUE) \o ResultsOf(to("empty"), FALSE))
    BY <1>4 DEF PreDecode
  <2>2. PICK E : E = {s \in Slot : what[s] = "fail"}
    OBVIOUS
  <2>3. PICK F : F = {s \in Slot : what[s] = "empty"}
    OBVIOUS
  <2>4. PICK res : res = ResultsOf(E, TRUE) \o ResultsOf(F, FALSE)
    OBVIOUS
  <2>5. Send(res)
    BY <2>1, <2>2, <2>3, <2>4
  <2>6. E \subseteq Slot /\ F \subseteq Slot /\ E \cap F = {}
    BY <2>2, <2>3
  <2>7. Answers(res, E \cup F)
    BY <2>4, <2>6, AnswersTwo
  <2>8. ASSUME NEW s \in Slot PROVE slots'[s].task = IF s \in E \cup F THEN 0 ELSE slots[s].task
    <3>1. CASE what[s] = "empty" \/ what[s] = "fail"
      <4>1. slots'[s] = Idle
        BY <2>1, <3>1
      <4> QED BY <2>2, <2>3, <3>1, <4>1 DEF Idle
    <3>2. CASE what[s] = "part" \/ what[s] = "fit"
      <4>1. PICK state : slots'[s] = [slots[s] EXCEPT !.state = state]
        BY <2>1, <3>2 DEF Advance
      <4>2. slots[s] \in SlotTypes
        BY DEF SlotsTyped
      <4> QED BY <2>2, <2>3, <3>2, <4>1, <4>2 DEF SlotTypes
    <3>3. CASE what[s] = "none" \/ what[s] = "next"
      <4>1. slots'[s] = slots[s]
        BY <2>1, <3>3
      <4> QED BY <2>2, <2>3, <3>3, <4>1
    <3> QED BY <3>1, <3>2, <3>3
  <2>9. PICK S : S = E \cup F /\ S \subseteq Slot
    BY <2>6
  <2> QED BY <1>1, <1>2, <2>5, <2>7, <2>8, <2>9, ReleaseSettles
<1>5. CASE PostDecode
  <2>1. PICK end, fail :
           /\ end \cap fail = {}
           /\ slots' = [s \in Slot |->
                          IF s \in end \cup fail THEN Idle
                          ELSE IF s \in view
                               THEN [slots[s] EXCEPT !.state = "GENERATING", !.n_gen = @ + 1]
                               ELSE slots[s]]
           /\ Send(ResultsOf(end, FALSE) \o ResultsOf(fail, TRUE))
    BY <1>5 DEF PostDecode
  <2>2. PICK E : E = end \cap Slot
    OBVIOUS
  <2>3. PICK F : F = fail \cap Slot
    OBVIOUS
  <2>4. PICK res : res = ResultsOf(E, FALSE) \o ResultsOf(F, TRUE)
    OBVIOUS
  <2>5. Send(res)
    BY <2>1, <2>2, <2>3, <2>4, ResultsOfSlots
  <2>6. E \subseteq Slot /\ F \subseteq Slot /\ E \cap F = {}
    BY <2>1, <2>2, <2>3
  <2>7. Answers(res, E \cup F)
    BY <2>4, <2>6, AnswersTwo
  <2>8. ASSUME NEW s \in Slot PROVE slots'[s].task = IF s \in E \cup F THEN 0 ELSE slots[s].task
    <3>1. CASE s \in end \cup fail
      BY <2>1, <2>2, <2>3, <3>1 DEF Idle
    <3>2. CASE s \notin end \cup fail /\ s \in view
      <4>1. slots'[s] = [slots[s] EXCEPT !.state = "GENERATING", !.n_gen = @ + 1]
        BY <2>1, <3>2
      <4>2. slots[s] \in SlotTypes
        BY DEF SlotsTyped
      <4>3. PICK x : x = [slots[s] EXCEPT !.state = "GENERATING"]
        OBVIOUS
      <4>4. x \in SlotTypes /\ x.task = slots[s].task
        BY <4>2, <4>3 DEF SlotTypes, States
      <4>5. PICK n : slots'[s] = [x EXCEPT !.n_gen = n]
        BY <4>1, <4>3
      <4>6. slots'[s].task = slots[s].task
        BY <4>4, <4>5 DEF SlotTypes
      <4> QED BY <2>2, <2>3, <3>2, <4>6
    <3>3. CASE s \notin end \cup fail /\ s \notin view
      BY <2>1, <2>2, <2>3, <3>3
    <3> QED BY <3>1, <3>2, <3>3
  <2>9. PICK S : S = E \cup F /\ S \subseteq Slot
    BY <2>6
  <2> QED BY <1>1, <1>2, <2>5, <2>7, <2>8, <2>9, ReleaseSettles
<1> QED BY <1>3, <1>4, <1>5

(* Every step of the main thread and the worker. *)
LEMMA ServerSettles ==
    ASSUME QueueTypes, SlotsTyped, ResultTypes, Uncancelled, MainStep \/ WorkerStep
    PROVE  Settled
<1>1. setting' = setting
  BY DEF MainStep, WorkerStep
<1>2. \/ HandleLaunch \/ HandleCancel
      \/ PreDecode \/ DecodeFails \/ AbortAll \/ PostDecode
      \/ HandleLaunchFails \/ HandleMetrics
      \/ HandleSlotAction /\ ~Processing(Pin[taken[1].id])
      \/ YieldHandle /\ IsMetrics(taken_yield[1])
      \/ TakeTask \/ YieldTake \/ HandleDefer \/ HandleNextResponse \/ UpdateSlots \/ Decode \/ Wake
      \/ HandleSlotAction /\ Processing(Pin[taken[1].id])
      \/ YieldHandle /\ ~IsMetrics(taken_yield[1])
  BY DEF MainStep, WorkerStep
<1> QED BY <1>1, <1>2, LaunchSettles, CancelSettles, MovesSettle, AnswersSettle, ReleasesSettle

-----------------------------------------------------------------------------
(* The census of tasks: the invariant of requests, one by one.              *)

Cancels(t) == Total({Entry("cancel", t)})
Wrong(r) == Count(queue_results, Errors(r))
Pending(r) == Count(queue_results, ResultsFor(Ids(r)))

(* What is under way for request r: nothing before it is posted; nothing    *)
(* twice; no cancellation while its reader is there; while it waits, all of *)
(* it or an error; when it has cleaned up, no results.                      *)
OfRequest(r) ==
    /\ reader[r] = "new" => \A t \in Ids(r) : Copies(t) = 0
    /\ \A t \in Ids(r) : Copies(t) <= 1
    /\ reader[r] # "done" => \A t \in Ids(r) : Cancels(t) = 0
    /\ reader[r] = "waiting" => (\A t \in Ids(r) : Copies(t) = 1) \/ Wrong(r) > 0
    /\ reader[r] \notin {"waiting", "stop", "cleanup"} => Pending(r) = 0

Census == ResultTypes /\ \A r \in Root : OfRequest(r)

(* Cancellations and errors are numbers, before and after a step. *)
LEMMA CancelsCounted == ASSUME NEW t PROVE QueueTypes => Cancels(t) \in Nat
BY EntryCounts DEF Cancels

(* The same of the cancellations after a step. *)
LEMMA CancelsCountedNext == ASSUME NEW t PROVE QueueTypes' => (Cancels(t) \in Nat)'
<1>1. QueueTypes => Cancels(t) \in Nat
  BY CancelsCounted
<1> QED BY <1>1, PTL

(* Errors are counted in numbers, too. *)
LEMMA WrongCounted == ASSUME NEW r PROVE ResultTypes => Wrong(r) \in Nat
<1> SUFFICES ASSUME ResultTypes PROVE Wrong(r) \in Nat
  OBVIOUS
<1>1. PICK T : T = Errors(r)
  OBVIOUS
<1>2. Count(queue_results, T) \in Nat
  BY CountFinite DEF ResultTypes
<1> QED BY <1>1, <1>2 DEF Wrong

(* The same of the errors after a step. *)
LEMMA WrongCountedNext == ASSUME NEW r PROVE ResultTypes' => (Wrong(r) \in Nat)'
<1>1. ResultTypes => Wrong(r) \in Nat
  BY WrongCounted
<1> QED BY <1>1, PTL

(* What is counted after a step. *)
LEMMA CensusNext ==
    ASSUME QueueTypes, ResultTypes, setting' = setting
    PROVE  /\ \A r : Wrong(r)' = Count(queue_results', Errors(r)) /\ Wrong(r) \in Nat
           /\ \A r : Pending(r)' = Count(queue_results', ResultsFor(Ids(r))) /\ Pending(r) \in Nat
           /\ \A t : Waiting(t)' = Count(queue_results', ResultsFor({t}))
           /\ \A t : Got(t)' = IF t \in received'[RootOf(t)] THEN 1 ELSE 0
           /\ \A t, T : T = {Entry("task", RootOf(t))} => Asked(t) = Total(T) /\ Asked(t)' = Total(T)'
           /\ \A t, T : T = {Entry("cancel", t)} => Cancels(t) = Total(T) /\ Cancels(t)' = Total(T)'
           /\ \A t : Cancels(t) \in Nat
           /\ UNCHANGED slots => \A t : Held(t)' = Held(t)
<1>1. \A t : RootOf(t)' = RootOf(t) /\ Ids(t)' = Ids(t)
  BY SettingFixed
<1>2. \A T : Count(queue_results, T) \in Nat
  BY CountFinite DEF ResultTypes
<1>3. ASSUME NEW r PROVE Wrong(r)' = Count(queue_results', Errors(r)) /\ Wrong(r) \in Nat
  <2>1. Errors(r)' = Errors(r)
    BY <1>1 DEF Errors, Result
  <2>2. Wrong(r) \in Nat
    <3>1. PICK T : T = Errors(r)
      OBVIOUS
    <3> QED BY <1>2, <3>1 DEF Wrong
  <2> QED BY <2>1, <2>2 DEF Wrong
<1>4. ASSUME NEW r PROVE Pending(r)' = Count(queue_results', ResultsFor(Ids(r))) /\ Pending(r) \in Nat
  <2>1. ResultsFor(Ids(r))' = ResultsFor(Ids(r))
    BY <1>1 DEF ResultsFor, Result
  <2>2. Pending(r) \in Nat
    BY <1>2 DEF Pending
  <2> QED BY <2>1, <2>2 DEF Pending
<1>5. \A t : Waiting(t)' = Count(queue_results', ResultsFor({t}))
  BY DEF Waiting, ResultsFor, Result
<1>6. \A t : Got(t)' = IF t \in received'[RootOf(t)] THEN 1 ELSE 0
  BY <1>1 DEF Got
<1>7. ASSUME NEW t, NEW T, T = {Entry("task", RootOf(t))} PROVE Asked(t) = Total(T) /\ Asked(t)' = Total(T)'
  <2>1. T = {Entry("task", RootOf(t)')}
    BY <1>1, <1>7
  <2> QED BY <1>7, <2>1 DEF Asked, Entry
<1>8. ASSUME NEW t, NEW T, T = {Entry("cancel", t)} PROVE Cancels(t) = Total(T) /\ Cancels(t)' = Total(T)'
  BY <1>8 DEF Cancels, Entry
<1>9. \A t : Cancels(t) \in Nat
  BY EntryCounts DEF Cancels
<1>10. ASSUME UNCHANGED slots, NEW t PROVE Held(t)' = Held(t)
  BY <1>10 DEF Held, Having, Slot
<1> QED BY <1>3, <1>4, <1>5, <1>6, <1>7, <1>8, <1>9, <1>10

(* Requests do not share tasks, nor results. *)
LEMMA RequestsApart ==
    ASSUME QueueTypes, NEW r \in Root, NEW q \in Root, q # r
    PROVE  /\ \A t \in Ids(q) : t \in Task /\ RootOf(t) = q /\ t \notin Ids(r)
           /\ \A t \in Ids(r), e \in BOOLEAN : Result(t, e) \notin ResultsFor(Ids(q)) /\ Result(t, e) \notin Errors(q)
           /\ ResultsFor(Ids(q)) \cap ResultsFor(Ids(r)) = {}
<1>1. \A t \in Ids(q) : t \in Task /\ RootOf(t) = q /\ t \notin Ids(r)
  BY SettingFacts DEF QueueTypes
<1>2. ASSUME NEW t \in Ids(r), NEW e \in BOOLEAN
      PROVE  Result(t, e) \notin ResultsFor(Ids(q)) /\ Result(t, e) \notin Errors(q)
  <2>1. ASSUME NEW u \in Ids(q), NEW f PROVE Result(t, e) # Result(u, f)
    <3>1. t # u
      BY <1>1
    <3> QED BY <3>1 DEF Result
  <2>2. Result(t, e) \notin ResultsFor(Ids(q))
    BY <2>1 DEF ResultsFor
  <2>3. Result(t, e) \notin Errors(q)
    BY <2>1 DEF Errors
  <2> QED BY <2>2, <2>3
<1>3. ResultsFor(Ids(q)) \cap ResultsFor(Ids(r)) = {}
  BY <1>2 DEF ResultsFor
<1> QED BY <1>1, <1>2, <1>3

(* A step of the main thread or the worker leaves every request in order. *)
LEMMA SettledKeeps ==
    ASSUME QueueTypes, Census, setting' = setting, Settled, UNCHANGED clients
    PROVE  Census'
<1>1. Root' = Root /\ \A t : Ids(t)' = Ids(t)
  BY SettingFixed
<1>2. QueueTypes' /\ ResultTypes' /\ ResultTypes
  BY DEF Settled, Census
<1>3. ASSUME NEW r \in Root PROVE OfRequest(r)'
  <2>1. OfRequest(r)
    BY DEF Census
  <2>2. \A t \in Ids(r) : t \in Task
    BY SettingFacts DEF QueueTypes
  <2>3. reader'[r] = reader[r]
    BY DEF clients
  <2>4. Wrong(r) <= Wrong(r)' /\ Wrong(r) \in Nat
    <3>1. Wrong(r)' = Count(queue_results', Errors(r)) /\ Wrong(r) \in Nat
      BY <1>2, CensusNext
    <3> QED BY <3>1 DEF Settled, Wrong
  <2>5. reader[r] \notin {"waiting", "stop"} => Pending(r)' = Pending(r)
    <3>1. Pending(r)' = Count(queue_results', ResultsFor(Ids(r)))
      BY <1>2, CensusNext
    <3> QED BY <3>1 DEF Settled, Pending
  <2>6. ASSUME NEW t \in Ids(r)
        PROVE  /\ Copies(t)' <= Copies(t) /\ Copies(t) \in Nat /\ Copies(t)' \in Nat
               /\ Cancels(t)' <= Cancels(t) /\ Cancels(t) \in Nat /\ Cancels(t)' \in Nat
    <3>1. Parts(t) /\ Parts(t)'
      BY <1>2, CopiesAre, CopiesNext
    <3>2. Cancels(t) \in Nat /\ Cancels(t)' \in Nat
      BY <1>2, CancelsCounted, CancelsCountedNext
    <3>3. Cancels(t)' <= Cancels(t)
      BY <2>2 DEF Settled, Cancels
    <3>4. Copies(t)' <= Copies(t)
      BY <2>2 DEF Settled
    <3> QED BY <3>1, <3>2, <3>3, <3>4 DEF Parts
  <2>7. reader[r] = "waiting" => (\A t \in Ids(r) : Copies(t)' = Copies(t)) \/ Wrong(r)' > 0
    <3>1. Wrong(r)' = Count(queue_results', Errors(r))
      BY <1>2, CensusNext
    <3> QED BY <3>1 DEF Settled
  <2>8. reader[r] = "new" => \A t \in Ids(r) : Copies(t)' = 0
    BY <2>1, <2>6 DEF OfRequest
  <2>9. \A t \in Ids(r) : Copies(t)' <= 1
    BY <2>1, <2>6 DEF OfRequest
  <2>10. reader[r] # "done" => \A t \in Ids(r) : Cancels(t)' = 0
    BY <2>1, <2>6 DEF OfRequest
  <2>11. reader[r] = "waiting" => (\A t \in Ids(r) : Copies(t)' = 1) \/ Wrong(r)' > 0
    <3>1. Wrong(r) > 0 => Wrong(r)' > 0
      <4>1. Wrong(r)' \in Nat
        BY <1>2, WrongCountedNext
      <4> QED BY <2>4, <4>1
    <3> QED BY <2>1, <2>7, <3>1 DEF OfRequest
  <2>12. reader[r] \notin {"waiting", "stop", "cleanup"} => Pending(r)' = 0
    BY <2>1, <2>5 DEF OfRequest
  <2> QED BY <1>1, <2>3, <2>8, <2>9, <2>10, <2>11, <2>12 DEF OfRequest
<1> QED BY <1>1, <1>2, <1>3 DEF Census

-----------------------------------------------------------------------------
(* The census, step by step of the readers.                                 *)

(* A step of one reader leaves the requests of the others alone.            *)
OthersSame(r) ==
    /\ QueueTypes' /\ ResultTypes'
    /\ \A q \in Root \ {r} : reader'[q] = reader[q] /\ Wrong(q)' = Wrong(q) /\ Pending(q)' = Pending(q)
    /\ \A t \in Task : RootOf(t) # r => Copies(t)' = Copies(t) /\ Cancels(t)' = Cancels(t)

(* So the census is right when that of the reader's own request is. *)
LEMMA OthersKeep ==
    ASSUME QueueTypes, Census, setting' = setting, NEW r \in Root, OthersSame(r), OfRequest(r)'
    PROVE  Census'
<1>1. Root' = Root /\ \A t : Ids(t)' = Ids(t)
  BY SettingFixed
<1>2. ASSUME NEW q \in Root, q # r PROVE OfRequest(q)'
  <2>1. OfRequest(q)
    BY DEF Census
  <2>2. \A t \in Ids(q) : Copies(t)' = Copies(t) /\ Cancels(t)' = Cancels(t)
    BY <1>2, RequestsApart DEF OthersSame
  <2>3. reader'[q] = reader[q] /\ Wrong(q)' = Wrong(q) /\ Pending(q)' = Pending(q)
    BY <1>2 DEF OthersSame
  <2> QED BY <1>1, <2>1, <2>2, <2>3 DEF OfRequest
<1> QED BY <1>1, <1>2 DEF Census, OthersSame

(* Steps that change neither slots nor results: what changes is whether the *)
(* tasks of r are asked for. *)
LEMMA ReaderOnly ==
    ASSUME QueueTypes, ResultTypes, setting' = setting, NEW r \in Root, QueueTypes', ResultTypes',
           UNCHANGED <<slots, queue_results, received>>,
           \A q \in Root \ {r} : reader'[q] = reader[q],
           \A t \in Task : RootOf(t) # r => Asked(t)' = Asked(t) /\ Cancels(t)' = Cancels(t)
    PROVE  /\ OthersSame(r)
           /\ Pending(r)' = Pending(r) /\ Wrong(r)' = Wrong(r)
           /\ \A t \in Task : /\ Copies(t)' = Copies(t) - Asked(t) + Asked(t)'
                              /\ Parts(t) /\ Parts(t)'
<1>1. \A q : Wrong(q)' = Wrong(q) /\ Pending(q)' = Pending(q)
  BY CensusNext DEF Wrong, Pending
<1>2. ASSUME NEW t \in Task
      PROVE  /\ Copies(t)' = Copies(t) - Asked(t) + Asked(t)' /\ Parts(t) /\ Parts(t)'
             /\ Asked(t)' = Asked(t) => Copies(t)' = Copies(t)
  <2>1. Parts(t) /\ Parts(t)'
    BY CopiesAre, CopiesNext
  <2>2. Waiting(t)' = Waiting(t) /\ Got(t)' = Got(t) /\ Held(t)' = Held(t)
    <3>1. Waiting(t)' = Count(queue_results', ResultsFor({t}))
      BY CensusNext
    <3>2. Got(t)' = IF t \in received'[RootOf(t)] THEN 1 ELSE 0
      BY CensusNext
    <3>3. Held(t)' = Held(t)
      BY CensusNext
    <3> QED BY <3>1, <3>2, <3>3 DEF Waiting, Got
  <2>3. Copies(t)' = Copies(t) - Asked(t) + Asked(t)'
    BY <2>1, <2>2 DEF Parts
  <2>4. Asked(t)' = Asked(t) => Copies(t)' = Copies(t)
    BY <2>1, <2>2 DEF Parts
  <2> QED BY <2>1, <2>3, <2>4
<1> QED BY <1>1, <1>2 DEF OthersSame

(* A request is posted: each of its tasks is on its way once. *)
LEMMA PostCensus ==
    ASSUME QueueTypes, Census, setting' = setting, NEW r \in Root, PostTasks(r)
    PROVE  Census'
<1> USE DEF main
<1>1. Task' = Task /\ Root' = Root /\ \A t : RootOf(t)' = RootOf(t) /\ Ids(t)' = Ids(t)
  BY SettingFixed
<1>2. ResultTypes /\ OfRequest(r) /\ reader[r] = "new"
  BY DEF Census, PostTasks
<1>3. \A t \in Task : t \in Ids(r) <=> RootOf(t) = r
  BY SettingFacts DEF QueueTypes
<1>4. Ids(r) \subseteq Task
  BY SettingFacts DEF QueueTypes
<1>5. QueueTypes' /\ \A T : Total(T)' = Total(T) + (IF Entry("task", r) \in T THEN 1 ELSE 0)
  BY PostAdds
<1>6. /\ reader' = [reader EXCEPT ![r] = "waiting"] /\ UNCHANGED <<slots, queue_results, received>>
      /\ waiting_task_ids' = waiting_task_ids \cup Ids(r)
  BY DEF PostTasks
<1>7. ResultTypes'
  <2>1. reader' \in [Root -> {"new", "waiting", "stop", "cleanup", "cancel", "done"}]
    BY <1>2, <1>6 DEF ResultTypes
  <2>2. waiting_task_ids' = {t \in Task : reader'[RootOf(t)] \in {"waiting", "stop"}}
    <3>1. ASSUME NEW t \in Task
          PROVE  t \in waiting_task_ids' <=> reader'[RootOf(t)] \in {"waiting", "stop"}
      <4>1. RootOf(t) \in Root
        BY SettingFacts DEF QueueTypes
      <4> QED BY <1>2, <1>3, <1>6, <4>1 DEF ResultTypes
    <3>2. waiting_task_ids' \subseteq Task
      BY <1>2, <1>4, <1>6 DEF ResultTypes
    <3> QED BY <3>1, <3>2
  <2>3. ResultsFor(Task)' = ResultsFor(Task)
    BY <1>1 DEF ResultsFor, Result
  <2> QED BY <1>1, <1>2, <1>6, <2>1, <2>2, <2>3 DEF ResultTypes
<1>8. ASSUME NEW t \in Task
      PROVE  /\ Asked(t)' = Asked(t) + (IF RootOf(t) = r THEN 1 ELSE 0) /\ Asked(t) \in Nat
             /\ Cancels(t)' = Cancels(t)
  <2>1. PICK T : T = {Entry("task", RootOf(t))}
    OBVIOUS
  <2>2. PICK U : U = {Entry("cancel", t)}
    OBVIOUS
  <2>3. Asked(t) = Total(T) /\ Asked(t)' = Total(T)' /\ Cancels(t) = Total(U) /\ Cancels(t)' = Total(U)'
    BY <1>2, <2>1, <2>2, CensusNext
  <2>4. Entry("task", r) \in T <=> RootOf(t) = r
    BY <2>1, EntriesDiffer
  <2>5. Entry("task", r) \notin U
    BY <2>2, EntriesDiffer
  <2>6. Total(T) \in Nat /\ Total(U) \in Nat
    BY EntryCounts
  <2> QED BY <1>5, <2>3, <2>4, <2>5, <2>6
<1>9. /\ OthersSame(r)
      /\ Pending(r)' = Pending(r) /\ Wrong(r)' = Wrong(r)
      /\ \A t \in Task : /\ Copies(t)' = Copies(t) - Asked(t) + Asked(t)'
                         /\ Parts(t) /\ Parts(t)'
  <2>1. \A q \in Root \ {r} : reader'[q] = reader[q]
    BY <1>2, <1>6 DEF ResultTypes
  <2>2. \A t \in Task : RootOf(t) # r => Asked(t)' = Asked(t) /\ Cancels(t)' = Cancels(t)
    BY <1>8
  <2> QED BY <1>2, <1>5, <1>6, <1>7, <2>1, <2>2, ReaderOnly
<1>10. ASSUME NEW t \in Ids(r) PROVE Copies(t)' = 1 /\ Cancels(t)' = 0
  <2>1. t \in Task /\ RootOf(t) = r
    BY <1>3, <1>4
  <2>2. Copies(t) = 0 /\ Cancels(t) = 0
    BY <1>2 DEF OfRequest
  <2>3. Asked(t)' = Asked(t) + 1 /\ Asked(t) \in Nat
    BY <1>8, <2>1
  <2> QED BY <1>8, <1>9, <2>1, <2>2, <2>3
<1>11. reader'[r] = "waiting"
  BY <1>2, <1>6 DEF ResultTypes
<1>12. OfRequest(r)'
  <2>1. \A t \in Ids(r) : Copies(t)' <= 1
    BY <1>10
  <2> QED BY <1>1, <1>10, <1>11, <2>1 DEF OfRequest
<1> QED BY <1>9, <1>12, OthersKeep

(* Steps that leave the queues alone ask for nothing and cancel nothing. *)
LEMMA AsksSame ==
    ASSUME QueueTypes, ResultTypes, setting' = setting, UNCHANGED <<queues, taken, taken_yield>>
    PROVE  \A t \in Task : Asked(t)' = Asked(t) /\ Cancels(t)' = Cancels(t)
<1> SUFFICES ASSUME NEW t \in Task PROVE Asked(t)' = Asked(t) /\ Cancels(t)' = Cancels(t)
  OBVIOUS
<1>1. \A T : Total(T)' = Total(T)
  BY DEF Total, queues
<1>2. PICK T : T = {Entry("task", RootOf(t))}
  OBVIOUS
<1>3. PICK U : U = {Entry("cancel", t)}
  OBVIOUS
<1>4. Asked(t) = Total(T) /\ Asked(t)' = Total(T)' /\ Cancels(t) = Total(U) /\ Cancels(t)' = Total(U)'
  BY <1>2, <1>3, CensusNext
<1> QED BY <1>1, <1>4

(* A client leaves: its reader will stop. *)
LEMMA LeaveCensus ==
    ASSUME QueueTypes, Census, setting' = setting, NEW r \in Root, Leave(r)
    PROVE  Census'
<1> USE DEF main, queues, results
<1>1. Task' = Task /\ Root' = Root /\ \A t : RootOf(t)' = RootOf(t) /\ Ids(t)' = Ids(t)
  BY SettingFixed
<1>2. ResultTypes /\ OfRequest(r) /\ reader[r] = "waiting"
  BY DEF Census, Leave
<1>3. Ids(r) \subseteq Task
  BY SettingFacts DEF QueueTypes
<1>4. UNCHANGED <<queues, taken, taken_yield>> /\ QueueTypes'
  BY QueuesAlone DEF Leave, Moved
<1>5. reader' = [reader EXCEPT ![r] = "stop"]
      /\ UNCHANGED <<slots, queue_results, received, waiting_task_ids>>
  BY DEF Leave
<1>6. ResultTypes'
  <2>1. reader' \in [Root -> {"new", "waiting", "stop", "cleanup", "cancel", "done"}]
    BY <1>2, <1>5 DEF ResultTypes
  <2>2. waiting_task_ids' = {t \in Task : reader'[RootOf(t)] \in {"waiting", "stop"}}
    <3>1. ASSUME NEW t \in Task
          PROVE  reader[RootOf(t)] \in {"waiting", "stop"} <=> reader'[RootOf(t)] \in {"waiting", "stop"}
      <4>1. RootOf(t) \in Root
        BY SettingFacts DEF QueueTypes
      <4> QED BY <1>2, <1>5, <4>1 DEF ResultTypes
    <3> QED BY <1>2, <1>5, <3>1 DEF ResultTypes
  <2>3. ResultsFor(Task)' = ResultsFor(Task)
    BY <1>1 DEF ResultsFor, Result
  <2> QED BY <1>1, <1>2, <1>5, <2>1, <2>2, <2>3 DEF ResultTypes
<1>7. \A t \in Task : Asked(t)' = Asked(t) /\ Cancels(t)' = Cancels(t)
  BY <1>2, <1>4, AsksSame
<1>8. /\ OthersSame(r)
      /\ Pending(r)' = Pending(r) /\ Wrong(r)' = Wrong(r)
      /\ \A t \in Task : /\ Copies(t)' = Copies(t) - Asked(t) + Asked(t)'
                         /\ Parts(t) /\ Parts(t)'
  <2>1. \A q \in Root \ {r} : reader'[q] = reader[q]
    BY <1>2, <1>5 DEF ResultTypes
  <2> QED BY <1>2, <1>4, <1>5, <1>6, <1>7, <2>1, ReaderOnly
<1>9. ASSUME NEW t \in Ids(r) PROVE Copies(t)' <= 1 /\ Cancels(t)' = 0
  <2>1. Copies(t) <= 1 /\ Cancels(t) = 0 /\ t \in Task
    BY <1>2, <1>3 DEF OfRequest
  <2>2. Copies(t)' = Copies(t) - Asked(t) + Asked(t)' /\ Asked(t)' = Asked(t) /\ Parts(t)
    BY <1>7, <1>8, <2>1
  <2> QED BY <1>7, <2>1, <2>2 DEF Parts
<1>10. reader'[r] = "stop"
  BY <1>2, <1>5 DEF ResultTypes
<1>11. OfRequest(r)'
  BY <1>1, <1>9, <1>10 DEF OfRequest
<1> QED BY <1>8, <1>11, OthersKeep

(* A reader stops: nobody waits for its tasks any more, and if it has all   *)
(* results there are no others of them. *)
LEMMA StopCensus ==
    ASSUME QueueTypes, Census, setting' = setting, NEW r \in Root, Stop(r)
    PROVE  Census'
<1> USE DEF main, queues
<1>1. Task' = Task /\ Root' = Root /\ \A t : RootOf(t)' = RootOf(t) /\ Ids(t)' = Ids(t)
  BY SettingFixed
<1>2. ResultTypes /\ OfRequest(r) /\ reader[r] = "stop"
  BY DEF Census, Stop
<1>3. Ids(r) \subseteq Task /\ \A t \in Task : t \in Ids(r) <=> RootOf(t) = r
  BY SettingFacts DEF QueueTypes
<1>4. UNCHANGED <<queues, taken, taken_yield>> /\ QueueTypes'
  BY QueuesAlone DEF Stop, Moved
<1>5. /\ reader' = [reader EXCEPT ![r] = IF HasNext(r) THEN "cleanup" ELSE "done"]
      /\ UNCHANGED <<slots, queue_results, received>>
      /\ waiting_task_ids' = waiting_task_ids \ Ids(r)
  BY DEF Stop
<1>6. reader'[r] = IF HasNext(r) THEN "cleanup" ELSE "done"
  BY <1>2, <1>5 DEF ResultTypes
<1>7. ResultTypes'
  <2>1. reader' \in [Root -> {"new", "waiting", "stop", "cleanup", "cancel", "done"}]
    BY <1>2, <1>5 DEF ResultTypes
  <2>2. waiting_task_ids' = {t \in Task : reader'[RootOf(t)] \in {"waiting", "stop"}}
    <3>1. ASSUME NEW t \in Task
          PROVE  t \in waiting_task_ids' <=> reader'[RootOf(t)] \in {"waiting", "stop"}
      <4>1. RootOf(t) \in Root
        BY SettingFacts DEF QueueTypes
      <4>2. t \in waiting_task_ids <=> reader[RootOf(t)] \in {"waiting", "stop"}
        BY <1>2 DEF ResultTypes
      <4>3. CASE RootOf(t) = r
        BY <1>3, <1>5, <1>6, <4>3
      <4>4. CASE RootOf(t) # r
        <5>1. reader'[RootOf(t)] = reader[RootOf(t)]
          BY <1>2, <1>5, <4>1, <4>4 DEF ResultTypes
        <5> QED BY <1>3, <1>5, <4>2, <4>4, <5>1
      <4> QED BY <4>3, <4>4
    <3>2. waiting_task_ids' \subseteq Task
      BY <1>2, <1>5 DEF ResultTypes
    <3> QED BY <3>1, <3>2
  <2>3. ResultsFor(Task)' = ResultsFor(Task)
    BY <1>1 DEF ResultsFor, Result
  <2> QED BY <1>1, <1>2, <1>5, <2>1, <2>2, <2>3 DEF ResultTypes
<1>8. \A t \in Task : Asked(t)' = Asked(t) /\ Cancels(t)' = Cancels(t)
  BY <1>2, <1>4, AsksSame
<1>9. /\ OthersSame(r)
      /\ Pending(r)' = Pending(r) /\ Wrong(r)' = Wrong(r)
      /\ \A t \in Task : /\ Copies(t)' = Copies(t) - Asked(t) + Asked(t)'
                         /\ Parts(t) /\ Parts(t)'
  <2>1. \A q \in Root \ {r} : reader'[q] = reader[q]
    BY <1>2, <1>5 DEF ResultTypes
  <2> QED BY <1>2, <1>4, <1>5, <1>7, <1>8, <2>1, ReaderOnly
<1>10. ASSUME NEW t \in Ids(r) PROVE Copies(t)' <= 1 /\ Cancels(t)' = 0
  <2>1. Copies(t) <= 1 /\ Cancels(t) = 0 /\ t \in Task
    BY <1>2, <1>3 DEF OfRequest
  <2>2. Copies(t)' = Copies(t) - Asked(t) + Asked(t)' /\ Asked(t)' = Asked(t) /\ Parts(t)
    BY <1>8, <1>9, <2>1
  <2> QED BY <1>8, <2>1, <2>2 DEF Parts
<1>11. ASSUME ~HasNext(r) PROVE Pending(r)' = 0
  <2>1. ASSUME NEW t \in Ids(r) PROVE Waiting(t) = 0
    <3>1. RootOf(t) = r /\ t \in received[r] /\ t \in Task
      BY <1>3, <1>11 DEF HasNext
    <3>2. Got(t) = 1
      BY <3>1 DEF Got
    <3>3. Parts(t) /\ Copies(t) <= 1
      BY <1>2, <1>9, <3>1 DEF OfRequest
    <3> QED BY <3>2, <3>3 DEF Parts
  <2>2. PICK q \in Seq(ResultsFor(Task)) : q = queue_results
    BY <1>2 DEF ResultTypes
  <2>3. ASSUME NEW i \in DOMAIN q PROVE q[i] \notin ResultsFor(Ids(r))
    <3> SUFFICES ASSUME q[i] \in ResultsFor(Ids(r)) PROVE FALSE
      OBVIOUS
    <3>1. PICK t \in Ids(r) : q[i] \in ResultsFor({t})
      BY DEF ResultsFor
    <3>2. Count(q, ResultsFor({t})) = 0
      BY <2>1, <2>2 DEF Waiting
    <3> QED BY <3>1, <3>2, CountZero
  <2>4. PICK T : T = ResultsFor(Ids(r))
    OBVIOUS
  <2>5. Count(q, T) = 0
    BY <2>3, <2>4, CountZero
  <2> QED BY <1>9, <2>2, <2>4, <2>5 DEF Pending
<1>12. OfRequest(r)'
  BY <1>1, <1>6, <1>10, <1>11 DEF OfRequest
<1> QED BY <1>9, <1>12, OthersKeep

(* A reader cleans up: of its own results none are left. *)
LEMMA CleanupCensus ==
    ASSUME QueueTypes, Census, setting' = setting, NEW r \in Root, Cleanup(r)
    PROVE  Census'
<1> USE DEF main, queues
<1>1. Task' = Task /\ Root' = Root /\ \A t : RootOf(t)' = RootOf(t) /\ Ids(t)' = Ids(t)
  BY SettingFixed
<1>2. ResultTypes /\ OfRequest(r) /\ reader[r] = "cleanup"
  BY DEF Census, Cleanup
<1>3. Ids(r) \subseteq Task /\ \A t \in Task : t \in Ids(r) <=> RootOf(t) = r
  BY SettingFacts DEF QueueTypes
<1>4. UNCHANGED <<queues, taken, taken_yield>> /\ QueueTypes'
  BY QueuesAlone DEF Cleanup, Moved
<1>5. /\ reader' = [reader EXCEPT ![r] = "cancel"] /\ UNCHANGED <<slots, waiting_task_ids, received>>
      /\ queue_results' = Without(queue_results, ResultsFor(Ids(r)))
  BY DEF Cleanup
<1>6. PICK out : out = ResultsFor(Ids(r))
  OBVIOUS
<1>7. PICK old \in Seq(ResultsFor(Task)) : old = queue_results
  BY <1>2 DEF ResultTypes
<1>8. /\ queue_results' \in Seq(ResultsFor(Task))
      /\ \A T : Count(queue_results', T) = Count(old, T \ out) /\ Count(old, T \ out) <= Count(old, T)
                /\ Count(old, T) \in Nat /\ Count(old, T \ out) \in Nat
  <2>1. Without(old, out) \in Seq(ResultsFor(Task))
    BY CountWithout
  <2>2. ASSUME NEW T
        PROVE  Count(Without(old, out), T) = Count(old, T \ out) /\ Count(old, T \ out) <= Count(old, T)
               /\ Count(old, T) \in Nat /\ Count(old, T \ out) \in Nat
    <3>1. Count(Without(old, out), T) = Count(old, T \ out)
      BY CountWithout
    <3>2. PICK U : U = T \ out
      OBVIOUS
    <3>3. Count(old, U) <= Count(old, T)
      BY <3>2, CountMore
    <3>4. Count(old, T) \in Nat /\ Count(old, U) \in Nat
      BY CountFinite
    <3> QED BY <3>1, <3>2, <3>3, <3>4
  <2> QED BY <1>5, <1>6, <1>7, <2>1, <2>2
<1>9. \A q \in Root \ {r} : reader'[q] = reader[q]
  BY <1>2, <1>5 DEF ResultTypes
<1>10. reader'[r] = "cancel"
  BY <1>2, <1>5 DEF ResultTypes
<1>11. ResultTypes'
  <2>1. reader' \in [Root -> {"new", "waiting", "stop", "cleanup", "cancel", "done"}]
    BY <1>2, <1>5 DEF ResultTypes
  <2>2. waiting_task_ids' = {t \in Task : reader'[RootOf(t)] \in {"waiting", "stop"}}
    <3>1. ASSUME NEW t \in Task
          PROVE  reader[RootOf(t)] \in {"waiting", "stop"} <=> reader'[RootOf(t)] \in {"waiting", "stop"}
      <4>1. RootOf(t) \in Root
        BY SettingFacts DEF QueueTypes
      <4> QED BY <1>2, <1>9, <1>10, <4>1
    <3> QED BY <1>2, <1>5, <3>1 DEF ResultTypes
  <2>3. ResultsFor(Task)' = ResultsFor(Task)
    BY <1>1 DEF ResultsFor, Result
  <2> QED BY <1>1, <1>2, <1>5, <1>8, <2>1, <2>2, <2>3 DEF ResultTypes
<1>12. \A t \in Task : Asked(t)' = Asked(t) /\ Cancels(t)' = Cancels(t)
  BY <1>2, <1>4, AsksSame
<1>13. ASSUME NEW t \in Task
       PROVE  /\ Copies(t)' <= Copies(t) /\ Copies(t) \in Nat /\ Copies(t)' \in Nat
              /\ RootOf(t) # r => Copies(t)' = Copies(t)
  <2>1. Parts(t) /\ Parts(t)'
    BY <1>2, <1>4, <1>11, CopiesAre, CopiesNext
  <2>2. Got(t)' = Got(t) /\ Held(t)' = Held(t)
    <3>1. Got(t)' = IF t \in received'[RootOf(t)] THEN 1 ELSE 0
      BY <1>2, CensusNext
    <3>2. Held(t)' = Held(t)
      BY <1>2, <1>5, CensusNext
    <3> QED BY <1>5, <3>1, <3>2 DEF Got
  <2>3. Waiting(t)' = Count(old, ResultsFor({t}) \ out) /\ Waiting(t) = Count(old, ResultsFor({t}))
    BY <1>2, <1>7, <1>8, CensusNext DEF Waiting
  <2>4. Waiting(t)' <= Waiting(t)
    BY <1>8, <2>3
  <2>5. ASSUME RootOf(t) # r PROVE Waiting(t)' = Waiting(t)
    <3>1. ResultsFor({t}) \cap out = {}
      <4>1. t \notin Ids(r)
        BY <1>3, <2>5
      <4> QED BY <1>6, <4>1 DEF ResultsFor, Result
    <3>2. ResultsFor({t}) \ out = ResultsFor({t})
      BY <3>1
    <3> QED BY <2>3, <3>2
  <2>6. Copies(t)' <= Copies(t)
    BY <1>12, <2>1, <2>2, <2>4 DEF Parts
  <2>7. RootOf(t) # r => Copies(t)' = Copies(t)
    BY <1>12, <2>1, <2>2, <2>5 DEF Parts
  <2> QED BY <2>1, <2>6, <2>7 DEF Parts
<1>14. ASSUME NEW q \in Root \ {r} PROVE Wrong(q)' = Wrong(q) /\ Pending(q)' = Pending(q)
  <2>1. PICK T : T = Errors(q)
    OBVIOUS
  <2>2. PICK U : U = ResultsFor(Ids(q))
    OBVIOUS
  <2>3. T \subseteq U
    <3> SUFFICES ASSUME NEW x \in T PROVE x \in U
      OBVIOUS
    <3>1. PICK t \in Ids(q) : x = Result(t, TRUE)
      BY <2>1 DEF Errors
    <3>2. PICK e \in BOOLEAN : e = TRUE
      OBVIOUS
    <3>3. x = Result(t, e)
      BY <3>1, <3>2
    <3>4. x \in ResultsFor(Ids(q))
      BY <3>3 DEF ResultsFor
    <3> QED BY <2>2, <3>4
  <2>4. U \cap out = {}
    BY <1>6, <2>2, RequestsApart
  <2>5. T \ out = T /\ U \ out = U
    BY <2>3, <2>4
  <2>6. Wrong(q)' = Count(queue_results', T) /\ Pending(q)' = Count(queue_results', U)
    BY <1>2, <2>1, <2>2, CensusNext
  <2> QED BY <1>7, <1>8, <2>1, <2>2, <2>5, <2>6 DEF Wrong, Pending
<1>15. Pending(r)' = 0
  <2>1. Pending(r)' = Count(queue_results', out)
    BY <1>2, <1>6, CensusNext
  <2>2. out \ out = {} /\ Count(old, {}) = 0
    BY CountZero
  <2> QED BY <1>8, <2>1, <2>2
<1>16. OthersSame(r)
  BY <1>4, <1>9, <1>11, <1>12, <1>13, <1>14 DEF OthersSame
<1>17. ASSUME NEW t \in Ids(r) PROVE Copies(t)' <= 1 /\ Cancels(t)' = 0
  <2>1. Copies(t) <= 1 /\ Cancels(t) = 0 /\ t \in Task
    BY <1>2, <1>3 DEF OfRequest
  <2> QED BY <1>12, <1>13, <2>1
<1>18. OfRequest(r)'
  BY <1>1, <1>10, <1>15, <1>17 DEF OfRequest
<1> QED BY <1>16, <1>18, OthersKeep

(* A reader cancels what is left of its request. *)
LEMMA CancelCensus ==
    ASSUME QueueTypes, Census, setting' = setting, NEW r \in Root, Cancel(r)
    PROVE  Census'
<1> USE DEF main, results
<1>1. Task' = Task /\ Root' = Root /\ \A t : RootOf(t)' = RootOf(t) /\ Ids(t)' = Ids(t)
  BY SettingFixed
<1>2. ResultTypes /\ OfRequest(r) /\ reader[r] = "cancel"
  BY DEF Census, Cancel
<1>3. Ids(r) \subseteq Task /\ \A t \in Task : t \in Ids(r) <=> RootOf(t) = r
  BY SettingFacts DEF QueueTypes
<1>4. /\ QueueTypes'
      /\ \A T : (\A t \in Ids(r) : Entry("cancel", t) \notin T)
                   => Total(T)' <= Total(T) /\ (T \cap TaskEntries(Ids(r)) = {} => Total(T)' = Total(T))
  BY CancelTakesOut
<1>5. /\ reader' = [reader EXCEPT ![r] = "done"]
      /\ UNCHANGED <<slots, waiting_task_ids, queue_results, received>>
  BY DEF Cancel
<1>6. reader'[r] = "done" /\ \A q \in Root \ {r} : reader'[q] = reader[q]
  BY <1>2, <1>5 DEF ResultTypes
<1>7. ResultTypes'
  <2>1. reader' \in [Root -> {"new", "waiting", "stop", "cleanup", "cancel", "done"}]
    BY <1>2, <1>5 DEF ResultTypes
  <2>2. waiting_task_ids' = {t \in Task : reader'[RootOf(t)] \in {"waiting", "stop"}}
    <3>1. ASSUME NEW t \in Task
          PROVE  reader[RootOf(t)] \in {"waiting", "stop"} <=> reader'[RootOf(t)] \in {"waiting", "stop"}
      <4>1. RootOf(t) \in Root
        BY SettingFacts DEF QueueTypes
      <4> QED BY <1>2, <1>6, <4>1
    <3> QED BY <1>2, <1>5, <3>1 DEF ResultTypes
  <2>3. ResultsFor(Task)' = ResultsFor(Task)
    BY <1>1 DEF ResultsFor, Result
  <2> QED BY <1>1, <1>2, <1>5, <2>1, <2>2, <2>3 DEF ResultTypes
<1>8. ASSUME NEW t \in Task
      PROVE  /\ Asked(t)' <= Asked(t)
             /\ RootOf(t) # r => Asked(t)' = Asked(t) /\ Cancels(t)' = Cancels(t)
  <2>1. PICK T : T = {Entry("task", RootOf(t))}
    OBVIOUS
  <2>2. PICK U : U = {Entry("cancel", t)}
    OBVIOUS
  <2>3. Asked(t) = Total(T) /\ Asked(t)' = Total(T)' /\ Cancels(t) = Total(U) /\ Cancels(t)' = Total(U)'
    BY <1>2, <2>1, <2>2, CensusNext
  <2>4. \A u \in Ids(r) : Entry("cancel", u) \notin T
    BY <2>1, EntriesDiffer
  <2>5. ASSUME RootOf(t) # r PROVE Asked(t)' = Asked(t) /\ Cancels(t)' = Cancels(t)
    <3>1. t \notin Ids(r)
      BY <1>3, <2>5
    <3>2. \A u \in Ids(r) : Entry("cancel", u) \notin U
      BY <2>2, <3>1, EntriesDiffer
    <3>3. U \cap TaskEntries(Ids(r)) = {}
      BY <2>2, EntriesDiffer DEF TaskEntries
    <3>4. RootOf(t) \in Root /\ RootOf(RootOf(t)) = RootOf(t) /\ RootOf(t) \in Task
      BY SettingFacts DEF QueueTypes
    <3>5. RootOf(t) \notin Ids(r)
      BY <1>3, <2>5, <3>4
    <3>6. T \cap TaskEntries(Ids(r)) = {}
      BY <2>1, <3>5, EntriesDiffer DEF TaskEntries
    <3> QED BY <1>4, <2>3, <2>4, <3>2, <3>3, <3>6
  <2> QED BY <1>4, <2>3, <2>4, <2>5
<1>9. /\ OthersSame(r)
      /\ Pending(r)' = Pending(r) /\ Wrong(r)' = Wrong(r)
      /\ \A t \in Task : /\ Copies(t)' = Copies(t) - Asked(t) + Asked(t)'
                         /\ Parts(t) /\ Parts(t)'
  BY <1>2, <1>4, <1>5, <1>6, <1>7, <1>8, ReaderOnly
<1>10. ASSUME NEW t \in Ids(r) PROVE Copies(t)' <= 1
  <2>1. Copies(t) <= 1 /\ t \in Task
    BY <1>2, <1>3 DEF OfRequest
  <2>2. Copies(t)' = Copies(t) - Asked(t) + Asked(t)' /\ Parts(t) /\ Parts(t)'
    BY <1>9, <2>1
  <2>3. Copies(t) \in Nat /\ Asked(t) \in Nat /\ Asked(t)' \in Nat
    BY <2>2 DEF Parts
  <2>4. Asked(t)' <= Asked(t)
    BY <1>8, <2>1
  <2> QED BY <2>1, <2>2, <2>3, <2>4
<1>11. Pending(r)' = 0
  BY <1>2, <1>9 DEF OfRequest
<1>12. OfRequest(r)'
  BY <1>1, <1>6, <1>10, <1>11 DEF OfRequest
<1> QED BY <1>9, <1>12, OthersKeep

(* A reader takes a result: what waited is received, or ends the request. *)
LEMMA ReceiveCensus ==
    ASSUME QueueTypes, Census, setting' = setting, NEW r \in Root, Receive(r)
    PROVE  Census'
<1> USE DEF main, queues
<1>1. Task' = Task /\ Root' = Root /\ \A t : RootOf(t)' = RootOf(t) /\ Ids(t)' = Ids(t)
  BY SettingFixed
<1>2. ResultTypes /\ OfRequest(r) /\ reader[r] = "waiting"
  BY DEF Census, Receive
<1>3. Ids(r) \subseteq Task /\ \A t \in Task : t \in Ids(r) <=> RootOf(t) = r
  BY SettingFacts DEF QueueTypes
<1>4. UNCHANGED <<queues, taken, taken_yield>> /\ QueueTypes'
  BY QueuesAlone DEF Receive, Moved
<1>5. PICK old \in Seq(ResultsFor(Task)) : old = queue_results
  BY <1>2 DEF ResultTypes
<1>6. PICK i \in DOMAIN old :
         /\ old[i].id \in Ids(r)
         /\ queue_results' = RemoveAt(old, i)
         /\ IF old[i].error
            THEN reader' = [reader EXCEPT ![r] = "stop"] /\ UNCHANGED received
            ELSE /\ received' = [received EXCEPT ![r] = @ \cup {old[i].id}]
                 /\ reader' = IF received'[r] = Ids(r) THEN [reader EXCEPT ![r] = "stop"] ELSE reader
  BY <1>5 DEF Receive
<1>7. UNCHANGED <<slots, waiting_task_ids>>
  BY DEF Receive
<1>8. PICK u \in Ids(r), e \in BOOLEAN :
         old[i] = Result(u, e) /\ old[i].id = u /\ old[i].error = e
  <2>1. old[i] \in ResultsFor(Task)
    OBVIOUS
  <2>2. PICK u \in Task, e \in BOOLEAN : old[i] = Result(u, e)
    BY <2>1 DEF ResultsFor
  <2>3. old[i].id = u /\ old[i].error = e
    BY <2>2 DEF Result
  <2> QED BY <1>6, <2>2, <2>3
<1>9. /\ e = TRUE => reader' = [reader EXCEPT ![r] = "stop"] /\ UNCHANGED received
      /\ e = FALSE => /\ received' = [received EXCEPT ![r] = @ \cup {u}]
                      /\ reader' = [reader EXCEPT ![r] = "stop"] \/ reader' = reader
  BY <1>6, <1>8
<1>10. /\ \A q \in Root \ {r} : reader'[q] = reader[q] /\ received'[q] = received[q]
       /\ reader'[r] \in {"waiting", "stop"} /\ (reader'[r] = "waiting" => e = FALSE)
       /\ received'[r] = IF e = TRUE THEN received[r] ELSE received[r] \cup {u}
       /\ received' = [q \in Root |-> received'[q]]
       /\ reader' \in [Root -> {"new", "waiting", "stop", "cleanup", "cancel", "done"}]
  <2>1. /\ reader \in [Root -> {"new", "waiting", "stop", "cleanup", "cancel", "done"}]
        /\ received = [q \in Root |-> received[q]]
    BY <1>2 DEF ResultTypes
  <2>2. CASE e = TRUE
    BY <1>2, <1>9, <2>1, <2>2
  <2>3. CASE e = FALSE
    BY <1>2, <1>9, <2>1, <2>3
  <2> QED BY <2>2, <2>3
<1>11. /\ queue_results' \in Seq(ResultsFor(Task))
       /\ \A T : /\ Count(old, T) = Count(queue_results', T) + (IF Result(u, e) \in T THEN 1 ELSE 0)
                 /\ Count(old, T) \in Nat /\ Count(queue_results', T) \in Nat
  <2>1. RemoveAt(old, i) \in Seq(ResultsFor(Task))
    BY CountRemoveAt
  <2>2. PICK new \in Seq(ResultsFor(Task)) : new = RemoveAt(old, i)
    BY <2>1
  <2>3. ASSUME NEW T
        PROVE  /\ Count(old, T) = Count(new, T) + (IF Result(u, e) \in T THEN 1 ELSE 0)
               /\ Count(old, T) \in Nat /\ Count(new, T) \in Nat
    <3>1. Count(old, T) = Count(new, T) + (IF old[i] \in T THEN 1 ELSE 0)
      BY <2>2, CountRemoveAt
    <3>2. Count(old, T) \in Nat /\ Count(new, T) \in Nat
      BY CountFinite
    <3> QED BY <1>8, <3>1, <3>2
  <2> QED BY <1>6, <2>2, <2>3
<1>12. ResultTypes'
  <2>1. waiting_task_ids' = {t \in Task : reader'[RootOf(t)] \in {"waiting", "stop"}}
    <3>1. ASSUME NEW t \in Task
          PROVE  reader[RootOf(t)] \in {"waiting", "stop"} <=> reader'[RootOf(t)] \in {"waiting", "stop"}
      <4>1. RootOf(t) \in Root
        BY SettingFacts DEF QueueTypes
      <4> QED BY <1>2, <1>10, <4>1
    <3> QED BY <1>2, <1>7, <3>1 DEF ResultTypes
  <2>2. ResultsFor(Task)' = ResultsFor(Task)
    BY <1>1 DEF ResultsFor, Result
  <2> QED BY <1>1, <1>10, <1>11, <2>1, <2>2 DEF ResultTypes
<1>13. \A t \in Task : Asked(t)' = Asked(t) /\ Cancels(t)' = Cancels(t)
  BY <1>2, <1>4, AsksSame
<1>14. ASSUME NEW t \in Task
       PROVE  /\ Parts(t) /\ Parts(t)' /\ Held(t)' = Held(t)
              /\ Waiting(t) = Waiting(t)' + (IF t = u THEN 1 ELSE 0)
              /\ Got(t)' = IF t = u /\ e = FALSE THEN 1 ELSE Got(t)
  <2>1. Parts(t) /\ Parts(t)'
    BY <1>2, <1>4, <1>12, CopiesAre, CopiesNext
  <2>2. Held(t)' = Held(t)
    BY <1>2, <1>7, CensusNext
  <2>3. Waiting(t) = Waiting(t)' + (IF t = u THEN 1 ELSE 0)
    <3>1. Waiting(t)' = Count(queue_results', ResultsFor({t})) /\ Waiting(t) = Count(old, ResultsFor({t}))
      BY <1>2, <1>5, CensusNext DEF Waiting
    <3>2. Result(u, e) \in ResultsFor({t}) <=> u = t
      BY ResultIn
    <3> QED BY <1>11, <3>1, <3>2
  <2>4. Got(t)' = IF t = u /\ e = FALSE THEN 1 ELSE Got(t)
    <3>1. Got(t)' = IF t \in received'[RootOf(t)] THEN 1 ELSE 0
      BY <1>2, CensusNext
    <3>2. RootOf(t) \in Root /\ (RootOf(t) = r <=> t \in Ids(r))
      BY <1>3, SettingFacts DEF QueueTypes
    <3>3. CASE RootOf(t) # r
      <4>1. t # u
        BY <3>2, <3>3
      <4> QED BY <1>10, <3>1, <3>2, <3>3, <4>1 DEF Got
    <3>4. CASE RootOf(t) = r
      BY <1>10, <3>1, <3>4 DEF Got
    <3> QED BY <3>3, <3>4
  <2> QED BY <2>1, <2>2, <2>3, <2>4
<1>15. ASSUME NEW t \in Task, t # u PROVE Copies(t)' = Copies(t)
  <2>1. Parts(t) /\ Parts(t)' /\ Held(t)' = Held(t) /\ Got(t)' = Got(t) /\ Asked(t)' = Asked(t)
    BY <1>13, <1>14, <1>15
  <2>2. Waiting(t) = Waiting(t)'
    <3>1. Waiting(t) = Waiting(t)' + 0 /\ Waiting(t)' \in Nat
      BY <1>14, <1>15 DEF Parts
    <3> QED BY <3>1
  <2> QED BY <2>1, <2>2 DEF Parts
<1>16. /\ Copies(u) <= 1 /\ Copies(u)' <= 1
       /\ e = FALSE => Copies(u)' = Copies(u)
  <2>1. u \in Task /\ Copies(u) <= 1
    BY <1>2, <1>3 DEF OfRequest
  <2>2. Waiting(u) = Waiting(u)' + 1 /\ Held(u)' = Held(u) /\ Asked(u)' = Asked(u)
        /\ Got(u)' = IF e = FALSE THEN 1 ELSE Got(u)
    BY <1>13, <1>14, <2>1
  <2>3. /\ Copies(u) = Asked(u) + Waiting(u) + Held(u) + Got(u)
        /\ Copies(u)' = Asked(u)' + Waiting(u)' + Held(u)' + Got(u)'
        /\ Asked(u) \in Nat /\ Waiting(u)' \in Nat /\ Held(u) \in Nat /\ Got(u) \in {0, 1}
    BY <1>14, <2>1 DEF Parts
  <2> QED BY <2>1, <2>2, <2>3
<1>17. ASSUME NEW q \in Root \ {r} PROVE Wrong(q)' = Wrong(q) /\ Pending(q)' = Pending(q)
  <2>1. PICK T : T = Errors(q)
    OBVIOUS
  <2>2. PICK U : U = ResultsFor(Ids(q))
    OBVIOUS
  <2>3. Result(u, e) \notin T /\ Result(u, e) \notin U
    BY <2>1, <2>2, RequestsApart
  <2>4. Wrong(q)' = Count(queue_results', T) /\ Pending(q)' = Count(queue_results', U)
    BY <1>2, <2>1, <2>2, CensusNext
  <2>5. Count(old, T) = Count(queue_results', T) /\ Count(old, U) = Count(queue_results', U)
    BY <1>11, <2>3
  <2> QED BY <1>5, <2>1, <2>2, <2>4, <2>5 DEF Wrong, Pending
<1>18. OthersSame(r)
  <2>1. \A t \in Task : RootOf(t) # r => Copies(t)' = Copies(t) /\ Cancels(t)' = Cancels(t)
    <3>1. \A t \in Task : RootOf(t) # r => t # u
      BY <1>3
    <3> QED BY <1>13, <1>15, <3>1
  <2> QED BY <1>4, <1>10, <1>12, <1>17, <2>1 DEF OthersSame
<1>19. ASSUME NEW t \in Ids(r)
       PROVE  /\ Copies(t)' <= 1 /\ Cancels(t)' = 0
              /\ e = FALSE => Copies(t)' = Copies(t)
  <2>1. Copies(t) <= 1 /\ Cancels(t) = 0 /\ t \in Task
    BY <1>2, <1>3 DEF OfRequest
  <2>2. CASE t = u
    BY <1>13, <1>16, <2>1, <2>2
  <2>3. CASE t # u
    BY <1>13, <1>15, <2>1, <2>3
  <2> QED BY <2>2, <2>3
<1>20. ASSUME e = FALSE PROVE Wrong(r)' = Wrong(r)
  <2>1. PICK T : T = Errors(r)
    OBVIOUS
  <2>2. Result(u, e) \notin T
    <3>1. ASSUME NEW t PROVE Result(u, e) # Result(t, TRUE)
      BY <1>20 DEF Result
    <3> QED BY <2>1, <3>1 DEF Errors
  <2>3. Wrong(r)' = Count(queue_results', T)
    BY <1>2, <2>1, CensusNext
  <2>4. Count(old, T) = Count(queue_results', T)
    BY <1>11, <2>2
  <2> QED BY <1>5, <2>1, <2>3, <2>4 DEF Wrong
<1>21. reader'[r] = "waiting" => (\A t \in Ids(r) : Copies(t)' = 1) \/ Wrong(r)' > 0
  BY <1>2, <1>10, <1>19, <1>20 DEF OfRequest
<1>22. OfRequest(r)'
  BY <1>1, <1>10, <1>19, <1>21 DEF OfRequest
<1> QED BY <1>18, <1>22, OthersKeep

-----------------------------------------------------------------------------
(* The census always holds, and what it means.                              *)

(* At the start there is nothing. *)
LEMMA CensusInit == Init => Census
<1> SUFFICES ASSUME Init PROVE Census
  OBVIOUS
<1>1. QueueTypes
  BY DEF Init, QueueTypes
<1>2. \A t \in Task : RootOf(t) \in Root
  BY <1>1, SettingFacts DEF QueueTypes
<1>3. \A r \in Root : Ids(r) \subseteq Task
  BY <1>1, SettingFacts DEF QueueTypes
<1>4. queue_results = <<>> /\ reader = [r \in Root |-> "new"] /\ received = [r \in Root |-> {}]
      /\ waiting_task_ids = {}
  BY DEF Init
<1>5. ResultTypes
  <2>1. queue_results \in Seq(ResultsFor(Task))
    BY <1>4
  <2>2. reader \in [Root -> {"new", "waiting", "stop", "cleanup", "cancel", "done"}]
    BY <1>4
  <2>3. received = [r \in Root |-> received[r]]
    BY <1>4
  <2>4. {t \in Task : reader[RootOf(t)] \in {"waiting", "stop"}} = {}
    BY <1>2, <1>4
  <2> QED BY <1>4, <2>1, <2>2, <2>3, <2>4 DEF ResultTypes
<1>6. \A T : Count(queue_results, T) = 0 /\ Total(T) = 0
  BY CountEmpty DEF Init, Total
<1>7. ASSUME NEW t \in Task PROVE Copies(t) = 0 /\ Cancels(t) = 0
  <2>1. Parts(t)
    BY <1>1, <1>5, CopiesAre
  <2>2. Asked(t) = 0 /\ Waiting(t) = 0 /\ Cancels(t) = 0
    BY <1>6 DEF Asked, Waiting, Cancels
  <2>3. Got(t) = 0
    BY <1>2, <1>4 DEF Got
  <2>4. Held(t) = 0
    <3>1. t # 0
      BY <1>1, SettingFacts DEF QueueTypes
    <3>2. Having(Slot, t) = {}
      BY <3>1 DEF Init, Idle, Having
    <3> QED BY <3>2, FS_EmptySet DEF Held
  <2> QED BY <2>1, <2>2, <2>3, <2>4 DEF Parts
<1>8. ASSUME NEW r \in Root PROVE OfRequest(r)
  <2>1. Pending(r) = 0
    BY <1>6 DEF Pending
  <2>2. reader[r] = "new"
    BY <1>4
  <2>3. \A t \in Ids(r) : Copies(t) = 0 /\ Cancels(t) = 0 /\ Copies(t) <= 1
    <3>1. \A n : n = 0 => n <= 1
      OBVIOUS
    <3> QED BY <1>3, <1>7, <3>1
  <2> QED BY <2>1, <2>2, <2>3 DEF OfRequest
<1> QED BY <1>5, <1>8 DEF Census

(* Every step keeps it. *)
LEMMA CensusStep ==
    ASSUME SlotTypeOK, Census, [Next]_vars
    PROVE  Census'
<1>1. QueueTypes /\ SlotsTyped
  BY DEF SlotTypeOK
<1>2. CASE UNCHANGED vars
  <2>1. setting' = setting /\ UNCHANGED slots /\ UNCHANGED <<results, clients>>
        /\ UNCHANGED <<queues, taken, taken_yield>>
    BY <1>2 DEF vars, main
  <2>2. ResultTypes
    BY DEF Census
  <2>3. Moved
    BY <1>1, <2>1, QueuesAlone
  <2>4. Settled
    BY <1>1, <2>1, <2>2, <2>3, MoveSettles
  <2> QED BY <1>1, <2>1, <2>4, SettledKeeps DEF clients
<1>3. CASE MainStep \/ WorkerStep
  <2>1. setting' = setting /\ UNCHANGED clients
    BY <1>3 DEF MainStep, WorkerStep, TakeTask, HandleDefer, HandleLaunch, HandleLaunchFails, HandleSlotAction,
       HandleMetrics, HandleCancel, HandleNextResponse, UpdateSlots, PreDecode, Decode, DecodeFails, AbortAll,
       PostDecode, Wake, YieldTake, YieldHandle, Taken
  <2>2. ResultTypes
    BY DEF Census
  <2>3. Uncancelled
    <3> SUFFICES ASSUME NEW t \in Task, reader[RootOf(t)] # "done" PROVE Total({Entry("cancel", t)}) = 0
      BY DEF Uncancelled
    <3>1. RootOf(t) \in Root /\ t \in Ids(RootOf(t))
      BY <1>1, SettingFacts DEF QueueTypes
    <3> QED BY <3>1 DEF Census, OfRequest, Cancels
  <2>4. Settled
    BY <1>1, <1>3, <2>2, <2>3, ServerSettles
  <2> QED BY <1>1, <2>1, <2>4, SettledKeeps
<1>4. ASSUME NEW r \in Root, UNCHANGED setting,
             PostTasks(r) \/ Leave(r) \/ Receive(r) \/ Stop(r) \/ Cleanup(r) \/ Cancel(r)
      PROVE  Census'
  BY <1>1, <1>4, PostCensus, LeaveCensus, ReceiveCensus, StopCensus, CleanupCensus, CancelCensus
<1> QED BY <1>2, <1>3, <1>4 DEF Next, ReaderStep, Terminated

(* The census is kept by every behaviour of the server. *)
THEOREM CensusKept == Spec => []Census
<1>1. Census /\ SlotTypeOK /\ [Next]_vars => Census'
  BY CensusStep
<1> QED BY <1>1, CensusInit, SlotTypeCorrect, PTL DEF Spec

(* No task is run or answered twice, whichever way it takes through the     *)
(* main thread's and the worker's queues. *)
THEOREM EachAnsweredOnce == Spec => []AnsweredOnce
<1>1. SlotTypeOK /\ Census => AnsweredOnce
  <2> SUFFICES ASSUME SlotTypeOK, Census, NEW t \in Task PROVE Copies(t) <= 1
    BY DEF AnsweredOnce
  <2>1. RootOf(t) \in Root /\ t \in Ids(RootOf(t))
    BY SettingFacts DEF SlotTypeOK, QueueTypes
  <2> QED BY <2>1 DEF Census, OfRequest
<1> QED BY <1>1, CensusKept, SlotTypeCorrect, PTL

(* While a reader waits, all of its request is on its way, or an error is   *)
(* that ends it. *)
THEOREM RequestsKept == Spec => []NothingLost
<1>1. SlotTypeOK /\ Census => NothingLost
  <2> SUFFICES ASSUME SlotTypeOK, Census, NEW r \in Root, reader[r] = "waiting", Wrong(r) > 0
               PROVE  \E i \in DOMAIN queue_results : queue_results[i].id \in Ids(r) /\ queue_results[i].error
    BY DEF NothingLost, Census, OfRequest
  <2>1. PICK T : T = Errors(r)
    OBVIOUS
  <2>2. PICK q \in Seq(ResultsFor(Task)) : q = queue_results
    BY DEF Census, ResultTypes
  <2>3. Count(q, T) # 0
    BY <2>1, <2>2 DEF Wrong
  <2>4. PICK i \in DOMAIN q : q[i] \in T
    BY <2>3, CountZero
  <2>5. PICK t \in Ids(r) : q[i] = Result(t, TRUE)
    BY <2>1, <2>4 DEF Errors
  <2>6. q[i].id = t /\ q[i].error = TRUE
    BY <2>5 DEF Result
  <2> QED BY <2>2, <2>6
<1> QED BY <1>1, CensusKept, SlotTypeCorrect, PTL

(* When a reader has stopped and cleaned up, no result is left that nobody  *)
(* will ever take. *)
THEOREM NoResultLeft == Spec => []NoOrphanResult
<1>1. SlotTypeOK /\ Census => NoOrphanResult
  <2> SUFFICES ASSUME SlotTypeOK, Census, NEW i \in DOMAIN queue_results,
                      reader[RootOf(queue_results[i].id)] \notin {"waiting", "stop", "cleanup"}
               PROVE  FALSE
    BY DEF NoOrphanResult
  <2>1. PICK q \in Seq(ResultsFor(Task)) : q = queue_results
    BY DEF Census, ResultTypes
  <2>2. q[i] \in ResultsFor(Task) /\ i \in DOMAIN q
    BY <2>1
  <2>3. PICK t \in Task, e \in BOOLEAN : q[i] = Result(t, e)
    BY <2>2 DEF ResultsFor
  <2>4. q[i].id = t
    BY <2>3 DEF Result
  <2>5. PICK r \in Root : r = RootOf(t) /\ t \in Ids(r)
    BY SettingFacts DEF SlotTypeOK, QueueTypes
  <2>6. PICK T : T = ResultsFor(Ids(r))
    OBVIOUS
  <2>7. q[i] \in T
    BY <2>3, <2>5, <2>6 DEF ResultsFor
  <2>8. Count(q, T) = 0
    <3>1. Pending(r) = 0
      BY <2>1, <2>4, <2>5 DEF Census, OfRequest
    <3> QED BY <2>1, <2>6, <3>1 DEF Pending
  <2> QED BY <2>2, <2>7, <2>8, CountZero
<1> QED BY <1>1, CensusKept, SlotTypeCorrect, PTL
=============================================================================
