------------------------------ MODULE QueueOps ------------------------------
(***************************************************************************)
(* What the server does with its queues, which std::deque and              *)
(* std::remove_if do in the code.  A test is given as the set of the       *)
(* elements that pass it.                                                  *)
(***************************************************************************)
EXTENDS Integers, Sequences, FiniteSets, SequencesExt

(* The elements of q that are in T, in their order. *)
Select(q, T) ==
    LET chosen[i \in 0 .. Len(q)] ==
            IF i = 0 THEN <<>>
            ELSE IF q[i] \in T THEN Append(chosen[i - 1], q[i]) ELSE chosen[i - 1]
    IN  chosen[Len(q)]

(* The elements of q that are not in T, in their order: erase(remove_if()). *)
Without(q, T) == Select(q, Range(q) \ T)

(* How many elements of q are in T. *)
Count(q, T) == Cardinality({i \in DOMAIN q : q[i] \in T})
=============================================================================
