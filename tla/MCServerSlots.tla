---------------------------- MODULE MCServerSlots ----------------------------
(***************************************************************************)
(* Requests for the model checker: what they ask for, of which slot, and   *)
(* which are children of which.                                            *)
(***************************************************************************)
EXTENDS ServerSlots

Completions(n) == [t \in 1 .. n |-> "completion"]
AnySlot(n) == [t \in 1 .. n |-> -1]
Single(n) == [t \in 1 .. n |-> 0]
Child(n) == [Single(n) EXCEPT ![2] = 1]   \* the second task is a child of the first

(* A parent with a child and a request for slot 0; prompts and decoding     *)
(* fail.                                                                    *)
Compete ==
    [kind |-> Completions(3), pin |-> [AnySlot(3) EXCEPT ![3] = 0], parent |-> Child(3), gen |-> 2,
     fail |-> {"prompt", "decode"}, leave |-> FALSE, cache |-> FALSE]

(* A parent with a child, and a slot action; anything fails, clients leave. *)
Action ==
    [Compete EXCEPT !.kind[3] = "slot_action", !.gen = 1, !.leave = TRUE,
                    !.fail = {"launch", "prompt", "full", "decode", "sample", "action", "abort"}]

(* The same with a request for metrics. *)
Observed == [Action EXCEPT !.kind[3] = "metrics", !.pin[3] = -1]

(* Three requests that take any slot; empty prompts, a prompt cache.        *)
Cached3 ==
    [Compete EXCEPT !.pin = AnySlot(3), !.parent = Single(3), !.gen = 1, !.fail = {"empty"}, !.cache = TRUE]

(* Three requests, the third for slot 0; the KV cache is full, batches are  *)
(* decoded in views, and one of them may fail after another has succeeded.  *)
Views3 ==
    [Compete EXCEPT !.parent = Single(3), !.fail = {"full", "split", "decode"}]

AllSettings == {Compete, Action, Observed, Cached3, Views3}

(* A parent with a child, whose batch is decoded in views. *)
ViewsWithChild == { [Compete EXCEPT !.fail = {"split"}] }

(* One slot with a prompt cache, every request asks for it. *)
Pinned ==
    { [kind |-> Completions(3), pin |-> [t \in 1 .. 3 |-> 0], parent |-> Single(3), gen |-> 2,
       fail |-> {}, leave |-> FALSE, cache |-> TRUE] }
=============================================================================
