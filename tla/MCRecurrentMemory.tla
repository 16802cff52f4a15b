------------------------- MODULE MCRecurrentMemory -------------------------
(***************************************************************************)
(* Settings of RecurrentMemory for model checking: what clients do, each   *)
(* with as much of the rest as keeps it small.                             *)
(***************************************************************************)
EXTENDS RecurrentMemory

Base == [rs |-> 0, ubs |-> 1, tok |-> 1, len |-> 2, calls |-> {}]
Draft == [Base EXCEPT !.rs = 1, !.tok = 2]

Sound == {
  [Base EXCEPT !.calls = {"rm", "cp", "keep", "clear"}],
  [Base EXCEPT !.calls = {"rm", "couple"}],
  [Base EXCEPT !.calls = {"rm", "edit"}],
  [Base EXCEPT !.calls = {"rm", "save"}],
  [Base EXCEPT !.calls = {"rm", "fail"}],
  [Base EXCEPT !.calls = {"rm"}, !.ubs = 2],
  \* speculative decoding, one micro batch per batch, slots in any order
  [Draft EXCEPT !.calls = {"rm", "back", "mix"}],
  \* a rollback is pending when a checkpoint is written or read
  [Draft EXCEPT !.calls = {"back", "save"}],
  \* a rollback is pending when a replay is split over two micro batches
  [Draft EXCEPT !.calls = {"back", "last"}, !.ubs = 2, !.len = 3]}

\* A batch of two micro batches, and a rollback of what the first decoded.
TwoMicroBatches == {[Draft EXCEPT !.calls = {"back"}, !.ubs = 2]}
=============================================================================
