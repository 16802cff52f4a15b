--------------------------- MODULE MCMetaButterfly ---------------------------
(* TLC instances of MetaButterfly: the systems, records a .cfg cannot write. *)
EXTENDS MetaButterfly

(* Backends that copy through the host, evaluations that are given up, and  *)
(* backends that copy asynchronously, with one all-reduce.                  *)
SyncAndAsync ==
    { [sizes |-> {2, 3},    async |-> FALSE, fail |-> TRUE,  calls |-> 2],
      [sizes |-> {2, 3, 4}, async |-> TRUE,  fail |-> FALSE, calls |-> 1] }

(* Two backends that copy asynchronously, two all-reduces in a row. *)
AsyncTwice == { [sizes |-> {2}, async |-> TRUE, fail |-> FALSE, calls |-> 2] }
=============================================================================
