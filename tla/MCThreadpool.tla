---------------------------- MODULE MCThreadpool ----------------------------
(* Graphs for the model checker: products after one another, which share    *)
(* the counter and the work buffer, nodes that are skipped, and plans for   *)
(* one, some, all and more threads than there are.                          *)
EXTENDS Threadpool

ThreePlans == {
    [threads |-> 1, nodes |-> <<"op">>],
    [threads |-> 2, nodes |-> <<"chunks", "chunks">>],
    [threads |-> 9, nodes |-> <<"rows", "empty", "op">>] }
=============================================================================
