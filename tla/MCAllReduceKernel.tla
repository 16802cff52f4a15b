-------------------------- MODULE MCAllReduceKernel --------------------------
(* TLC instances of AllReduceKernel: the vector widths, which a .cfg cannot *)
(* write.                                                                   *)
EXTENDS AllReduceKernelProofs

(* Every GPU compiled for the same copy width. *)
UniformVec == [r \in Rank |-> 2]

UniformVec1 == [r \in Rank |-> 1]

(* A Pascal (8-byte copies) next to a Volta (16-byte copies). *)
MixedVec == [r \in Rank |-> IF r = 0 THEN 1 ELSE 2]
=============================================================================
