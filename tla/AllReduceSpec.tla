---------------------------- MODULE AllReduceSpec ----------------------------
(***************************************************************************)
(* What an all-reduce between GPUs promises its caller, whatever transport *)
(* it uses (ggml-cuda/allreduce.cu: the chunked kernel, module             *)
(* AllReduceKernel, and the copy engines, module AllReduceCopy).           *)
(*                                                                         *)
(* Calls are numbered from 1.  Rank r contributes to call c one value for  *)
(* every element of the tensor; the value itself is not modelled, the pair *)
(* <<r, c>> names it.  A result is the sequence of the contributions in    *)
(* the order in which they are added, because floating-point addition does *)
(* not associate: two ranks hold the same bits when they hold the same     *)
(* sequence.                                                               *)
(***************************************************************************)
EXTENDS Naturals, Sequences

CONSTANTS NRanks,    \* number of devices, n_devices in the code
          MaxCount   \* elements of the largest tensor (or chunk) reduced

Rank == 0 .. NRanks - 1
Elem == 0 .. MaxCount - 1

VARIABLES given,  \* given[r][e]: the last call to which r contributed element e
          out     \* out[r][e]: the last result r received for element e

specVars == <<given, out>>

(* The sum of call c: every rank's contribution to c, in rank order. *)
Sum(c) == [k \in 1 .. NRanks |-> <<k - 1, c>>]

SpecInit ==
    /\ given = [r \in Rank |-> [e \in Elem |-> 0]]
    /\ out   = [r \in Rank |-> [e \in Elem |-> <<>>]]

(* Rank r publishes its contribution to call c for the elements L, each a   *)
(* later call than the one it last contributed to.                          *)
Contribute(r, L, c) ==
    /\ \A e \in L : given[r][e] < c
    /\ given' = [given EXCEPT ![r] = [e \in Elem |-> IF e \in L THEN c ELSE @[e]]]
    /\ UNCHANGED out

(* Rank r receives the result of call c for the elements L: every rank has  *)
(* contributed by then (the barrier), r has not moved on to a later call,   *)
(* and the result replaces an earlier one, so none arrives twice.           *)
Deliver(r, L, c) ==
    /\ \A e \in L : given[r][e] = c
    /\ \A e \in L, p \in Rank : given[p][e] >= c
    /\ \A e \in L : out[r][e] # Sum(c)
    /\ out' = [out EXCEPT ![r] = [e \in Elem |-> IF e \in L THEN Sum(c) ELSE @[e]]]
    /\ UNCHANGED given

(* The elements of a step are those it changes, and share the call they are *)
(* contributed to: the one that given' names.                               *)
SpecNext ==
    \E r \in Rank :
        \/ LET L == {e \in Elem : given'[r][e] # given[r][e]} IN
           /\ L # {}
           /\ \E c \in {given'[r][e] : e \in L} : Contribute(r, L, c)
        \/ LET L == {e \in Elem : out'[r][e] # out[r][e]} IN
           /\ L # {}
           /\ \E c \in {given[r][e] : e \in L} : Deliver(r, L, c)

SpecSpec == SpecInit /\ [][SpecNext]_specVars
=============================================================================
