---------------------------- MODULE Gp100Graphs ----------------------------
(***************************************************************************)
(* The graphs that Gp100Fusion places and evaluates: the parts of a decode *)
(* step of qwen35 that the fused kernels stand for.                        *)
(*                                                                         *)
(* A node t has an operation, sources and n parts, the pieces that the     *)
(* blocks of a kernel handle.  A source is some parts of a tensor, taken   *)
(* directly or through a view (a reshape, a transpose, a slice).  A gather *)
(* from a cache of recurrent states, or a copy into one, names the rows.   *)
(* Weights are left out.                                                   *)
(***************************************************************************)
EXTENDS Integers, Sequences

Node(t, op, src, n) == [t |-> t, op |-> op, src |-> src, n |-> n, cache |-> "none", rows |-> <<>>]
RowsNode(t, op, src, n, cache, rows) == [Node(t, op, src, n) EXCEPT !.cache = cache, !.rows = rows]
Ref(t, parts)  == [t |-> t, parts |-> parts, view |-> FALSE]
View(t, parts) == [t |-> t, parts |-> parts, view |-> TRUE]

(* Part of the k-th sequence for block b, of a tensor with a part for each. *)
Part(k, b) == 2 * (k - 1) + b
Parts(n, b) == {Part(k, b) : k \in 1 .. n}

(* build_rs: row ids[k] is gathered for the k-th sequence, and the states that *)
(* no sequence continues from move behind them by a gather and a copy.         *)
StateRows(ids, extra, t, xt, xc, cache) ==
    LET N == Len(ids) IN
    << RowsNode(t, "GET_ROWS", <<Ref("ids", {1})>>, 2 * N, cache, ids) >> \o
    IF extra = <<>> THEN <<>>
    ELSE << RowsNode(xt, "GET_ROWS", <<>>, 2, cache, extra),
            RowsNode(xc, "CPY", <<Ref(xt, {1, 2})>>, 0, cache, <<N + 1>>) >>

(* A linear attention layer at decode, from the normed input h to the attention *)
(* scores.  The last layer of a split is the last to need ids.                  *)
Layer(ids, extra, last) ==
    LET N == Len(ids)
        all == 1 .. 2 * N
        own_rows == [k \in 1 .. N |-> k]
        h == Ref("h", {1})
    IN  << Node("ids", "INPUT", <<>>, 1), Node("h", "OTHER", <<>>, 1) >>
        \o StateRows(ids, extra, "G", "XG", "XGcpy", "conv") \o
        << Node("qkv", "MUL_MAT", <<h>>, 2 * N),
           Node("conv_input", "CONCAT", <<View("G", all), View("qkv", all)>>, 2 * N),
           RowsNode("convcpy", "CPY", <<View("conv_input", all)>>, 0, "conv", own_rows) >>
        \o StateRows(ids, extra, "S", "XS", "XScpy", "ssm") \o
        << Node("conv", "SSM_CONV", <<Ref("conv_input", all)>>, 2 * N),
           Node("mix", "SILU", <<Ref("conv", all)>>, 2 * N),
           Node("q", "L2_NORM", <<View("mix", Parts(N, 1))>>, 1),
           Node("k", "L2_NORM", <<View("mix", Parts(N, 1))>>, 1),
           Node("alpha", "MUL_MAT", <<h>>, 1),
           Node("biased", "ADD", <<View("alpha", {1})>>, 1),
           Node("softplus", "SOFTPLUS", <<Ref("biased", {1})>>, 1),
           Node("gate", "MUL", <<Ref("softplus", {1})>>, 1),
           Node("braw", "MUL_MAT", <<h>>, 1),
           Node("beta", "SIGMOID", <<View("braw", {1})>>, 1),
           Node("gdn", "GATED_DELTA_NET", << Ref("q", {1}), Ref("k", {1}), View("mix", Parts(N, 2)),
                    View("gate", {1}), Ref("beta", {1}), View("S", all) >>, 4 * N),
           RowsNode("statecpy", "CPY", <<View("gdn", 2 * N + 1 .. 4 * N)>>, 0, "ssm", own_rows),
           Node("out", "OTHER", <<View("gdn", all), h>>, 1) >>
        \o IF last THEN <<>> ELSE << Node("next", "OTHER", <<Ref("ids", {1})>>, 1) >>

(* The norms of a layer and the matmuls they feed; two parts are two rows of *)
(* the gated norm and two chunks of the one row of the others.  The norm of  *)
(* the last layer is the output norm, and nothing else reads its input.      *)
Norms(last) ==
    LET D(t) == Ref(t, {1, 2})
        V(t) == View(t, {1, 2})
    IN  << Node("x", "OTHER", <<>>, 2),
           Node("n1", "RMS_NORM", <<D("x")>>, 2), Node("attn_norm", "MUL", <<D("n1")>>, 2),
           Node("gdn", "OTHER", <<D("attn_norm")>>, 3),
           Node("r", "RMS_NORM", <<V("gdn")>>, 2), Node("m1", "MUL", <<D("r")>>, 2),
           Node("z", "MUL_MAT", <<D("attn_norm")>>, 2), Node("silu", "SILU", <<V("z")>>, 2),
           Node("m2", "MUL", <<D("m1"), D("silu")>>, 2),
           Node("attn", "MUL_MAT", <<V("m2")>>, 2), Node("res", "ADD", <<V("attn"), D("x")>>, 2),
           Node("n2", "RMS_NORM", <<D("res")>>, 2), Node("post_norm", "MUL", <<D("n2")>>, 2),
           Node("ffn", "MUL_MAT", <<D("post_norm")>>, 2),
           Node("post_ffn", "ADD", <<D("ffn"), D("res")>>, 2),
           Node("n3", "RMS_NORM", <<D("post_ffn")>>, 2), Node("norm", "MUL", <<D("n3")>>, 2),
           Node("result", "MUL_MAT", <<D("norm")>>, 1) >>
        \o IF last THEN <<>> ELSE << Node("next", "ADD", <<Ref("result", {1}), D("post_ffn")>>, 2) >>

(* A graph, the place of each tensor in it, and who reads the tensor: node, source. *)
Indexed(nodes) ==
    LET names == {nodes[i].t : i \in DOMAIN nodes} IN
    [nodes |-> nodes,
     index |-> [t \in names |-> CHOOSE i \in DOMAIN nodes : nodes[i].t = t],
     uses  |-> [t \in names |-> {u \in (DOMAIN nodes) \X (1 .. 6) :
                   u[2] \in DOMAIN nodes[u[1]].src /\ nodes[u[1]].src[u[2]].t = t}]]
=============================================================================
