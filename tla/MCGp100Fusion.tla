---------------------------- MODULE MCGp100Fusion ----------------------------
(* TLC instances of Gp100Fusion: the graphs and what is switched off. *)
EXTENDS Gp100Fusion

NormsWith(off, evals) == [graph |-> Indexed(Norms(FALSE)), n_seqs |-> 1, off |-> off, evals |-> evals]
LayerWith(ids, extra, off) ==
    [graph |-> Indexed(Layer(ids, extra, FALSE)), n_seqs |-> Len(ids), off |-> off, evals |-> 1]

(* The norms, evaluated twice, and with each of the switches; a linear       *)
(* attention layer of one sequence; of one that takes over the row of        *)
(* another state, which moves behind it; of two whose rows change places.    *)
AllGraphs ==
    { NormsWith({}, 2), NormsWith({"fusion"}, 1), NormsWith({"state"}, 1),
      NormsWith({"norm"}, 1), NormsWith({"cache"}, 1),
      LayerWith(<<1>>, <<>>, {}), LayerWith(<<1>>, <<>>, {"state"}), LayerWith(<<1>>, <<>>, {"fusion"}),
      LayerWith(<<2>>, <<1>>, {}), LayerWith(<<2, 1>>, <<>>, {}) }

(* The norms of the last layer, before the output matrix. *)
LastNorm == {[NormsWith({}, 1) EXCEPT !.graph = Indexed(Norms(TRUE))]}
=============================================================================
