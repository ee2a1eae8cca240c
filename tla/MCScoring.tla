----------------------------- MODULE MCScoring ------------------------------
(* Two metrics with rules of their own.  One has every rule with one to    *)
(* three cuts out of {1, 3, 4}, coinciding cuts included, and normalised   *)
(* values with uneven steps, which fall in some rules with up to two cuts; *)
(* the other has one of four rules that differ in cuts, values and length, *)
(* one of them falling.  One of the four weightings has a negative weight. *)
EXTENDS Scoring

SortedSeqs(S, n) == {s \in [1..n -> S] : Sorted(s)}
AnyRules == UNION {[cuts : SortedSeqs({1, 3, 4}, n), normalised : [1..n + 1 -> {0, 1, 4}]]
                   : n \in {1, 2}}
RisingRules == [cuts : SortedSeqs({1, 3, 4}, 3), normalised : SortedSeqs({0, 1, 4}, 4)]
FewRules == {[cuts |-> <<2>>, normalised |-> <<0, 4>>],
             [cuts |-> <<0, 3>>, normalised |-> <<1, 2, 4>>],
             [cuts |-> <<1, 1, 4>>, normalised |-> <<0, 1, 2, 4>>],
             [cuts |-> <<1, 4>>, normalised |-> <<4, 1, 0>>]}
MCRules == AnyRules \cup RisingRules \cup FewRules
MCMetrics == {"cyclomatic", "nesting_depth"}
MCNormalisations == {[cyclomatic |-> r, nesting_depth |-> q] : r \in AnyRules \cup RisingRules, q \in FewRules}
MCWeights == {[cyclomatic |-> k, nesting_depth |-> 10 - k] : k \in {-2, 0, 3, 5}}
=============================================================================
