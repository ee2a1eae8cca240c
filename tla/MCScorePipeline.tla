-------------------------- MODULE MCScorePipeline --------------------------
(* Instances of ScorePipeline for TLC.                                     *)
EXTENDS ScorePipeline, TLC

(* One record hash per commit: the hash covers the commit, the spec and    *)
(* the metrics, and the analysis is deterministic.                         *)
MCHashes == {<<"sha256", c>> : c \in Commits}
MCRecordHash == [c \in Commits |-> <<"sha256", c>>]
MCNoHash == <<"none">>

Sym == Permutations(Jobs) \cup Permutations(Workers) \cup Permutations(Apis)
         \cup Permutations(Tenants) \cup Permutations(Commits)
=============================================================================
