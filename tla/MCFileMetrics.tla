--------------------------- MODULE MCFileMetrics ---------------------------
(* All trees of up to MaxNodes nodes below a root, as the grammars allow   *)
(* them: an else belongs to an if, which has at most one; no statement is  *)
(* an operand.  The second node of a tree is a function or a block.  A     *)
(* loop is drawn below an else only; elsewhere it is counted as an if is.  *)
EXTENDS FileMetrics

Grammatical(t) ==
    \A n \in 2..Len(t.kind) :
        LET p == t.parent[n]
        IN  /\ t.kind[n] = "else" =>
                  /\ t.kind[p] = "if"
                  /\ \A m \in 2..Len(t.kind) : t.parent[m] = p /\ t.kind[m] = "else" => m = n
            /\ t.kind[n] = "if" => t.kind[p] \notin {"logical", "arith"}
            /\ t.kind[n] = "loop" => t.kind[p] = "else"

KindsOf(size) == {k \in [1..size -> Kinds] :
                    k[1] = "plain" /\ (size > 1 => k[2] \in {"function", "plain"})}

Parents(size) == {p \in [1..size -> 0..(size - 1)] :
                    p[1] = 0 /\ \A n \in 2..size : p[n] \in 1..(n - 1)}

MCTrees == UNION {{t \in [kind : KindsOf(size), parent : Parents(size)] : Grammatical(t)}
                  : size \in 1..MaxNodes}
=============================================================================
