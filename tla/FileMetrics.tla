----------------------------- MODULE FileMetrics -----------------------------
(***************************************************************************)
(* cce.analyzers.builtin: the metrics of one source file.  TypeScript is   *)
(* measured by two loops over explicit stacks, one that looks for          *)
(* functions and one that counts inside a function; Python by two visitors *)
(* that recurse, and that keep the nesting depth in an attribute.          *)
(*                                                                         *)
(* A syntax tree is a number of nodes in preorder of their creation, the   *)
(* parent of each, and a kind.  A "loop" stands for every construct that   *)
(* branches and is no if; "else" is an else_clause, "logical" a            *)
(* binary_expression with a logical operator or a BoolOp, "arith" any      *)
(* other binary_expression.                                                *)
(* Operands and tokens that are leaves are not drawn.  Lines are not       *)
(* modelled.                                                               *)
(***************************************************************************)
EXTENDS Integers, Sequences, FiniteSetsExt, Functions

CONSTANTS MaxNodes,         \* bound: nodes of a tree
          MaxNestingDepth,  \* _MAX_NESTING_DEPTH
          RecursionLimit,   \* nodes inside one another that Python can recurse into
          Trees             \* the trees that are measured

Kinds == {"function", "if", "loop", "else", "logical", "arith", "plain"}
Languages == {"python", "typescript"}

ASSUME MetricsAssumption ==
    /\ MaxNodes \in Nat \ {0}
    /\ MaxNestingDepth \in Nat \ {0}
    /\ RecursionLimit \in Nat \ {0}
    /\ \A t \in Trees : /\ Len(t.kind) \in 1..MaxNodes
                        /\ Len(t.parent) = Len(t.kind)
                        /\ \A n \in 2..Len(t.kind) : t.parent[n] \in 1..(n - 1)

VARIABLES language,
          tree,     \* of the file: kind and parent of each node
          misread,  \* binary expressions whose operator is read as another one
          walk,     \* stack of the search for functions: node, depth
          inside,   \* stack of the count in a function: node, depth
          fn,       \* the function that is counted
          counter,  \* cyclomatic, cognitive, depth and max_depth
          results,  \* what was found, function by function
          pc        \* "walk", "count", "done" or "raised"

analysisVars == <<language, tree, misread, walk, inside, fn, counter, results, pc>>

Nodes == 1..Len(tree.kind)
Children(n) == {c \in Nodes \ {1} : tree.parent[c] = n}
Branching(n) == tree.kind[n] \in {"if", "loop"}

(* The nodes that each node lies in. *)
Above == LET above[n \in Nodes] == IF n = 1 THEN {} ELSE {tree.parent[n]} \cup above[tree.parent[n]]
         IN  above

(* Numbers in their order. *)
Ordered(S) ==
    CHOOSE s \in [1..Cardinality(S) -> S] :
        Range(s) = S /\ \A i, j \in DOMAIN s : i < j => s[i] < s[j]

(* A stack is a sequence with its top first: pushing the children reversed *)
(* leaves the first child on top.                                          *)
Push(S, depth, stack) ==
    [i \in 1..Cardinality(S) |-> [node |-> Ordered(S)[i], depth |-> depth]] \o stack

NewCounter == [cyclomatic |-> 1, cognitive |-> 0, depth |-> 0, max_depth |-> 0]

(* Operators are cut out of the text, a str, with byte offsets.  Where the *)
(* text before them is not ASCII this reads another part of it.            *)
BinaryNodes(t) == {n \in 1..Len(t.kind) : t.kind[n] \in {"logical", "arith"}}

AnalysisInit ==
    /\ language \in Languages
    /\ tree \in Trees
    /\ language = "python" => \A n \in Nodes : tree.kind[n] # "else"
    /\ IF language = "python" THEN misread = {} ELSE misread \in SUBSET BinaryNodes(tree)
    /\ walk = <<[node |-> 1, depth |-> 0]>>
    /\ inside = << >>
    /\ fn = 0
    /\ counter = NewCounter
    /\ results = << >>
    /\ pc = "walk"

-----------------------------------------------------------------------------
(* TypeScript. *)

\* Seeded bug: the search does not go into functions.
WalkShallow ==
    LET top == Head(walk)
        isFunction == tree.kind[top.node] = "function"
    IN  /\ language = "typescript" /\ pc = "walk" /\ walk # << >>
        /\ walk' = IF isFunction THEN Tail(walk)
                   ELSE Push(Children(top.node), top.depth + 1, Tail(walk))
        /\ fn' = IF isFunction THEN top.node ELSE fn
        /\ inside' = IF isFunction THEN Push(Children(top.node), 0, << >>) ELSE << >>
        /\ pc' = IF isFunction THEN "count" ELSE "walk"
        /\ UNCHANGED <<language, tree, misread, counter, results>>

(* One turn of the loop of _walk_ts_functions. *)
WalkTs ==
    LET top == Head(walk)
        isFunction == tree.kind[top.node] = "function"
    IN  /\ language = "typescript" /\ pc = "walk" /\ walk # << >>
        /\ walk' = IF top.depth >= MaxNestingDepth THEN Tail(walk)
                   ELSE Push(Children(top.node), top.depth + 1, Tail(walk))
        /\ fn' = IF isFunction THEN top.node ELSE fn
        /\ inside' = IF isFunction THEN Push(Children(top.node), 0, << >>) ELSE << >>
        /\ pc' = IF isFunction THEN "count" ELSE "walk"
        /\ UNCHANGED <<language, tree, misread, counter, results>>

(* The operator that was read is one of && || ??. *)
ReadsLogical(n) == (tree.kind[n] = "logical") # (n \in misread)

(* The node adds to the counts: a binary_expression only with a logical    *)
(* operator, an else_clause only if no if_statement follows it.            *)
IsBranchTs(n) ==
    \/ Branching(n)
    \/ tree.kind[n] = "else" /\ \A c \in Children(n) : tree.kind[c] # "if"
    \/ tree.kind[n] \in {"logical", "arith"} /\ ReadsLogical(n)

\* Seeded bug: the top is looked at, and popped where its children are pushed.
CountTsPeeks ==
    LET top == Head(inside)
        n == top.node
    IN  /\ language = "typescript" /\ pc = "count" /\ inside # << >>
        /\ IF tree.kind[n] = "function" \/ top.depth >= MaxNestingDepth
           THEN UNCHANGED <<inside, counter>>
           ELSE IF IsBranchTs(n)
           THEN /\ counter' = [counter EXCEPT
                       !.cyclomatic = counter.cyclomatic + 1,
                       !.cognitive = counter.cognitive + 1 + top.depth,
                       !.max_depth = IF counter.max_depth < top.depth + 1
                                     THEN top.depth + 1 ELSE counter.max_depth]
                /\ inside' = Push(Children(n), top.depth + 1, Tail(inside))
           ELSE /\ inside' = Push(Children(n), top.depth, Tail(inside))
                /\ UNCHANGED counter
        /\ UNCHANGED <<language, tree, misread, walk, fn, results, pc>>

(* One turn of the loop of _count_ts_function: a nested function is left   *)
(* to the search, what is nested too deeply is left out.                   *)
CountTs ==
    LET top == Head(inside)
        n == top.node
    IN  /\ language = "typescript" /\ pc = "count" /\ inside # << >>
        /\ IF tree.kind[n] = "function" \/ top.depth >= MaxNestingDepth
           THEN /\ inside' = Tail(inside)
                /\ UNCHANGED counter
           ELSE IF IsBranchTs(n)
           THEN /\ counter' = [counter EXCEPT
                       !.cyclomatic = counter.cyclomatic + 1,
                       !.cognitive = counter.cognitive + 1 + top.depth,
                       !.max_depth = IF counter.max_depth < top.depth + 1
                                     THEN top.depth + 1 ELSE counter.max_depth]
                /\ inside' = Push(Children(n), top.depth + 1, Tail(inside))
           ELSE /\ inside' = Push(Children(n), top.depth, Tail(inside))
                /\ UNCHANGED counter
        /\ UNCHANGED <<language, tree, misread, walk, fn, results, pc>>

-----------------------------------------------------------------------------
(* Python.  The stacks are those of the interpreter; an entry with depth   *)
(* Leave is the rest of generic_visit after the children of a branch.      *)
Leave == -1

(* The interpreter has no stack left for the visit of n, or had none for   *)
(* ast.parse, which recurses too.  How many frames a node takes differs;   *)
(* the limit is counted in nodes.                                          *)
TooDeep(n) == Cardinality(Above[n]) >= RecursionLimit

(* A visit raises RecursionError.  analyse_python turns a SyntaxError into *)
(* an AnalyzerError, and nothing else: this goes to its caller as it is.   *)
RecursionFails ==
    LET stack == IF pc = "walk" THEN walk ELSE inside
    IN  /\ language = "python" /\ pc \in {"walk", "count"} /\ stack # << >>
        /\ Head(stack).depth # Leave /\ TooDeep(Head(stack).node)
        /\ pc' = "raised"
        /\ UNCHANGED <<language, tree, misread, walk, inside, fn, counter, results>>

(* _PythonMetricVisitor: a function is counted and not entered, anything   *)
(* else is.                                                                *)
VisitPy ==
    LET n == Head(walk).node
        isFunction == tree.kind[n] = "function"
    IN  /\ language = "python" /\ pc = "walk" /\ walk # << >> /\ ~TooDeep(n)
        /\ walk' = IF isFunction THEN Tail(walk) ELSE Push(Children(n), 0, Tail(walk))
        /\ fn' = IF isFunction THEN n ELSE fn
        /\ inside' = IF isFunction THEN Push({n}, 0, << >>) ELSE << >>
        /\ pc' = IF isFunction THEN "count" ELSE "walk"
        /\ UNCHANGED <<language, tree, misread, counter, results>>

(* len(node.values) of a BoolOp, which has two at least. *)
Operands(n) == IF Cardinality(Children(n)) < 2 THEN 2 ELSE Cardinality(Children(n))

(* _PythonFunctionCounter.generic_visit, up to the children of a node. *)
CountPy ==
    LET n == Head(inside).node
        deeper == counter.depth + 1
    IN  /\ language = "python" /\ pc = "count" /\ inside # << >>
        /\ Head(inside).depth # Leave /\ ~TooDeep(n)
        /\ CASE Branching(n) ->
                  /\ counter' = [cyclomatic |-> counter.cyclomatic + 1,
                                 cognitive |-> counter.cognitive + deeper,
                                 depth |-> deeper,
                                 max_depth |-> IF counter.max_depth < deeper
                                               THEN deeper ELSE counter.max_depth]
                  /\ inside' = Push(Children(n), 0, Push({n}, Leave, Tail(inside)))
             [] tree.kind[n] = "logical" ->
                  /\ counter' = [counter EXCEPT
                         !.cyclomatic = counter.cyclomatic + Operands(n) - 1,
                         !.cognitive = counter.cognitive + Operands(n) - 1]
                  /\ inside' = Push(Children(n), 0, Tail(inside))
             [] OTHER ->
                  /\ inside' = Push(Children(n), 0, Tail(inside))
                  /\ UNCHANGED counter
        /\ UNCHANGED <<language, tree, misread, walk, fn, results, pc>>

\* Seeded bug: the depth is not reduced when a branch has been visited.
LeavePyDeep ==
    /\ language = "python" /\ pc = "count" /\ inside # << >>
    /\ Head(inside).depth = Leave
    /\ inside' = Tail(inside)
    /\ UNCHANGED <<language, tree, misread, walk, fn, counter, results, pc>>

(* ... and after them. *)
LeavePy ==
    /\ language = "python" /\ pc = "count" /\ inside # << >>
    /\ Head(inside).depth = Leave
    /\ counter' = [counter EXCEPT !.depth = counter.depth - 1]
    /\ inside' = Tail(inside)
    /\ UNCHANGED <<language, tree, misread, walk, fn, results, pc>>

-----------------------------------------------------------------------------
(* The function has been counted: results.append, or _record_function. *)
RecordFunction ==
    /\ pc = "count" /\ inside = << >>
    /\ results' = Append(results, [fn |-> fn, cyclomatic |-> counter.cyclomatic,
                                   cognitive |-> counter.cognitive,
                                   nesting_depth |-> counter.max_depth])
    /\ counter' = NewCounter
    /\ pc' = "walk"
    /\ UNCHANGED <<language, tree, misread, walk, inside, fn>>

(* The search is over. *)
Analysed ==
    /\ pc = "walk" /\ walk = << >>
    /\ pc' = "done"
    /\ UNCHANGED <<language, tree, misread, walk, inside, fn, counter, results>>

(* What analyse_python and analyse_typescript return: the largest value of *)
(* all functions; a file without any has cyclomatic 0 or 1.                *)
Largest(field, default) ==
    IF results = << >> THEN default ELSE Max({results[i][field] : i \in DOMAIN results})

FileResult ==
    [cyclomatic |-> Largest("cyclomatic", IF language = "python" THEN 0 ELSE 1),
     cognitive |-> Largest("cognitive", 0),
     nesting_depth |-> Largest("nesting_depth", 0)]

AnalysisNext == \/ WalkTs \/ CountTs
                \/ VisitPy \/ CountPy \/ LeavePy \/ RecursionFails
                \/ RecordFunction \/ Analysed

AnalysisSpec == AnalysisInit /\ [][AnalysisNext]_analysisVars /\ WF_analysisVars(AnalysisNext)

-----------------------------------------------------------------------------
(* What the loops are to compute, without loops. *)

Functions == {n \in Nodes : tree.kind[n] = "function"}

(* The nodes that belong to function f: of a nested function, all in       *)
(* Python, and none in TypeScript, where it is measured by itself.         *)
Body(f) ==
    {n \in Nodes : /\ f \in Above[n]
                   /\ language = "typescript" =>
                        (Above[n] \cup {n}) \cap Functions \subseteq Above[f] \cup {f}}

IsElseIf(n) == \E c \in Children(n) : tree.kind[c] = "if"

Nests(n) == \/ Branching(n)
            \/ language = "typescript" /\ tree.kind[n] = "logical"
            \/ tree.kind[n] = "else" /\ ~IsElseIf(n)

(* Branches of f around n. *)
Nesting(f, n) == Cardinality({m \in Body(f) \cap Above[n] : Nests(m)})

(* What is nested deeper than the limit is not looked at. *)
Counted(f) ==
    {n \in Body(f) : language = "typescript" => Nesting(f, n) < MaxNestingDepth}

Expected(f) ==
    LET branches == {n \in Counted(f) : Nests(n)}
        boolops  == {n \in Counted(f) : language = "python" /\ tree.kind[n] = "logical"}
        extra    == SumFunction([n \in boolops |-> Operands(n) - 1])
    IN  [fn |-> f,
         cyclomatic |-> 1 + Cardinality(branches) + extra,
         cognitive |-> SumFunction([n \in branches |-> 1 + Nesting(f, n)]) + extra,
         nesting_depth |-> Max({0} \cup {1 + Nesting(f, n) : n \in branches})]

(* In a text whose operators are read rightly every function gets the      *)
(* counts that its branches and their nesting define: an explicit stack    *)
(* gives no node the depth of another one, a visitor's depth is restored   *)
(* on the way out, and no count is carried over to the next function.      *)
CountsMatchDefinition ==
    pc = "done" /\ misread = {} => \A i \in DOMAIN results : results[i] = Expected(results[i].fn)

(* A function is found once, wherever it is nested, and the only ones left *)
(* out are, in TypeScript, those below the depth limit of the search, and, *)
(* in Python, those that are counted as part of another one.               *)
FunctionsFoundOnce ==
    pc = "done" =>
        LET found == {results[i].fn : i \in DOMAIN results}
        IN  /\ Cardinality(found) = Len(results)
            /\ found = IF language = "typescript"
                       THEN {f \in Functions : Cardinality(Above[f]) <= MaxNestingDepth}
                       ELSE {f \in Functions : Above[f] \cap Functions = {}}

(* The analysis of a file ends: with a result for every TypeScript tree,   *)
(* however deep, since every node is taken from a stack as often as it was *)
(* put there, and for a Python tree exactly if no node of it, in whichever *)
(* function, lies too deep for the visitors, which raise otherwise.        *)
AnalysisEnds ==
    <>(pc = IF language = "python" /\ \E n \in Nodes : TooDeep(n) THEN "raised" ELSE "done")

-----------------------------------------------------------------------------
(* What comments say, and the code does not do.                            *)

(* "Bail out at nested function boundaries (they're counted separately by  *)
(* _walk_ts_functions)": a function that the count skips is measured.      *)
SkippedFunctionsMeasured ==
    pc = "done" /\ language = "typescript" => Functions = {results[i].fn : i \in DOMAIN results}

(* "Count cyclomatic and cognitive complexity for a single TS function     *)
(* node": the counts depend on the tree and not on which characters come   *)
(* before an operator.                                                     *)
CountsIgnoreCharacters ==
    pc = "done" => \A i \in DOMAIN results : results[i] = Expected(results[i].fn)

=============================================================================
