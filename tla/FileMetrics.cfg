\* Trees of up to five nodes; what is nested three deep is cut off, and
\* the Python visitors do not reach a fifth node inside one another.
SPECIFICATION AnalysisSpec
CONSTANTS
    MaxNodes = 5
    MaxNestingDepth = 2
    RecursionLimit = 4
    Trees <- MCTrees
INVARIANTS CountsMatchDefinition FunctionsFoundOnce
PROPERTY AnalysisEnds
\* the behaviour ends with the analysis
CHECK_DEADLOCK FALSE
