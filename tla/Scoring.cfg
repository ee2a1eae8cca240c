\* Fine = 4: the steps are quarters; results in tenths; positions in hundredths.
SPECIFICATION Spec
CONSTANTS
    Metrics <- MCMetrics
    Rules <- MCRules
    Normalisations <- MCNormalisations
    Weights <- MCWeights
    Fine = 4
    Whole = 10
    Scale = 10
    Prec = 100
    MaxRaw = 5
INVARIANTS NearReference ScoreBetweenMetrics
PROPERTY NeverFalls
\* the behaviour ends when every metric has reached MaxRaw
CHECK_DEADLOCK FALSE
