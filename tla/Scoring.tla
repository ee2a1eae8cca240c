------------------------------ MODULE Scoring ------------------------------
(***************************************************************************)
(* normalise_metric and score_metrics on scaled integers.  A normalised    *)
(* value of the spec is a number of Fine-ths, a weight a number of         *)
(* Whole-ths, and a result, which is quantised to decimal_places, a number *)
(* of Scale-ths.  Decimal division keeps a limited number of digits, so    *)
(* `position` is rounded to a number of Prec-ths before it is used; the    *)
(* products and sums after it are exact here (Decimal rounds them too,     *)
(* digits below the last one that quantize looks at).                      *)
(*                                                                         *)
(* A repository is scored again and again while one of its metrics grows.  *)
(***************************************************************************)
EXTENDS Integers, Sequences, FiniteSetsExt, Functions

CONSTANTS Metrics,     \* METRIC_NAMES
          Rules,       \* NormalisationRule: cuts and normalised
          Normalisations, \* spec.normalisation: a rule for every metric
          Weights,     \* spec.weights
          Fine, Whole, Scale, Prec,
          MaxRaw       \* bound: the largest raw value

Sorted(s) == \A i, j \in 1..Len(s) : i <= j => s[i] <= s[j]

(* What _parse_normalisation and _parse_weights insist on.  Weights may be *)
(* negative, and normalised values may fall.                               *)
ASSUME ScoringAssumption ==
    /\ {Fine, Whole, Scale, Prec} \subseteq Nat \ {0}
    /\ MaxRaw \in Nat
    /\ IsFiniteSet(Metrics) /\ Metrics # {}
    /\ \A r \in Rules : /\ r.cuts \in Seq(Int) /\ r.normalised \in Seq(Int)
                        /\ Len(r.cuts) >= 1
                        /\ Len(r.normalised) = Len(r.cuts) + 1
                        /\ Sorted(r.cuts)
    /\ Normalisations \subseteq [Metrics -> Rules]
    /\ \A w \in Weights : /\ \A m \in Metrics : w[m] \in Int
                          /\ SumFunctionOnSet(w, Metrics) = Whole

VARIABLES normalisation, weights,  \* the spec
          raw,            \* raw_metrics
          normalised,     \* the normalised value of each metric
          score

vars == <<normalisation, weights, raw, normalised, score>>

(* a / b to the nearest integer, halves to the even one (ROUND_HALF_EVEN). *)
RoundHalfEven(a, b) ==
    LET q == a \div b
        r == 2 * (a % b)
    IN  IF r > b \/ (r = b /\ q % 2 = 1) THEN q + 1 ELSE q

(* The loop over the cuts: the first one that is not below the value. *)
Segment(r, v) == Min({i \in 1..Len(r.cuts) : v <= r.cuts[i]})

\* Seeded bug: the first normalised value belongs to the first interval.
NormaliseMetricShifted(r, v) ==
    LET n == Len(r.cuts)
    IN  IF v > r.cuts[n] THEN RoundHalfEven(r.normalised[n + 1] * Scale, Fine)
        ELSE IF v <= r.cuts[1] THEN RoundHalfEven(r.normalised[1] * Scale, Fine)
        ELSE LET i == Segment(r, v)
                 position == RoundHalfEven((v - r.cuts[i - 1]) * Prec, r.cuts[i] - r.cuts[i - 1])
                 rise == r.normalised[i + 1] - r.normalised[i]
             IN  RoundHalfEven((r.normalised[i] * Prec + position * rise) * Scale, Prec * Fine)

\* Seeded bug: the distance from the lower cut is not divided by the span.
NormaliseMetricUndivided(r, v) ==
    LET n == Len(r.cuts)
    IN  IF v > r.cuts[n] THEN RoundHalfEven(r.normalised[n + 1] * Scale, Fine)
        ELSE IF v <= r.cuts[1] THEN RoundHalfEven(r.normalised[1] * Scale, Fine)
        ELSE LET i == Segment(r, v)
                 rise == r.normalised[i] - r.normalised[i - 1]
             IN  RoundHalfEven((r.normalised[i - 1] + (v - r.cuts[i - 1]) * rise) * Scale, Fine)

(* normalise_metric: linear between two cuts, constant below the first and *)
(* above the last.                                                         *)
NormaliseMetric(r, v) ==
    LET n == Len(r.cuts)
    IN  IF v > r.cuts[n] THEN RoundHalfEven(r.normalised[n + 1] * Scale, Fine)
        ELSE IF v <= r.cuts[1] THEN RoundHalfEven(r.normalised[1] * Scale, Fine)
        ELSE LET i == Segment(r, v)
                 position == RoundHalfEven((v - r.cuts[i - 1]) * Prec, r.cuts[i] - r.cuts[i - 1])
                 rise == r.normalised[i] - r.normalised[i - 1]
             IN  RoundHalfEven((r.normalised[i - 1] * Prec + position * rise) * Scale, Prec * Fine)

\* Seeded bug: the weights of all metrics but one are used.
WeightedScoreDropsOne(norm) ==
    LET some == Metrics \ {CHOOSE m \in Metrics : TRUE}
    IN  RoundHalfEven(SumFunction([m \in some |-> norm[m] * weights[m]]), Whole)

(* score_metrics: the weighted sum of the quantised values, quantised. *)
WeightedScore(norm) ==
    RoundHalfEven(SumFunction([m \in Metrics |-> norm[m] * weights[m]]), Whole)

(* As in scoring-spec.yaml: a rule that does not reward a larger value,    *)
(* and weights that are not negative.  spec.py checks neither.             *)
Rising(r) == Sorted(r.normalised)
NoNegativeWeight == \A m \in Metrics : weights[m] >= 0

TypeOK ==
    /\ normalisation \in Normalisations /\ weights \in Weights
    /\ raw \in [Metrics -> 0..MaxRaw]
    /\ normalised \in [Metrics -> Int]
    /\ score \in Int
    /\ \A m \in Metrics :
          LET r == normalisation[m]
          IN  Rising(r) => normalised[m] \in RoundHalfEven(r.normalised[1] * Scale, Fine) ..
                              RoundHalfEven(r.normalised[Len(r.normalised)] * Scale, Fine)

Init ==
    /\ normalisation \in Normalisations /\ weights \in Weights
    /\ raw = [m \in Metrics |-> 0]
    /\ normalised = [m \in Metrics |-> NormaliseMetric(normalisation[m], 0)]
    /\ score = WeightedScore(normalised)

\* Seeded bug: every metric is normalised with the rule of the one before it.
ScoreAgainOtherRule(m) ==
    /\ raw[m] < MaxRaw
    /\ raw' = [raw EXCEPT ![m] = raw[m] + 1]
    /\ LET other == CHOOSE p \in [Metrics -> Metrics] : \A k \in Metrics : p[k] # k
       IN  normalised' = [k \in Metrics |-> NormaliseMetric(normalisation[other[k]], raw'[k])]
    /\ score' = WeightedScore(normalised')
    /\ UNCHANGED <<normalisation, weights>>

(* The repository is scored again after metric m has grown by one. *)
ScoreAgain(m) ==
    /\ raw[m] < MaxRaw
    /\ raw' = [raw EXCEPT ![m] = raw[m] + 1]
    /\ normalised' = [k \in Metrics |-> NormaliseMetric(normalisation[k], raw'[k])]
    /\ score' = WeightedScore(normalised')
    /\ UNCHANGED <<normalisation, weights>>

Next == \E m \in Metrics : ScoreAgain(m)

Spec == Init /\ [][Next]_vars

-----------------------------------------------------------------------------
(* The reference: the exact value is Reference(r, v).num / .den Fine-ths;  *)
(* `rise` is the difference between the two neighbouring values.           *)
Reference(r, v) ==
    LET n == Len(r.cuts)
        below == {i \in 1..n : r.cuts[i] < v}
        flat(k) == [num |-> r.normalised[k], den |-> 1, rise |-> 0]
    IN  IF below = {} THEN flat(1)
        ELSE IF below = 1..n THEN flat(n + 1)
        ELSE LET i == Max(below)
             IN  [num |-> r.normalised[i] * (r.cuts[i + 1] - v) + r.normalised[i + 1] * (v - r.cuts[i]),
                  den |-> r.cuts[i + 1] - r.cuts[i],
                  rise |-> r.normalised[i + 1] - r.normalised[i]]

AbsVal(x) == IF x < 0 THEN -x ELSE x

(* Every normalised value is the exact one of its metric's own rule to     *)
(* half a unit of its last place, plus what the limited digits of the      *)
(* division can add: the rise between the two neighbouring cuts, over      *)
(* twice Prec.  Cuts that coincide never make the span zero.               *)
NearReference ==
    \A m \in Metrics :
        LET ref == Reference(normalisation[m], raw[m])
        IN  2 * Prec * AbsVal(normalised[m] * Fine * ref.den - ref.num * Scale)
              <= (Prec * Fine + AbsVal(ref.rise) * Scale) * ref.den

(* Rounding twice, once per metric and once for the sum, never takes the   *)
(* score out of the range of the metrics' normalised values, whatever the  *)
(* rules, as long as no weight is negative.                                *)
ScoreBetweenMetrics ==
    NoNegativeWeight => /\ score >= Min({normalised[m] : m \in Metrics})
                        /\ score <= Max({normalised[m] : m \in Metrics})

(* A metric that grows never lowers its normalised value if its rule does  *)
(* not fall, and never lowers the score if no rule falls and no weight is  *)
(* negative, whatever the rounding does: not within a segment, not from    *)
(* one segment to the next, and not at the step above the last cut.        *)
NeverFalls ==
    [][ /\ \A m \in Metrics : Rising(normalisation[m]) => normalised'[m] >= normalised[m]
        /\ NoNegativeWeight /\ (\A m \in Metrics : Rising(normalisation[m])) => score' >= score ]_vars

-----------------------------------------------------------------------------
(* What the documentation says, and spec.py does not ensure.               *)

(* "Scores range from 0 (minimal complexity) to 1 (maximum complexity)"    *)
(* (README.md:43).                                                         *)
ScoreInUnitRange == score \in 0..Scale

=============================================================================
