----------------------------- MODULE FinOpsEngine -----------------------------
(***************************************************************************)
(* The deterministic analysis of backend/app/finops/engine.py: percentiles *)
(* of the observed usage, the request they support, and whether a          *)
(* recommendation comes of it.  Quantities are multiples of the step the   *)
(* code rounds to (0.01 core, 1 MiB), factors and fractions are percent.   *)
(* Costs, confidence and risk describe a recommendation and decide         *)
(* nothing; they are left out.                                             *)
(***************************************************************************)
EXTENDS Integers, Sequences, FiniteSetsExt

CONSTANTS
  Headroom,          \* headroom factor over p95, percent, per resource
  Minimum,           \* smallest request, per resource
  MinReduction,      \* smallest reduction worth a change, percent
  MinSamples,        \* fewest samples of a series
  Window,            \* length of the observation window asked for
  MinWindow,         \* shortest window the policy accepts
  MinCoverage,       \* share of the window the samples must cover, percent
  RequestThreshold,  \* nodes: requested share that counts as used, percent
  UsageThreshold,    \* nodes: p95 share that counts as used, percent
  NoDraft            \* no recommendation

Resources == {"cpu", "memory"}

ASSUME HeadroomAssumption == \A r \in Resources : Headroom[r] \in Nat /\ Headroom[r] >= 100
ASSUME MinimumAssumption == \A r \in Resources : Minimum[r] \in Nat \ {0}
ASSUME SamplesAssumption == MinSamples \in Nat \ {0}

CeilDiv(a, b) == (a + b - 1) \div b

\* sorted(values)[k - 1]: fewer than k samples are below it, and at least k
\* are not above it.
Ordered(values, k) ==
  CHOOSE v \in {values[i] : i \in DOMAIN values} :
    /\ Cardinality({i \in DOMAIN values : values[i] < v}) < k
    /\ Cardinality({i \in DOMAIN values : values[i] <= v}) >= k

\* A slip: the median for every percentile.
QuantileMedian(values, percent) ==
  100 * Ordered(values, Len(values) \div 2 + 1)

\* A hundred times the quantile: linear interpolation between the two ordered
\* samples around the position.
Quantile(values, percent) ==
  LET position == (Len(values) - 1) * percent
      lower == Ordered(values, position \div 100 + 1)
      upper == Ordered(values, CeilDiv(position, 100) + 1)
  IN 100 * lower + (upper - lower) * (position % 100)

\* The p95 with its headroom, at least the minimum, at most the request; a
\* reduction too small to matter is dropped.
Rightsized(request, values, r) ==
  LET supported == Max({CeilDiv(Quantile(values, 95) * Headroom[r], 10000), Minimum[r]})
      reduced == Min({request, supported})
  IN IF (request - reduced) * 100 < MinReduction * request THEN request ELSE reduced

\* An observation: the seconds both series cover, the samples of each
\* resource, and what is allocatable and requested on the nodes.
WindowProblem(o) ==
  \/ Window < MinWindow
  \/ o.seconds * 100 < Window * MinCoverage
  \/ \E r \in Resources : Len(o.usage[r]) < MinSamples

AnalyzeWorkload(requests, o) ==
  LET proposed == [r \in Resources |-> Rightsized(requests[r], o.usage[r], r)]
  IN IF WindowProblem(o) \/ proposed = requests THEN NoDraft
     ELSE [kind |-> "WORKLOAD_RIGHTSIZING", current |-> requests,
           proposed |-> proposed, evidence |-> o.usage]

\* Nodes are only described: nothing is proposed that could be applied.
AnalyzeNodes(o) ==
  LET used(r) == \/ o.requested[r] * 100 >= RequestThreshold * o.allocatable[r]
                 \/ Quantile(o.usage[r], 95) >= UsageThreshold * o.allocatable[r]
  IN IF WindowProblem(o) \/ \E r \in Resources : used(r) THEN NoDraft
     ELSE [kind |-> "NODE_EFFICIENCY", current |-> o.requested,
           proposed |-> o.requested, evidence |-> o.usage]
=============================================================================
