----------------------------- MODULE MCBaseline -----------------------------
EXTENDS Baseline

\* Three pipelines of baseline_configs with the sizes of the code, two of which
\* fit on a large GPU; the second worker has one of them.
Pipelines == {"flux", "canny", "depth"}
Sizes == [p \in Pipelines |-> IF p = "flux" THEN 38 ELSE 40]
Ranks == {0, 1}
Placements == [w \in Ranks |-> IF w = 0 THEN <<"flux", "canny", "depth">> ELSE <<"flux">>]

CONSTANTS r1, r2, r3
Requests == {r1, r2, r3}
PipelineOfRequest == [r \in Requests |-> IF r = r1 THEN "depth" ELSE "flux"]

\* One of them at most raises, or takes too long.
OneAtMost ==
    { f \in [Requests -> {"fine", "raises", "overlong"}] :
        Cardinality({ r \in Requests : f[r] # "fine" }) <= 1 }
SomeDeadlines == {{r2}, {r1, r2}}
=============================================================================
