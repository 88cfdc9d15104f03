----------------------------- MODULE MCPipeline -----------------------------
\* Small instances of Pipeline.
EXTENDS Pipeline, TLC

CONSTANTS s1, r1, r2, q1, phone, smartphone, watch, case

Commands == [p \in Process |-> IF p = s1 THEN "search" ELSE "recommendations"]

\* "smartphone" contains "phone", and each name itself.
Inside == {<<t, t>> : t \in Term} \cup {<<smartphone, phone>>}

\* No product, one that may be the search itself, and more than the alternatives
\* are taken from.
NoneOneFour == {<<>>, <<smartphone>>, <<watch, phone, smartphone, case>>}
=============================================================================
