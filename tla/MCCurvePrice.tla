---------------------------- MODULE MCCurvePrice ----------------------------
\* Instances of CurvePrice for TLC: every non-decreasing curve of up to six
\* steps of 0, 1 or 2, with every reach and every way to end.
EXTENDS CurvePrice

\* Output by amount, for a sequence of increments.
Outputs(inc) == LET out[x \in Amount] == IF x = 0 THEN 0 ELSE out[x - 1] + inc[x] IN out

Increments == [1..MaxAmount -> 0..2]

\* Beyond its reach a curve fails, or fills what it can (at the price limit).
Failing(inc, reach, failure) ==
  LET out == Outputs(inc)
  IN [x \in Amount |-> IF x <= reach THEN [in |-> x, out |-> out[x]] ELSE [err |-> failure]]
Filling(inc, reach) ==
  LET out == Outputs(inc)
  IN [x \in Amount |-> LET y == IF x <= reach THEN x ELSE reach IN [in |-> y, out |-> out[y]]]

\* A fee rate that depends on the amount may leave a gap.
Gapped(f, gap) == [f EXCEPT ![gap] = [err |-> "MathError"]]

MCCurves ==
  {Failing(inc, reach, failure) : inc \in Increments, reach \in Amount, failure \in Failures} \cup
  {Filling(inc, reach) : inc \in Increments, reach \in Amount} \cup
  {Gapped(Filling(inc, MaxAmount), gap) : inc \in Increments, gap \in {2}}

MCPrices == {<<1, 2>>, <<5, 3>>}
=============================================================================
