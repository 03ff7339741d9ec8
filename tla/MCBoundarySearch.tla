-------------------------- MODULE MCBoundarySearch --------------------------
\* Small amounts, many venues: the instances on which the search is checked.
EXTENDS BoundarySearch

\* A venue that quotes exactly lo..hi, and fails as told below and above.
RangeVenue(lo, hi, below, above) ==
  [x \in Amount |-> IF x = 0 THEN "unusable"
                    ELSE IF x < lo THEN below
                    ELSE IF x > hi THEN above ELSE "usable"]

\* Venues without gaps: every range, every way to fail on either side.
RangeQuotes ==
  {RangeVenue(lo, hi, below, above) : lo, hi \in Amount,
     below, above \in Outcome \ {"usable"}}

\* Venues with one gap: the two ranges begin and end around powers of two.
Ends == {x \in Amount \ {0} : \E k \in 0..6 : x \in (2^k - 1)..(2^k + 1)}

GapQuotes ==
  UNION {{[x \in Amount |-> IF x \in lo..gap \cup resume..hi THEN "usable" ELSE "error"] :
            lo \in {x \in Ends : x <= gap}, hi \in {x \in Ends : x >= resume}} :
         gap \in Ends, resume \in Ends}

MCQuotes == RangeQuotes \cup GapQuotes
=============================================================================
