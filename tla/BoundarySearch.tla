--------------------------- MODULE BoundarySearch ---------------------------
(***************************************************************************)
(* The search for the quotable input range of a trading venue              *)
(* (trading_venue/bounds.rs): a coarse doubling search for an interval     *)
(* around each end of the range, then a bisection of both intervals.       *)
(*                                                                         *)
(* The quoting closure f is a pure function of the amount while a search   *)
(* runs (the venue is borrowed immutably), so it is chosen once, in Init.  *)
(* The search only looks at whether a quote is usable, unusable (not       *)
(* enough liquidity, or zero output) or an error.                          *)
(***************************************************************************)
EXTENDS Integers

CONSTANTS
  MaxAmount,   \* u64::MAX
  Tolerance,   \* the width at which a bisection stops (100)
  Quotes       \* the quoting closures a venue may present

SCALING_FACTOR == 2

Amount  == 0..MaxAmount
Outcome == {"usable", "unusable", "error"}

\* Three values are enough for one doubling; a bisection of an interval of
\* width 2 may return its own low end as the midpoint, so a tolerance below 2
\* would not terminate.
ASSUME MaxAmountAssumption == MaxAmount \in Nat /\ MaxAmount >= 3
ASSUME ToleranceAssumption == Tolerance \in Nat /\ Tolerance >= 2

\* A quote of zero atoms never has a positive output.
ASSUME QuotesAssumption ==
  \A q \in Quotes : q \in [Amount -> Outcome] /\ q[0] # "usable"

VARIABLES
  quote,        \* f
  pc,           \* where the search is
  lower_low, lower_high,    \* interval around the first usable amount
  upper_low, upper_high,    \* interval around the last usable amount
  low, high,                \* the interval being bisected
  lower_bound, upper_bound  \* the answer

coarse == <<lower_low, lower_high, upper_low, upper_high>>
bounds == <<lower_bound, upper_bound>>
vars   == <<quote, pc, coarse, low, high, bounds>>

Terminal == {"done", "no_quotable", "collapsed"}
Location == {"lower", "upper", "check", "refine_lower", "refine_upper"}
              \cup Terminal

-----------------------------------------------------------------------------
(* Defective variants of the definitions below, one per property: they show *)
(* which mistake in the code each property would catch.  No action uses     *)
(* them.                                                                    *)

\* A step that skips an octave.
ScaledByFour(x) == IF x * 4 > MaxAmount THEN MaxAmount ELSE x * 4

\* The test for u64::MAX is forgotten.
SaturatedNoMax(low_end, high_end) == high_end <= low_end

\* (low + high) / 2 in wrapping u64 arithmetic.
MidWrapping(l, h) == ((l + h) % (MaxAmount + 1)) \div 2

\* One atom too early, and one round too late.
TooWideLoose(l, h) == h - l > Tolerance + 1
TooWideExact(l, h) == h - l > 1

-----------------------------------------------------------------------------
\* valid_quote, with errors treated as invalid, as every caller does.
valid_quote(x) == quote[x] = "usable"

\* u64::saturating_mul(SCALING_FACTOR)
Scaled(x) == IF x * SCALING_FACTOR > MaxAmount THEN MaxAmount
                                               ELSE x * SCALING_FACTOR

\* The overflow protection of both doubling loops.
Saturated(low_end, high_end) == high_end <= low_end \/ high_end = MaxAmount

\* high / 2 + low / 2, each division truncated
Mid(l, h) == h \div 2 + l \div 2

\* The loop condition of both bisections.
TooWide(l, h) == h - l > Tolerance

Init ==
  /\ quote \in Quotes
  /\ pc = "lower"
  /\ lower_low = 0 /\ lower_high = 1
  /\ upper_low = 0 /\ upper_high = 0
  /\ low = 0 /\ high = 0
  /\ lower_bound = 0 /\ upper_bound = 0

\* The first loop is over with lower_high = h: set up the second one.
StartUpper(h) ==
  /\ upper_low' = h
  /\ upper_high' = Scaled(h)
  /\ pc' = IF Scaled(h) <= h THEN "check" ELSE "upper"

\* First loop, unusable or failing probe: double, or give up at saturation.
ExpandLower ==
  /\ pc = "lower"
  /\ ~valid_quote(lower_high)
  /\ lower_low' = lower_high
  /\ lower_high' = Scaled(lower_high)
  /\ IF Saturated(lower_high, Scaled(lower_high))
       THEN StartUpper(MaxAmount)
       ELSE UNCHANGED <<pc, upper_low, upper_high>>
  /\ UNCHANGED <<quote, low, high, bounds>>

\* First loop, usable probe.
FoundLower ==
  /\ pc = "lower"
  /\ valid_quote(lower_high)
  /\ StartUpper(lower_high)
  /\ UNCHANGED <<quote, lower_low, lower_high, low, high, bounds>>

\* Second loop, usable probe: double, or stop at saturation.
ExpandUpper ==
  /\ pc = "upper"
  /\ valid_quote(upper_high)
  /\ upper_low' = upper_high
  /\ upper_high' = Scaled(upper_high)
  /\ pc' = IF Saturated(upper_high, Scaled(upper_high)) THEN "check" ELSE pc
  /\ UNCHANGED <<quote, lower_low, lower_high, low, high, bounds>>

\* Second loop, unusable or failing probe.
FoundUpper ==
  /\ pc = "upper"
  /\ ~valid_quote(upper_high)
  /\ pc' = "check"
  /\ UNCHANGED <<quote, coarse, low, high, bounds>>

\* Defective: the lower_high == u64::MAX test is missing.
CheckNoMax ==
  /\ pc = "check"
  /\ pc' = IF lower_low = upper_high THEN "collapsed" ELSE "refine_lower"
  /\ low' = lower_low
  /\ high' = lower_high
  /\ UNCHANGED <<quote, coarse, bounds>>

\* find_boundaries between the coarse search and the refinement.
Check ==
  /\ pc = "check"
  /\ pc' = IF lower_low = upper_high THEN "collapsed"
           ELSE IF lower_high = MaxAmount THEN "no_quotable"
           ELSE "refine_lower"
  /\ low' = lower_low
  /\ high' = lower_high
  /\ UNCHANGED <<quote, coarse, bounds>>

RefineLower ==
  /\ pc = "refine_lower"
  /\ TooWide(low, high)
  /\ IF valid_quote(Mid(low, high))
       THEN high' = Mid(low, high) /\ low' = low
       ELSE low' = Mid(low, high) /\ high' = high
  /\ UNCHANGED <<quote, pc, coarse, bounds>>

\* refine_lower returns; refine_upper is entered.
LowerRefined ==
  /\ pc = "refine_lower"
  /\ ~TooWide(low, high)
  /\ lower_bound' = high
  /\ low' = upper_low
  /\ high' = upper_high
  /\ pc' = "refine_upper"
  /\ UNCHANGED <<quote, coarse, upper_bound>>

RefineUpper ==
  /\ pc = "refine_upper"
  /\ TooWide(low, high)
  /\ IF valid_quote(Mid(low, high))
       THEN low' = Mid(low, high) /\ high' = high
       ELSE high' = Mid(low, high) /\ low' = low
  /\ UNCHANGED <<quote, pc, coarse, bounds>>

\* refine_upper and find_boundaries return.
UpperRefined ==
  /\ pc = "refine_upper"
  /\ ~TooWide(low, high)
  /\ upper_bound' = low
  /\ pc' = "done"
  /\ UNCHANGED <<quote, coarse, low, high, lower_bound>>

Next == \/ ExpandLower \/ FoundLower \/ ExpandUpper \/ FoundUpper \/ Check
        \/ RefineLower \/ LowerRefined \/ RefineUpper \/ UpperRefined

\* The search is a sequential computation that nothing can suspend.
Spec == Init /\ [][Next]_vars /\ WF_vars(Next)

-----------------------------------------------------------------------------
\* Types; in a bisection low never passes high, so that the u64 subtraction
\* of its loop condition cannot underflow.
TypeOK ==
  /\ quote \in [Amount -> Outcome]
  /\ pc \in Location
  /\ {lower_low, lower_high, upper_low, upper_high, low, high,
      lower_bound, upper_bound} \subseteq Amount
  /\ low <= high

\* find_boundaries: both ends of a returned range are amounts the venue
\* quotes, in order, however irregular the quotable set is.
BoundsQuotable ==
  pc = "done" => /\ valid_quote(lower_bound)
                 /\ valid_quote(upper_bound)
                 /\ lower_bound <= upper_bound

\* The quotable amounts have no gap, as for a pool with monotone output.
Contiguous ==
  \E lo, hi \in Amount :
     \A x \in Amount : valid_quote(x) <=> lo <= x /\ x <= hi

\* find_boundaries: on a venue without gaps the returned range is quotable
\* throughout and misses fewer than Tolerance amounts at the lower end and at
\* most Tolerance (u64::MAX is never probed) at the upper end.
BoundsTight ==
  pc = "done" /\ Contiguous =>
     \A x \in Amount :
        /\ lower_bound <= x /\ x <= upper_bound => valid_quote(x)
        /\ valid_quote(x) => /\ lower_bound - x < Tolerance
                             /\ x - upper_bound <= Tolerance

\* The whole octave lo..2*lo-1 is quotable.
QuotableOctave(lo) ==
  /\ lo > 0 /\ 2 * lo <= MaxAmount
  /\ \A x \in lo..(2 * lo - 1) : valid_quote(x)

\* find_boundaries: NoQuotableValue is never returned for a venue that quotes
\* a whole octave, although the search only probes powers of two.
WideRangeFound ==
  pc = "no_quotable" => \A lo \in Amount : ~QuotableOctave(lo)

\* find_boundaries: the BoundarySearchFailed exit is dead code, the coarse
\* intervals never collapse.
NeverCollapses == pc # "collapsed"

\* The doubling loops and the bisections end, whatever the venue answers.
Termination == <>(pc \in Terminal)
=============================================================================
