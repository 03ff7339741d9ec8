------------------------ MODULE BoundarySearch_proofs ------------------------
(***************************************************************************)
(* Safety of the boundary search for every u64::MAX, every tolerance of at *)
(* least 2 and every quoting closure.                                      *)
(***************************************************************************)
EXTENDS BoundarySearch, TLAPS

\* The doubling loop has excluded every octave that starts at or below the
\* last failing probe, because the next probe is twice that amount.
LowerInv ==
  /\ lower_low < lower_high
  /\ lower_low = 0 \/ ~valid_quote(lower_low)
  /\ \A lo \in Amount : QuotableOctave(lo) => lo > lower_low
  /\ pc = "lower" => \/ lower_low = 0 /\ lower_high = 1
                     \/ lower_low > 0 /\ lower_high = 2 * lower_low
  /\ pc = "lower" => lower_high # MaxAmount
  /\ pc # "lower" => \/ valid_quote(lower_high) /\ lower_high # MaxAmount
                     \/ lower_high = MaxAmount /\ 2 * lower_low >= MaxAmount

\* The coarse interval around the upper end, ordered after the lower one.
UpperInv ==
  pc # "lower" =>
     /\ lower_high <= upper_low /\ upper_low <= upper_high
     /\ lower_high = MaxAmount \/ valid_quote(upper_low)
     /\ pc # "upper" => upper_high = MaxAmount \/ ~valid_quote(upper_high)

\* What a bisection keeps of the ends of its interval.
RefineInv ==
  /\ pc \in {"refine_lower", "refine_upper", "done"} => lower_high # MaxAmount
  /\ pc = "no_quotable" => lower_high = MaxAmount
  /\ pc = "refine_lower" =>
       /\ low <= high /\ high <= lower_high
       /\ low = 0 \/ ~valid_quote(low)
       /\ valid_quote(high)
  /\ pc = "refine_upper" =>
       /\ lower_high <= low /\ low <= high
       /\ valid_quote(low)
       /\ high = MaxAmount \/ ~valid_quote(high)
  /\ pc \in {"refine_upper", "done"} =>
       /\ lower_bound <= lower_high
       /\ valid_quote(lower_bound)
       /\ \E l \in Amount : /\ l = 0 \/ ~valid_quote(l)
                            /\ l <= lower_bound
                            /\ lower_bound - l <= Tolerance
  /\ pc = "done" =>
       /\ lower_high <= upper_bound
       /\ valid_quote(upper_bound)
       /\ \E h \in Amount : /\ h = MaxAmount \/ ~valid_quote(h)
                            /\ upper_bound <= h
                            /\ h - upper_bound <= Tolerance

IInv ==
  /\ TypeOK
  /\ quote[0] # "usable"
  /\ pc # "collapsed"
  /\ LowerInv /\ UpperInv /\ RefineInv

-----------------------------------------------------------------------------
USE MaxAmountAssumption, ToleranceAssumption DEF SCALING_FACTOR

\* Doubling stays in u64 and moves up, unless it saturates.
LEMMA ScaledBounds ==
  ASSUME NEW x \in Amount
  PROVE  /\ Scaled(x) \in Amount
         /\ x <= Scaled(x)
         /\ Scaled(x) = MaxAmount \/ Scaled(x) = 2 * x
         /\ Scaled(x) = MaxAmount => 2 * x >= MaxAmount
         /\ x > 0 /\ Scaled(x) <= x => x = MaxAmount
  BY DEF Scaled, Amount

\* The truncated midpoint stays inside an interval wider than the tolerance,
\* strictly on both sides: no round of a bisection is idle.
LEMMA MidInside ==
  ASSUME NEW l \in Amount, NEW h \in Amount, l <= h, TooWide(l, h)
  PROVE  Mid(l, h) \in Amount /\ l < Mid(l, h) /\ Mid(l, h) < h
  BY DEF Mid, TooWide, Amount

\* A failing probe at h, the double of the previous failing probe l (or the
\* very first probe), excludes every octave up to h.
LEMMA OctaveStep ==
  ASSUME NEW l \in Amount, NEW h \in Amount, ~valid_quote(h),
         \/ l = 0 /\ h = 1
         \/ l > 0 /\ h = 2 * l,
         NEW lo \in Amount, QuotableOctave(lo), lo > l
  PROVE  lo > h
  <1>1. SUFFICES ASSUME lo <= h PROVE FALSE
    BY DEF Amount
  <1>2. h \in lo..(2 * lo - 1)
    BY <1>1 DEF Amount
  <1>3. QED
    BY <1>2 DEF QuotableOctave

\* The search starts with the invariant: nothing has been probed.
THEOREM InitInv == Init => IInv
  <1> SUFFICES ASSUME Init PROVE IInv
    OBVIOUS
  <1> USE DEF Init
  <1>1. TypeOK /\ quote[0] # "usable"
    BY QuotesAssumption DEF TypeOK, Amount, Location, Terminal
  <1>2. LowerInv
    BY DEF LowerInv, QuotableOctave, Amount
  <1>3. QED
    BY <1>1, <1>2 DEF IInv, UpperInv, RefineInv

\* Every branch of the two doubling loops and the two bisections keeps it.
THEOREM NextInv == IInv /\ [Next]_vars => IInv'
  <1> SUFFICES ASSUME IInv, [Next]_vars PROVE IInv'
    OBVIOUS
  <1> USE DEF IInv, TypeOK, Location, Terminal, valid_quote, Amount
  <1>q. quote' = quote
    BY DEF Next, vars, coarse, bounds, ExpandLower, FoundLower, ExpandUpper,
           FoundUpper, Check, RefineLower, LowerRefined, RefineUpper,
           UpperRefined
  <1>1. CASE ExpandLower
    <2>1. /\ Scaled(lower_high) \in Amount
          /\ Scaled(lower_high) = MaxAmount \/ Scaled(lower_high) = 2 * lower_high
          /\ Scaled(lower_high) = MaxAmount => 2 * lower_high >= MaxAmount
          /\ lower_high < Scaled(lower_high)
      <3>1. lower_high \in Amount /\ lower_high > 0 /\ lower_high < MaxAmount
        BY <1>1 DEF ExpandLower, LowerInv
      <3>2. QED
        BY <3>1, ScaledBounds
    <2>2. Scaled(MaxAmount) = MaxAmount
      BY DEF Scaled
    <2>o. \A lo \in Amount : QuotableOctave(lo)' => lo > lower_low'
      <3>1. \A lo \in Amount : QuotableOctave(lo)' <=> QuotableOctave(lo)
        BY <1>q DEF QuotableOctave
      <3>2. ASSUME NEW lo \in Amount, QuotableOctave(lo)
            PROVE  lo > lower_high
        BY <1>1, <3>2, OctaveStep DEF ExpandLower, LowerInv
      <3>3. QED
        BY <1>1, <3>1, <3>2 DEF ExpandLower
    <2>3. CASE Scaled(lower_high) = MaxAmount
      <3>1. TypeOK' /\ pc' = "check" /\ upper_low' = MaxAmount
              /\ upper_high' = MaxAmount
        BY <1>1, <1>q, <2>1, <2>2, <2>3
           DEF ExpandLower, Saturated, StartUpper, bounds
      <3>2. LowerInv'
        BY <1>1, <1>q, <2>1, <2>3, <2>o, <3>1 DEF ExpandLower, LowerInv
      <3>3. QED
        BY <1>1, <1>q, <2>1, <2>3, <3>1, <3>2
           DEF ExpandLower, UpperInv, RefineInv
    <2>4. CASE Scaled(lower_high) # MaxAmount
      <3>1. TypeOK' /\ pc' = "lower"
        BY <1>1, <1>q, <2>1, <2>4 DEF ExpandLower, Saturated, bounds
      <3>2. LowerInv'
        BY <1>1, <1>q, <2>1, <2>4, <2>o, <3>1 DEF ExpandLower, LowerInv
      <3>3. QED
        BY <1>1, <1>q, <3>1, <3>2 DEF ExpandLower, UpperInv, RefineInv
    <2>5. QED
      BY <2>3, <2>4
  <1>2. CASE FoundLower
    <2>1. /\ Scaled(lower_high) \in Amount
          /\ lower_high < Scaled(lower_high)
      BY ScaledBounds, <1>2 DEF FoundLower, LowerInv
    <2>2. TypeOK' /\ pc' = "upper"
      BY <1>2, <1>q, <2>1 DEF FoundLower, StartUpper, bounds
    <2>3. LowerInv'
      BY <1>2, <1>q, <2>2 DEF FoundLower, LowerInv, QuotableOctave
    <2>4. QED
      BY <1>2, <1>q, <2>1, <2>2, <2>3
         DEF FoundLower, StartUpper, UpperInv, RefineInv
  <1>3. CASE ExpandUpper
    <2>1. /\ Scaled(upper_high) \in Amount
          /\ upper_high <= Scaled(upper_high)
          /\ Scaled(upper_high) <= upper_high => upper_high = MaxAmount
      BY ScaledBounds, <1>3 DEF ExpandUpper, UpperInv, LowerInv
    <2>2. TypeOK' /\ pc' \in {"upper", "check"}
      BY <1>3, <1>q, <2>1 DEF ExpandUpper, bounds
    <2>3. LowerInv'
      BY <1>3, <1>q, <2>2 DEF ExpandUpper, LowerInv, QuotableOctave
    <2>4. UpperInv'
      BY <1>3, <1>q, <2>1, <2>2 DEF ExpandUpper, UpperInv, Saturated
    <2>5. QED
      BY <1>3, <1>q, <2>2, <2>3, <2>4 DEF ExpandUpper, RefineInv
  <1>4. CASE FoundUpper
    <2>1. LowerInv'
      BY <1>4, <1>q DEF FoundUpper, LowerInv, QuotableOctave, coarse
    <2>2. QED
      BY <1>4, <1>q, <2>1 DEF FoundUpper, UpperInv, RefineInv, coarse, bounds
  <1>5. CASE Check
    <2>1. LowerInv' /\ lower_low # upper_high
      BY <1>5, <1>q DEF Check, LowerInv, UpperInv, QuotableOctave, coarse
    <2>2. TypeOK' /\ pc' \in {"no_quotable", "refine_lower"}
      BY <1>5, <1>q, <2>1 DEF Check, LowerInv, coarse, bounds
    <2>3. QED
      BY <1>5, <1>q, <2>1, <2>2
         DEF Check, LowerInv, UpperInv, RefineInv, coarse, bounds
  <1>6. CASE RefineLower
    <2>1. Mid(low, high) \in Amount /\ low < Mid(low, high)
            /\ Mid(low, high) < high
      BY <1>6, MidInside DEF RefineLower
    <2>2. LowerInv'
      BY <1>6, <1>q DEF RefineLower, LowerInv, QuotableOctave, coarse
    <2>3. QED
      BY <1>6, <1>q, <2>1, <2>2 DEF RefineLower, UpperInv, RefineInv, coarse,
         bounds
  <1>7. CASE LowerRefined
    <2>1. LowerInv'
      BY <1>7, <1>q DEF LowerRefined, LowerInv, QuotableOctave, coarse
    <2>2. TypeOK' /\ UpperInv'
      BY <1>7, <1>q DEF LowerRefined, UpperInv, coarse
    <2>3. RefineInv'
      BY <1>7, <1>q DEF LowerRefined, UpperInv, RefineInv, coarse, TooWide
    <2>4. QED
      BY <1>7, <1>q, <2>1, <2>2, <2>3 DEF LowerRefined
  <1>8. CASE RefineUpper
    <2>1. Mid(low, high) \in Amount /\ low < Mid(low, high)
            /\ Mid(low, high) < high
      BY <1>8, MidInside DEF RefineUpper
    <2>2. LowerInv'
      BY <1>8, <1>q DEF RefineUpper, LowerInv, QuotableOctave, coarse
    <2>3. QED
      BY <1>8, <1>q, <2>1, <2>2 DEF RefineUpper, UpperInv, RefineInv, coarse,
         bounds
  <1>9. CASE UpperRefined
    <2>1. LowerInv'
      BY <1>9, <1>q DEF UpperRefined, LowerInv, QuotableOctave, coarse
    <2>2. TypeOK' /\ UpperInv'
      BY <1>9, <1>q DEF UpperRefined, UpperInv, coarse
    <2>3. RefineInv'
      BY <1>9, <1>q DEF UpperRefined, RefineInv, coarse, TooWide
    <2>4. QED
      BY <1>9, <1>q, <2>1, <2>2, <2>3 DEF UpperRefined
  <1>10. CASE UNCHANGED vars
    BY <1>10 DEF vars, coarse, bounds, LowerInv, UpperInv, RefineInv,
                 QuotableOctave
  <1>11. QED
    BY <1>1, <1>2, <1>3, <1>4, <1>5, <1>6, <1>7, <1>8, <1>9, <1>10 DEF Next

\* The inductive invariant holds throughout find_boundaries.
THEOREM Invariance == Spec => []IInv
  BY InitInv, NextInv, PTL DEF Spec

-----------------------------------------------------------------------------
\* The types, and no u64 underflow in a bisection.
THEOREM TypeCorrect == Spec => []TypeOK
  <1>1. IInv => TypeOK
    BY DEF IInv
  <1>2. QED
    BY <1>1, Invariance, PTL

\* Both ends of a returned range are quotable, whatever the venue answers.
THEOREM BoundsAreQuotable == Spec => []BoundsQuotable
  <1>1. IInv => BoundsQuotable
    BY DEF IInv, TypeOK, RefineInv, BoundsQuotable, Amount
  <1>2. QED
    BY <1>1, Invariance, PTL

\* On a venue without gaps the error at either end is within the tolerance.
THEOREM BoundsAreTight == Spec => []BoundsTight
  <1>1. IInv => BoundsTight
    <2> SUFFICES ASSUME IInv, pc = "done",
                        NEW lo \in Amount, NEW hi \in Amount,
                        \A x \in Amount : valid_quote(x) <=> lo <= x /\ x <= hi,
                        NEW x \in Amount
                 PROVE  /\ lower_bound <= x /\ x <= upper_bound => valid_quote(x)
                        /\ valid_quote(x) => /\ lower_bound - x < Tolerance
                                             /\ x - upper_bound <= Tolerance
      BY DEF BoundsTight, Contiguous
    <2>1. PICK l \in Amount : /\ l = 0 \/ ~valid_quote(l)
                              /\ l <= lower_bound
                              /\ lower_bound - l <= Tolerance
      BY DEF IInv, RefineInv
    <2>2. PICK h \in Amount : /\ h = MaxAmount \/ ~valid_quote(h)
                              /\ upper_bound <= h
                              /\ h - upper_bound <= Tolerance
      BY DEF IInv, RefineInv
    <2>3. /\ lower_bound \in Amount /\ upper_bound \in Amount
          /\ valid_quote(lower_bound) /\ valid_quote(upper_bound)
          /\ 0 \in Amount /\ ~valid_quote(0)
      BY DEF IInv, TypeOK, RefineInv, Amount, valid_quote
    <2>4. ~valid_quote(l)
      BY <2>1, <2>3
    <2>5. lo <= lower_bound /\ upper_bound <= hi /\ l < lo
      BY <2>1, <2>3, <2>4 DEF Amount
    <2>6. QED
      BY <2>1, <2>2, <2>3, <2>5 DEF Amount
  <1>2. QED
    BY <1>1, Invariance, PTL

\* NoQuotableValue is only answered when no whole octave is quotable.
THEOREM WideRangesAreFound == Spec => []WideRangeFound
  <1>1. IInv => WideRangeFound
    <2> SUFFICES ASSUME IInv, pc = "no_quotable",
                        NEW lo \in Amount, QuotableOctave(lo)
                 PROVE  FALSE
      BY DEF WideRangeFound
    <2>1. lower_high = MaxAmount
      BY DEF IInv, RefineInv
    <2>2. QED
      BY <2>1 DEF IInv, TypeOK, LowerInv, QuotableOctave, Amount
  <1>2. QED
    BY <1>1, Invariance, PTL

\* The BoundarySearchFailed exit of find_boundaries is unreachable.
THEOREM SearchNeverCollapses == Spec => []NeverCollapses
  <1>1. IInv => NeverCollapses
    BY DEF IInv, NeverCollapses
  <1>2. QED
    BY <1>1, Invariance, PTL
=============================================================================
