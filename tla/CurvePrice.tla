----------------------------- MODULE CurvePrice -----------------------------
(***************************************************************************)
(* The price that a quote reports (byreal_clmm/core.rs and the adapter's   *)
(* quote): the price after the swap at the fee rate of the amount, and for *)
(* pools with a dynamic fee, whose rate depends on the amount, that price  *)
(* kept between two chords of the real output curve, found by quoting a    *)
(* little less and a little more.                                          *)
(*                                                                         *)
(* The output curve and the constant-fee price are arbitrary.  A price is  *)
(* a fraction <<n, d>>; the code's f64 rounding is not modelled.           *)
(***************************************************************************)
EXTENDS Integers

CONSTANTS
  MaxAmount,       \* u64::MAX
  UnitTenth,       \* a tenth of the input token's unit
  StepDivisor,     \* a step is this part of the amount (1000)
  Curves,          \* compute_swap, by amount
  Prices,          \* constant-fee prices
  None

Amount == 0..MaxAmount

\* What compute_swap may answer: input used and output, or an error.
Failures == {"Illiquid", "MathError"}
Swap     == [in : Amount, out : Nat]

ASSUME CurvePriceAssumption ==
  /\ MaxAmount \in Nat /\ UnitTenth \in Nat /\ StepDivisor \in Nat \ {0}
  /\ \A f \in Curves : /\ f \in [Amount -> Swap \cup [err : Failures]]
                       /\ f[0] = [in |-> 0, out |-> 0]
  /\ \A p \in Prices : p \in (Nat \ {0}) \X (Nat \ {0})

VARIABLES
  curve, dynamic, amount,
  upper_bound,          \* from the bounds cache: possibly that of another curve
  constant_fee_price,
  pc,                   \* the next compute_swap: "swap", "previous", "next"; or "done"
  probe,                \* the amount it is called with
  upper_price,
  answer

inputs == <<curve, dynamic, amount, upper_bound, constant_fee_price>>
vars   == <<inputs, pc, probe, upper_price, answer>>

Ok(swap) == "out" \in DOMAIN swap

-----------------------------------------------------------------------------
LE(p, q)   == p[1] * q[2] <= q[1] * p[2]
MinOf(p, q) == IF LE(p, q) THEN p ELSE q
MaxOf(p, q) == IF LE(p, q) THEN q ELSE p

\* Defective: small amounts get a step larger than themselves.
dynamic_fee_price_step_uncapped(x) ==
  LET wide == IF x \div StepDivisor > UnitTenth THEN x \div StepDivisor ELSE UnitTenth
  IN IF wide > 0 THEN wide + 1 ELSE None

\* The width of the chords; None below a tenth of a token, and for amounts too
\* small to have a step.
dynamic_fee_price_step(x) ==
  LET wide == IF x \div StepDivisor > UnitTenth THEN x \div StepDivisor ELSE UnitTenth
      step == IF wide < x THEN wide ELSE x
  IN IF x < UnitTenth \/ step = 0 THEN None ELSE step

\* Defective: the upper chord may end past the bound.
next_step_unbounded ==
  LET step == dynamic_fee_price_step(amount)
  IN IF step < MaxAmount - amount THEN step ELSE MaxAmount - amount

next_step ==
  LET step == dynamic_fee_price_step(amount)
  IN IF step < upper_bound - amount THEN step ELSE upper_bound - amount

Chord(x, y) == <<curve[y].out - curve[x].out, y - x>>

\* Defective: the lower chord is not looked at once the upper one is known.
Between_upper(lower) == upper_price

\* The constant-fee price clamped between the chords.
Between(lower) ==
  IF LE(lower, upper_price) THEN MinOf(MaxOf(constant_fee_price, lower), upper_price)
                            ELSE MaxOf(constant_fee_price, lower)

-----------------------------------------------------------------------------
Init ==
  /\ curve \in Curves /\ dynamic \in BOOLEAN /\ amount \in Amount
  /\ upper_bound \in Amount \cup {None}
  /\ constant_fee_price \in Prices
  /\ pc = "swap" /\ probe = amount
  /\ upper_price = None
  /\ answer = None

\* The adapter reports no price for a quote that is not filled.
Reply(p) ==
  /\ pc' = "done"
  /\ answer' = [in |-> curve[amount].in, out |-> curve[amount].out,
                not_enough_liquidity |-> curve[amount].in < amount,
                price |-> IF curve[amount].in < amount THEN <<0, 1>> ELSE p]
  /\ UNCHANGED <<inputs, probe, upper_price>>

\* Any error of compute_swap in a probe is an error of the quote.
ProbeFails ==
  /\ pc' = "done"
  /\ answer' = [err |-> "MathError"]
  /\ UNCHANGED <<inputs, probe, upper_price>>

Probe(stage, x, bound) ==
  /\ pc' = stage /\ probe' = x /\ upper_price' = bound
  /\ UNCHANGED <<inputs, answer>>

\* amount = 0: the spot price.
SpotPrice == pc = "swap" /\ amount = 0 /\ Reply(constant_fee_price)

\* An amount that the pool cannot fill is answered with zeros.
SwapFails ==
  /\ pc = "swap" /\ ~Ok(curve[amount])
  /\ pc' = "done"
  /\ answer' = IF curve[amount].err = "Illiquid"
                 THEN [in |-> 0, out |-> 0, not_enough_liquidity |-> TRUE, price |-> <<0, 1>>]
                 ELSE curve[amount]
  /\ UNCHANGED <<inputs, probe, upper_price>>

ComputeSwap ==
  /\ pc = "swap" /\ amount > 0 /\ Ok(curve[amount])
  /\ LET step == dynamic_fee_price_step(amount)
     IN IF ~dynamic \/ step = None
          THEN Reply(constant_fee_price)
          ELSE Probe("previous", amount - step, upper_price)

ProbePrevious ==
  /\ pc = "previous"
  /\ LET realized == Chord(probe, amount)
         upper    == MinOf(constant_fee_price, realized)
     IN IF ~Ok(curve[probe]) THEN ProbeFails
        ELSE IF curve[amount].out <= curve[probe].out THEN Reply(constant_fee_price)
        ELSE IF upper_bound = None THEN Reply(upper)
        ELSE IF amount >= upper_bound THEN Reply(upper)
        ELSE Probe("next", amount + next_step, upper)

ProbeNext ==
  /\ pc = "next"
  /\ IF ~Ok(curve[probe]) THEN ProbeFails
     ELSE IF curve[probe].out <= curve[amount].out THEN Reply(upper_price)
     ELSE Reply(Between(Chord(amount, probe)))

Done == pc = "done" /\ UNCHANGED vars

Next == SpotPrice \/ SwapFails \/ ComputeSwap \/ ProbePrevious \/ ProbeNext \/ Done

Spec == Init /\ [][Next]_vars

-----------------------------------------------------------------------------
Price  == Nat \X (Nat \ {0})
Report == [in : Amount, out : Nat, not_enough_liquidity : BOOLEAN, price : Price]

\* A price is never negative and never divides by zero; no probe leaves u64.
TypeOK ==
  /\ pc \in {"swap", "previous", "next", "done"}
  /\ probe \in Amount
  /\ upper_price = None \/ upper_price \in Price
  /\ pc = "done" => answer \in Report \cup [err : Failures]

\* The chords that actual_curve_price looks at.
Step == dynamic_fee_price_step(amount)
Top  == IF upper_bound - amount < Step THEN upper_bound ELSE amount + Step
Rising(x, y) == Ok(curve[x]) /\ Ok(curve[y]) /\ curve[x].out < curve[y].out

HasChords == dynamic /\ amount > 0 /\ Step # None /\ Rising(amount - Step, amount)
HasTop    == upper_bound # None /\ upper_bound > amount /\ Rising(amount, Top)

\* x cannot be quoted although a larger amount can: a gap, which a fee rate that
\* depends on the amount may leave.
Gap(x) == ~Ok(curve[x]) /\ \E y \in Amount : y > x /\ Ok(curve[y])

\* The cached bound is that of another curve: this one does not fill it.
StaleBound == upper_bound # None /\ upper_bound > amount /\ ~Ok(curve[upper_bound])

\* The probes of actual_curve_price cost a quote only for cause: when an amount
\* that compute_swap answers is refused all the same, the fee is dynamic and the
\* curve has a gap within one step of the amount, or the cached bound is that of
\* another curve.  No probe fails because it went too far by itself.
ProbesFailForCause ==
  pc = "done" /\ Ok(curve[amount]) /\ "price" \notin DOMAIN answer =>
    /\ dynamic /\ Step # None
    /\ \/ StaleBound
       \/ \E x \in Amount : amount - Step <= x /\ x <= amount + Step /\ Gap(x)

Same(p, q) == LE(p, q) /\ LE(q, p)

\* The mean value requirement of TradingVenue::quote, as far as actual_curve_price
\* meets it.  The price of a filled quote is never below the rate of the next step.
\* It is at most the rate realized just below the amount, unless the curve bends
\* the wrong way there (the next step is better than the last one), where the code
\* reports more.  And the constant-fee price is only replaced if a chord rules it
\* out: it stands where there is no chord, as on a flat stretch.
PriceBracketsChords ==
  pc = "done" /\ "price" \in DOMAIN answer /\ ~answer.not_enough_liquidity =>
    LET below == Chord(amount - Step, amount)
        above == Chord(amount, Top)
    IN /\ HasChords /\ HasTop => LE(above, answer.price)
       /\ HasChords /\ (HasTop => LE(above, below)) => LE(answer.price, below)
       /\ (HasChords => /\ LE(constant_fee_price, below)
                        /\ HasTop => LE(above, constant_fee_price))
            => Same(answer.price, constant_fee_price)
=============================================================================
