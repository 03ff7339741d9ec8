------------------------- MODULE CurvePrice_proofs -------------------------
(***************************************************************************)
(* The price of a quote, for any output curve, any constant-fee price, any *)
(* cached bound and any step width.                                        *)
(***************************************************************************)
EXTENDS CurvePrice, TLAPS

InputsInv ==
  /\ curve \in Curves /\ dynamic \in BOOLEAN /\ amount \in Amount
  /\ upper_bound \in Amount \cup {None}
  /\ constant_fee_price \in Prices

\* A probe is made only for an amount that can be quoted and has a step.
ProbingInv ==
  pc \in {"previous", "next"} =>
     dynamic /\ amount > 0 /\ Ok(curve[amount]) /\ Step # None

PreviousInv == pc = "previous" => probe = amount - Step

\* The lower chord is known when the upper one is looked for.
NextInv ==
  pc = "next" =>
     /\ Rising(amount - Step, amount)
     /\ upper_bound # None /\ upper_bound > amount /\ probe = Top
     /\ upper_price = MinOf(constant_fee_price, Chord(amount - Step, amount))

IInv ==
  /\ InputsInv /\ TypeOK
  /\ ProbingInv /\ PreviousInv /\ NextInv
  /\ ProbesFailForCause /\ PriceBracketsChords

-----------------------------------------------------------------------------
USE CurvePriceAssumption DEF Amount

\* Fractions with positive denominators are totally ordered by LE.
LEMMA Order ==
  \A p, q \in Price : LE(p, p) /\ (LE(p, q) \/ LE(q, p))
<1> SUFFICES ASSUME NEW p \in Price, NEW q \in Price
             PROVE  LE(p, p) /\ (LE(p, q) \/ LE(q, p))
  OBVIOUS
<1>1. p[1] \in Nat /\ p[2] \in Nat /\ q[1] \in Nat /\ q[2] \in Nat
  BY DEF Price
<1>2. p[1] * q[2] \in Int /\ q[1] * p[2] \in Int /\ p[1] * p[2] \in Int
  BY <1>1
<1>3. QED
  BY <1>2 DEF LE

\* The clamping of actual_curve_price: never below the upper chord's rate, never
\* above the lower chord's if the two are in order, and no change to a price that
\* lies between them.
LEMMA Clamp ==
  ASSUME NEW p \in Price, NEW below \in Price, NEW above \in Price,
         NEW upper, upper = MinOf(p, below),
         NEW price,
         price = IF LE(above, upper) THEN MinOf(MaxOf(p, above), upper)
                                     ELSE MaxOf(p, above)
  PROVE  /\ upper \in Price /\ LE(upper, below)
         /\ price \in Price
         /\ LE(above, price)
         /\ LE(above, below) => LE(price, below)
         /\ LE(p, below) /\ LE(above, p) => LE(p, price) /\ LE(price, p)
  BY Order DEF MinOf, MaxOf

\* What compute_swap answers.
LEMMA Outcomes ==
  ASSUME curve \in Curves, NEW x \in Amount
  PROVE  /\ Ok(curve[x]) => /\ curve[x].in \in Amount /\ curve[x].out \in Nat
         /\ ~Ok(curve[x]) => /\ curve[x] \in [err : Failures]
                             /\ curve[x].err \in Failures
                             /\ "price" \notin DOMAIN curve[x]
<1>1. curve[x] \in Swap \cup [err : Failures]
  OBVIOUS
<1>2. QED
  BY <1>1 DEF Ok, Swap

\* The step lies within the amount.
LEMMA StepWidth ==
  ASSUME amount \in Amount, Step # None
  PROVE  Step \in 1..amount /\ amount - Step \in Amount /\ amount - Step < amount
<1>1. amount \div StepDivisor \in Int
  OBVIOUS
<1>2. QED
  BY <1>1 DEF Step, dynamic_fee_price_step

\* A rising chord is a price.
LEMMA ChordPrice ==
  ASSUME curve \in Curves, NEW x \in Amount, NEW y \in Amount, x < y, Rising(x, y)
  PROVE  Chord(x, y) \in Price
<1>1. curve[x].out \in Nat /\ curve[y].out \in Nat
  BY Outcomes DEF Rising
<1>2. QED
  BY <1>1 DEF Rising, Chord, Price

\* A reply.
LEMMA Replies ==
  ASSUME InputsInv, Ok(curve[amount]), NEW p \in Price, Reply(p)
  PROVE  /\ pc' = "done" /\ UNCHANGED <<inputs, probe, upper_price>>
         /\ answer' \in Report /\ "price" \in DOMAIN answer'
         /\ ~answer'.not_enough_liquidity => answer'.price = p
<1>1. curve[amount].in \in Amount /\ curve[amount].out \in Nat
  BY Outcomes DEF InputsInv
<1>2. <<0, 1>> \in Price
  BY DEF Price
<1> DEFINE short == curve[amount].in < amount
           price == IF short THEN <<0, 1>> ELSE p
<1>3. answer' = [in |-> curve[amount].in, out |-> curve[amount].out,
                 not_enough_liquidity |-> short, price |-> price]
  BY DEF Reply
<1>4. short \in BOOLEAN /\ price \in Price
  BY <1>1, <1>2
<1>5. short \/ price = p
  OBVIOUS
<1> HIDE DEF short, price
<1>6. /\ answer' \in Report /\ "price" \in DOMAIN answer'
      /\ answer'.not_enough_liquidity = short /\ answer'.price = price
  BY <1>1, <1>3, <1>4 DEF Report
<1>7. QED
  BY <1>5, <1>6 DEF Reply

\* The price p lies between the chords.
Brackets(p) ==
  LET below == Chord(amount - Step, amount)
      above == Chord(amount, Top)
  IN /\ HasChords /\ HasTop => LE(above, p)
     /\ HasChords /\ (HasTop => LE(above, below)) => LE(p, below)
     /\ (HasChords => /\ LE(constant_fee_price, below)
                      /\ HasTop => LE(above, constant_fee_price))
          => Same(p, constant_fee_price)

LEMMA Unchorded ==
  ASSUME constant_fee_price \in Price, ~HasChords
  PROVE  Brackets(constant_fee_price)
  BY Order DEF Brackets, Same

\* Nothing that a property looks at besides the answer changes after Init.
LEMMA SameInputs ==
  ASSUME UNCHANGED inputs
  PROVE  /\ Step' = Step /\ Top' = Top
         /\ HasChords' = HasChords /\ HasTop' = HasTop
         /\ \A x, y : Rising(x, y)' = Rising(x, y) /\ Chord(x, y)' = Chord(x, y)
         /\ InputsInv => InputsInv'
         /\ \A p : Brackets(p)' = Brackets(p)
<1>1. /\ curve' = curve /\ dynamic' = dynamic /\ amount' = amount
      /\ upper_bound' = upper_bound /\ constant_fee_price' = constant_fee_price
  BY DEF inputs
<1>2. Step' = Step
  BY <1>1 DEF Step, dynamic_fee_price_step
<1>3. Top' = Top
  BY <1>1, <1>2 DEF Top
<1>4. \A x, y : Rising(x, y)' = Rising(x, y) /\ Chord(x, y)' = Chord(x, y)
  BY <1>1 DEF Rising, Chord, Ok
<1>5. HasChords' = HasChords /\ HasTop' = HasTop
  BY <1>1, <1>2, <1>3, <1>4 DEF HasChords, HasTop
<1>6. InputsInv => InputsInv'
  BY <1>1 DEF InputsInv
<1>7. \A p : Brackets(p)' = Brackets(p)
  BY <1>1, <1>2, <1>3, <1>4, <1>5 DEF Brackets
<1>8. QED
  BY <1>2, <1>3, <1>4, <1>5, <1>6, <1>7

\* A reply whose price lies between the chords.
LEMMA ReplyKeeps ==
  ASSUME IInv, Ok(curve[amount]), NEW p \in Price, Reply(p), Brackets(p)
  PROVE  IInv'
<1>1. /\ pc' = "done" /\ UNCHANGED <<inputs, probe, upper_price>>
      /\ answer' \in Report /\ "price" \in DOMAIN answer'
      /\ ~answer'.not_enough_liquidity => answer'.price = p
  BY Replies DEF IInv
<1>2. InputsInv' /\ TypeOK'
  BY <1>1, SameInputs DEF IInv, TypeOK
<1>3. ProbingInv' /\ PreviousInv' /\ NextInv' /\ ProbesFailForCause'
  BY <1>1 DEF ProbingInv, PreviousInv, NextInv, ProbesFailForCause
<1>4. Brackets(p)'
  BY <1>1, SameInputs
<1>5. PriceBracketsChords'
  BY <1>1, <1>4 DEF PriceBracketsChords, Brackets
<1>6. QED
  BY <1>2, <1>3, <1>5 DEF IInv

\* What a failing probe needs.
Cause ==
  /\ dynamic /\ Step # None
  /\ \/ StaleBound
     \/ \E x \in Amount : amount - Step <= x /\ x <= amount + Step /\ Gap(x)

LEMMA SameCause ==
  ASSUME UNCHANGED inputs
  PROVE  Cause' = Cause
<1>1. curve' = curve /\ dynamic' = dynamic /\ amount' = amount /\ upper_bound' = upper_bound
  BY DEF inputs
<1>2. Step' = Step
  BY SameInputs
<1>3. StaleBound' = StaleBound /\ \A x : Gap(x)' = Gap(x)
  BY <1>1 DEF StaleBound, Gap, Ok
<1>4. QED
  BY <1>1, <1>2, <1>3 DEF Cause

\* A failing probe that has a cause.
LEMMA ProbeFailsKeeps ==
  ASSUME IInv, ProbeFails, Cause
  PROVE  IInv'
<1>1. /\ pc' = "done" /\ UNCHANGED <<inputs, probe, upper_price>>
      /\ answer' \in [err : Failures] /\ "price" \notin DOMAIN answer'
  BY DEF ProbeFails, Failures
<1>2. InputsInv' /\ TypeOK'
  BY <1>1, SameInputs DEF IInv, TypeOK
<1>3. ProbingInv' /\ PreviousInv' /\ NextInv' /\ PriceBracketsChords'
  BY <1>1 DEF ProbingInv, PreviousInv, NextInv, PriceBracketsChords
<1>4. Cause'
  BY <1>1, SameCause
<1>5. QED
  BY <1>2, <1>3, <1>4 DEF IInv, ProbesFailForCause, Cause

LEMMA InitKeeps == Init => IInv
<1> SUFFICES ASSUME Init PROVE IInv
  OBVIOUS
<1>1. InputsInv /\ TypeOK
  BY DEF Init, InputsInv, TypeOK
<1>2. QED
  BY <1>1 DEF Init, IInv, ProbingInv, PreviousInv, NextInv, ProbesFailForCause,
              PriceBracketsChords

LEMMA SpotPriceKeeps ==
  ASSUME IInv, SpotPrice
  PROVE  IInv'
<1>1. amount = 0 /\ Reply(constant_fee_price) /\ curve \in Curves /\ constant_fee_price \in Price
  BY DEF SpotPrice, IInv, InputsInv, Price
<1>2. Ok(curve[amount])
  BY <1>1 DEF Ok
<1>3. Brackets(constant_fee_price)
  BY <1>1, Unchorded DEF HasChords, IInv, InputsInv
<1>4. QED
  BY <1>1, <1>2, <1>3, ReplyKeeps

LEMMA SwapFailsKeeps ==
  ASSUME IInv, SwapFails
  PROVE  IInv'
<1>1. /\ pc' = "done" /\ UNCHANGED <<inputs, probe, upper_price>> /\ ~Ok(curve[amount])
      /\ curve \in Curves /\ amount \in Amount
  BY DEF SwapFails, IInv, InputsInv
<1>2. curve[amount] \in [err : Failures] /\ "price" \notin DOMAIN curve[amount]
  BY <1>1, Outcomes
<1>3. \/ answer' = curve[amount]
      \/ answer' = [in |-> 0, out |-> 0, not_enough_liquidity |-> TRUE, price |-> <<0, 1>>]
  BY DEF SwapFails
<1>4. /\ answer' \in Report \cup [err : Failures]
      /\ "price" \in DOMAIN answer' => answer'.not_enough_liquidity
  <2>1. <<0, 1>> \in Price /\ 0 \in Amount
    BY DEF Price
  <2>2. CASE answer' = curve[amount]
    BY <1>2, <2>2
  <2>3. CASE answer' = [in |-> 0, out |-> 0, not_enough_liquidity |-> TRUE,
                        price |-> <<0, 1>>]
    <3>1. answer' \in Report
      BY <2>1, <2>3 DEF Report
    <3>2. QED
      BY <2>3, <3>1
  <2>4. QED
    BY <1>3, <2>2, <2>3
<1>5. InputsInv' /\ TypeOK'
  BY <1>1, <1>4, SameInputs DEF IInv, TypeOK
<1>6. ~Ok(curve[amount])'
  BY <1>1 DEF inputs, Ok
<1>7. ProbingInv' /\ PreviousInv' /\ NextInv' /\ PriceBracketsChords' /\ ProbesFailForCause'
  BY <1>1, <1>4, <1>6
     DEF ProbingInv, PreviousInv, NextInv, PriceBracketsChords, ProbesFailForCause
<1>8. QED
  BY <1>5, <1>7 DEF IInv

LEMMA ComputeSwapKeeps ==
  ASSUME IInv, ComputeSwap
  PROVE  IInv'
<1>1. /\ amount > 0 /\ Ok(curve[amount]) /\ amount \in Amount
      /\ constant_fee_price \in Price /\ InputsInv
  BY DEF ComputeSwap, IInv, InputsInv, Price
<1>2. CASE ~dynamic \/ Step = None
  <2>1. Reply(constant_fee_price)
    BY <1>2 DEF ComputeSwap, Step
  <2>2. Brackets(constant_fee_price)
    BY <1>1, <1>2, Unchorded DEF HasChords
  <2>3. QED
    BY <1>1, <2>1, <2>2, ReplyKeeps
<1>3. CASE dynamic /\ Step # None
  <2>1. Probe("previous", amount - Step, upper_price)
    BY <1>3 DEF ComputeSwap, Step
  <2>2. /\ pc' = "previous" /\ probe' = amount - Step /\ upper_price' = upper_price
        /\ UNCHANGED inputs /\ amount' = amount
    BY <2>1 DEF Probe, inputs
  <2>3. amount - Step \in Amount
    BY <1>1, <1>3, StepWidth
  <2>4. InputsInv' /\ TypeOK'
    BY <1>1, <2>2, <2>3, SameInputs DEF IInv, TypeOK
  <2>5. ProbingInv' /\ PreviousInv'
    BY <1>1, <1>3, <2>2, SameInputs DEF ProbingInv, PreviousInv, inputs, Ok
  <2>6. NextInv' /\ PriceBracketsChords' /\ ProbesFailForCause'
    BY <2>2 DEF NextInv, PriceBracketsChords, ProbesFailForCause
  <2>7. QED
    BY <2>4, <2>5, <2>6 DEF IInv
<1>4. QED
  BY <1>1, <1>2, <1>3 DEF InputsInv

\* The probe below the amount: the lower chord, and where the upper one ends.
LEMMA ProbePreviousKeeps ==
  ASSUME IInv, ProbePrevious
  PROVE  IInv'
<1> DEFINE below == Chord(amount - Step, amount)
           upper == MinOf(constant_fee_price, below)
<1>1. /\ pc = "previous" /\ probe = amount - Step /\ InputsInv
      /\ dynamic /\ amount > 0 /\ Ok(curve[amount]) /\ Step # None
      /\ amount \in Amount /\ curve \in Curves /\ constant_fee_price \in Price
  BY DEF ProbePrevious, IInv, ProbingInv, PreviousInv, InputsInv, Price
<1>2. Step \in 1..amount /\ probe \in Amount /\ probe < amount
  BY <1>1, StepWidth
<1>3. curve[amount].out \in Nat /\ (Ok(curve[probe]) => curve[probe].out \in Nat)
  BY <1>1, <1>2, Outcomes
<1>4. CASE ~Ok(curve[probe])
  <2>1. ProbeFails
    BY <1>4 DEF ProbePrevious
  <2>2. Cause
    BY <1>1, <1>2, <1>4 DEF Cause, Gap
  <2>3. QED
    BY <2>1, <2>2, ProbeFailsKeeps
<1>5. CASE Ok(curve[probe]) /\ curve[amount].out <= curve[probe].out
  <2>1. Reply(constant_fee_price)
    BY <1>5 DEF ProbePrevious
  <2>2. ~HasChords
    BY <1>1, <1>3, <1>5 DEF HasChords, Rising
  <2>3. QED
    BY <1>1, <2>1, <2>2, Unchorded, ReplyKeeps
<1>6. CASE Rising(probe, amount)
  <2>1. Ok(curve[probe]) /\ ~(curve[amount].out <= curve[probe].out)
    BY <1>3, <1>6 DEF Rising
  <2>2. below \in Price
    BY <1>1, <1>2, <1>6, ChordPrice
  <2>3. upper \in Price /\ LE(upper, below)
    BY <1>1, <2>2, Order DEF MinOf
  <2>4. CASE upper_bound = None \/ amount >= upper_bound
    <3>1. Reply(upper)
      BY <1>1, <2>1, <2>4 DEF ProbePrevious
    <3>2. ~HasTop
      BY <1>1, <2>4 DEF HasTop, InputsInv
    <3>3. Brackets(upper)
      <4>1. LE(constant_fee_price, below) => upper = constant_fee_price
        BY DEF MinOf
      <4>2. LE(constant_fee_price, constant_fee_price) /\ HasChords
        BY <1>1, <1>6, Order DEF HasChords
      <4> HIDE DEF upper
      <4>3. QED
        BY <2>3, <3>2, <4>1, <4>2 DEF Brackets, Same
    <3> HIDE DEF upper
    <3>4. QED
      BY <1>1, <2>3, <3>1, <3>3, ReplyKeeps
  <2>5. CASE upper_bound # None /\ ~(amount >= upper_bound)
    <3>1. Probe("next", amount + next_step, upper)
      BY <1>1, <2>1, <2>5 DEF ProbePrevious
    <3>2. upper_bound \in Amount /\ upper_bound > amount
      BY <1>1, <2>5 DEF InputsInv
    <3>3. amount + next_step = Top /\ Top \in Amount
      BY <1>1, <1>2, <3>2 DEF Top, next_step, Step
    <3>4. /\ pc' = "next" /\ probe' = Top /\ upper_price' = upper
          /\ UNCHANGED inputs /\ amount' = amount /\ upper_bound' = upper_bound
          /\ curve' = curve /\ dynamic' = dynamic
          /\ constant_fee_price' = constant_fee_price
      BY <3>1, <3>3 DEF Probe, inputs
    <3>5. Step' = Step /\ Top' = Top /\ InputsInv'
          /\ Rising(amount - Step, amount)' /\ Chord(amount - Step, amount)' = below
      BY <1>1, <1>6, <3>4, SameInputs
    <3>6. TypeOK'
      BY <2>3, <3>3, <3>4 DEF IInv, TypeOK
    <3>7. ProbingInv' /\ PreviousInv'
      BY <1>1, <3>4, <3>5 DEF ProbingInv, PreviousInv, Ok
    <3>8. NextInv'
      BY <2>5, <3>2, <3>4, <3>5 DEF NextInv, MinOf, LE
    <3>9. PriceBracketsChords' /\ ProbesFailForCause'
      BY <3>4 DEF PriceBracketsChords, ProbesFailForCause
    <3>10. QED
      BY <3>5, <3>6, <3>7, <3>8, <3>9 DEF IInv
  <2>6. QED
    BY <2>4, <2>5
<1>7. QED
  BY <1>1, <1>3, <1>4, <1>5, <1>6 DEF Rising

\* The probe above the amount: the upper chord.
LEMMA ProbeNextKeeps ==
  ASSUME IInv, ProbeNext
  PROVE  IInv'
<1> DEFINE below == Chord(amount - Step, amount)
           above == Chord(amount, Top)
<1>1. /\ pc = "next" /\ probe = Top /\ InputsInv
      /\ dynamic /\ amount > 0 /\ Ok(curve[amount]) /\ Step # None
      /\ amount \in Amount /\ curve \in Curves /\ constant_fee_price \in Price
      /\ Rising(amount - Step, amount)
      /\ upper_bound \in Amount /\ upper_bound > amount /\ upper_bound # None
      /\ upper_price = MinOf(constant_fee_price, below)
  BY DEF ProbeNext, IInv, ProbingInv, NextInv, InputsInv, Price
<1>2. Step \in 1..amount /\ amount - Step \in Amount /\ amount - Step < amount
  BY <1>1, StepWidth
<1>3. Top \in Amount /\ amount < Top /\ Top <= upper_bound
  BY <1>1, <1>2 DEF Top
<1>4. below \in Price
  BY <1>1, <1>2, ChordPrice
<1>5. upper_price \in Price /\ LE(upper_price, below)
  BY <1>1, <1>4, Order DEF MinOf
<1>6. curve[amount].out \in Nat /\ (Ok(curve[Top]) => curve[Top].out \in Nat)
  BY <1>1, <1>3, Outcomes
<1>7. CASE ~Ok(curve[Top])
  <2>1. ProbeFails
    BY <1>1, <1>7 DEF ProbeNext
  <2>2. Cause
    <3>1. CASE ~Ok(curve[upper_bound])
      BY <1>1, <3>1 DEF Cause, StaleBound
    <3>2. CASE Ok(curve[upper_bound])
      <4>1. Top < upper_bound
        BY <1>1, <1>3, <1>7, <3>2
      <4>2. Gap(Top)
        BY <1>1, <1>7, <3>2, <4>1 DEF Gap
      <4>3. Top <= amount + Step
        BY <1>1, <1>2 DEF Top
      <4>4. amount - Step <= Top
        BY <1>1, <1>2, <1>3
      <4>5. QED
        BY <1>1, <1>3, <4>2, <4>3, <4>4 DEF Cause
    <3>3. QED
      BY <3>1, <3>2
  <2>3. QED
    BY <2>1, <2>2, ProbeFailsKeeps
<1>8. CASE Ok(curve[Top]) /\ curve[Top].out <= curve[amount].out
  <2>1. Reply(upper_price)
    BY <1>1, <1>8 DEF ProbeNext
  <2>2. ~HasTop
    BY <1>6, <1>8 DEF HasTop, Rising
  <2>3. Brackets(upper_price)
    <3>1. LE(constant_fee_price, below) => upper_price = constant_fee_price
      BY <1>1 DEF MinOf
    <3>2. LE(constant_fee_price, constant_fee_price) /\ HasChords
      BY <1>1, Order DEF HasChords
    <3>3. QED
      BY <1>5, <2>2, <3>1, <3>2 DEF Brackets, Same
  <2>4. QED
    BY <1>1, <1>5, <2>1, <2>3, ReplyKeeps
<1>9. CASE Rising(amount, Top)
  <2>1. Ok(curve[Top]) /\ ~(curve[Top].out <= curve[amount].out)
    BY <1>6, <1>9 DEF Rising
  <2>2. Reply(Between(above))
    BY <1>1, <2>1 DEF ProbeNext
  <2>3. above \in Price
    BY <1>1, <1>3, <1>9, ChordPrice
  <2>4. PICK p : p = Between(above)
    OBVIOUS
  <2>5. p = IF LE(above, upper_price)
              THEN MinOf(MaxOf(constant_fee_price, above), upper_price)
              ELSE MaxOf(constant_fee_price, above)
    BY <2>4 DEF Between
  <2>6. /\ p \in Price /\ LE(above, p) /\ (LE(above, below) => LE(p, below))
        /\ LE(constant_fee_price, below) /\ LE(above, constant_fee_price)
             => Same(p, constant_fee_price)
    BY <1>1, <1>4, <2>3, <2>5, Clamp DEF Same
  <2>7. HasTop /\ HasChords
    BY <1>1, <1>9 DEF HasTop, HasChords
  <2>8. Brackets(p)
    BY <2>6, <2>7 DEF Brackets
  <2>9. QED
    BY <1>1, <2>2, <2>4, <2>6, <2>8, ReplyKeeps
<1>10. QED
  BY <1>1, <1>6, <1>7, <1>8, <1>9 DEF Rising

\* Nothing happens any more.
LEMMA StutterKeeps ==
  ASSUME IInv, UNCHANGED vars
  PROVE  IInv'
<1>1. UNCHANGED inputs /\ pc' = pc /\ probe' = probe /\ upper_price' = upper_price
      /\ answer' = answer /\ curve' = curve /\ amount' = amount /\ upper_bound' = upper_bound
      /\ dynamic' = dynamic /\ constant_fee_price' = constant_fee_price
  BY DEF vars, inputs
<1>2. InputsInv' /\ TypeOK'
  BY <1>1, SameInputs DEF IInv, TypeOK
<1>3. ProbingInv' /\ PreviousInv' /\ NextInv'
  BY <1>1, SameInputs DEF IInv, ProbingInv, PreviousInv, NextInv, Ok, MinOf, LE
<1>4. ProbesFailForCause'
  BY <1>1, SameCause DEF IInv, ProbesFailForCause, Cause, Ok
<1>5. PriceBracketsChords'
  <2> SUFFICES ASSUME pc = "done", "price" \in DOMAIN answer, ~answer.not_enough_liquidity
               PROVE  Brackets(answer.price)'
    BY <1>1 DEF PriceBracketsChords, Brackets
  <2>1. PICK p : p = answer.price
    OBVIOUS
  <2>2. Brackets(p)
    BY <2>1 DEF IInv, PriceBracketsChords, Brackets
  <2>3. Brackets(p)'
    BY <1>1, <2>2, SameInputs
  <2>4. QED
    BY <1>1, <2>1, <2>3
<1>6. QED
  BY <1>2, <1>3, <1>4, <1>5 DEF IInv

\* The inductive invariant holds in every reachable state.
THEOREM Inductive == Spec => []IInv
<1>1. IInv /\ [Next]_vars => IInv'
  <2> SUFFICES ASSUME IInv, [Next]_vars PROVE IInv'
    OBVIOUS
  <2>1. CASE SpotPrice
    BY <2>1, SpotPriceKeeps
  <2>2. CASE SwapFails
    BY <2>2, SwapFailsKeeps
  <2>3. CASE ComputeSwap
    BY <2>3, ComputeSwapKeeps
  <2>4. CASE ProbePrevious
    BY <2>4, ProbePreviousKeeps
  <2>5. CASE ProbeNext
    BY <2>5, ProbeNextKeeps
  <2>6. CASE Done \/ UNCHANGED vars
    BY <2>6, StutterKeeps DEF Done
  <2>7. QED
    BY <2>1, <2>2, <2>3, <2>4, <2>5, <2>6 DEF Next
<1>2. QED
  BY <1>1, InitKeeps, PTL DEF Spec

\* Every probe of actual_curve_price is a u64, and every price it reports is a
\* proper fraction, whatever the curve.
THEOREM TypeCorrect == Spec => []TypeOK
  BY Inductive, PTL DEF IInv

\* On every curve, gaps included, and with every cached bound: an amount that
\* compute_swap answers loses its quote to a probe only if the curve has a gap
\* within one step of it or the bound is that of another curve.
THEOREM ProbesSafe == Spec => []ProbesFailForCause
  BY Inductive, PTL DEF IInv

\* On every curve the reported price is at least the rate of the next step, and the
\* constant-fee price stands unless a chord rules it out; where the curve does not
\* bend the wrong way it is also at most the rate just below the amount
\* (actual_curve_price).
THEOREM PriceBracketed == Spec => []PriceBracketsChords
  BY Inductive, PTL DEF IInv
=============================================================================
