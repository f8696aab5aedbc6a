---------------------------- MODULE PricingProofs ----------------------------
(***************************************************************************)
(* What compute_cost guarantees for every model and any numbers of tokens, *)
(* and so what the models of the run may assume of Cost.                   *)
(***************************************************************************)
EXTENDS Pricing, TLAPS

\* The exact price of a completion, in hundredths of a micro-dollar.
Exact(model, p, c) == p * PriceForModel(model).input + c * PriceForModel(model).output

\* Every model has a price, in whole cents (_PRICE_PER_MILLION).
LEMMA PricesAreNat ==
    ASSUME NEW model
    PROVE  PriceForModel(model) \in [input : Nat, output : Nat]
<1>1. CASE \E row \in PricePerMillion : row[1] = model
    <2> DEFINE found == CHOOSE row \in PricePerMillion : row[1] = model
    <2>1. found \in PricePerMillion
        BY <1>1
    <2>2. found[2] \in Nat /\ found[3] \in Nat
        <3> HIDE DEF found
        <3> QED BY <2>1 DEF PricePerMillion
    <2> QED BY <1>1, <2>2 DEF PriceForModel
<1>2. CASE ~ \E row \in PricePerMillion : row[1] = model
    BY <1>2 DEF PriceForModel, DefaultPrice
<1> QED BY <1>1, <1>2

\* Rounding to the columns' scale (Decimal.quantize) errs by half a unit.
LEMMA RoundingIsNearest ==
    ASSUME NEW x \in Nat
    PROVE  /\ ToMicroDollars(x) \in Nat
           /\ 100 * ToMicroDollars(x) - x \in -50..50
<1> DEFINE q == x \div 100
           rest == x % 100
<1>1. q \in Nat /\ rest \in 0..99 /\ x = 100 * q + rest
    OBVIOUS
<1>2. ToMicroDollars(x) = IF rest > 50 \/ (rest = 50 /\ q % 2 = 1) THEN q + 1 ELSE q
    BY DEF ToMicroDollars
<1> HIDE DEF q, rest
<1> QED BY <1>1, <1>2

\* More is never rounded to less (Decimal.quantize).
LEMMA RoundingIsMonotone ==
    ASSUME NEW x \in Nat, NEW y \in Nat, x <= y
    PROVE  ToMicroDollars(x) <= ToMicroDollars(y)
<1> DEFINE qx == x \div 100
           qy == y \div 100
           rx == x % 100
           ry == y % 100
<1>1. qx \in Nat /\ rx \in 0..99 /\ x = 100 * qx + rx
    OBVIOUS
<1>2. qy \in Nat /\ ry \in 0..99 /\ y = 100 * qy + ry
    OBVIOUS
<1>3. /\ ToMicroDollars(x) = IF rx > 50 \/ (rx = 50 /\ qx % 2 = 1) THEN qx + 1 ELSE qx
      /\ ToMicroDollars(y) = IF ry > 50 \/ (ry = 50 /\ qy % 2 = 1) THEN qy + 1 ELSE qy
    BY DEF ToMicroDollars
<1> HIDE DEF qx, qy, rx, ry
<1>4. qx < qy \/ (qx = qy /\ rx <= ry)
    BY <1>1, <1>2
<1> QED BY <1>1, <1>2, <1>3, <1>4

\* A product of naturals grows with its first factor.
LEMMA ProductMonotone ==
    ASSUME NEW a \in Nat, NEW b \in Nat, NEW k \in Nat, a <= b
    PROVE  a * k \in Nat /\ b * k \in Nat /\ a * k <= b * k
OBVIOUS

\* A cost is a natural number of micro-dollars, which is what the rollups add
\* up (StoreAssumption of EvalStore), and it is within half a micro-dollar of
\* the exact price: the total of a run of n items errs by n / 2 at most.
THEOREM CostIsNearest ==
    ASSUME NEW model, NEW p \in Nat, NEW c \in Nat
    PROVE  /\ ComputeCost(model, p, c) \in Nat
           /\ 100 * ComputeCost(model, p, c) - Exact(model, p, c) \in -50..50
<1>1. Exact(model, p, c) \in Nat
    <2>1. PriceForModel(model).input \in Nat /\ PriceForModel(model).output \in Nat
        BY PricesAreNat
    <2>2. p * PriceForModel(model).input \in Nat /\ c * PriceForModel(model).output \in Nat
        BY <2>1, ProductMonotone
    <2> QED BY <2>2 DEF Exact
<1>2. ComputeCost(model, p, c) = ToMicroDollars(Exact(model, p, c))
    BY DEF ComputeCost, Exact
<1> QED BY <1>1, <1>2, RoundingIsNearest

\* A longer prompt or completion never costs less (compute_cost), although
\* costs are rounded half to even: what the spend guard compares with its
\* limit grows with the tokens that were used.
THEOREM CostIsMonotone ==
    ASSUME NEW model, NEW p \in Nat, NEW c \in Nat, NEW p2 \in Nat, NEW c2 \in Nat,
           p <= p2, c <= c2
    PROVE  ComputeCost(model, p, c) <= ComputeCost(model, p2, c2)
<1>1. PriceForModel(model).input \in Nat /\ PriceForModel(model).output \in Nat
    BY PricesAreNat
<1>2. /\ p * PriceForModel(model).input \in Nat
      /\ p2 * PriceForModel(model).input \in Nat
      /\ p * PriceForModel(model).input <= p2 * PriceForModel(model).input
    BY <1>1, ProductMonotone
<1>3. /\ c * PriceForModel(model).output \in Nat
      /\ c2 * PriceForModel(model).output \in Nat
      /\ c * PriceForModel(model).output <= c2 * PriceForModel(model).output
    BY <1>1, ProductMonotone
<1>4. /\ Exact(model, p, c) \in Nat /\ Exact(model, p2, c2) \in Nat
      /\ Exact(model, p, c) <= Exact(model, p2, c2)
    BY <1>2, <1>3 DEF Exact
<1> QED BY <1>4, RoundingIsMonotone DEF ComputeCost, Exact
=============================================================================
