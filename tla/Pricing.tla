------------------------------- MODULE Pricing -------------------------------
(***************************************************************************)
(* The cost of a completion (app/pricing.py).  Prices are in cents per     *)
(* million tokens, so that a token costs so many hundredths of a           *)
(* micro-dollar; costs are in micro-dollars, the unit of the Numeric(12,6) *)
(* columns they are stored in.                                             *)
(***************************************************************************)
EXTENDS Integers

\* _PRICE_PER_MILLION: model, input price, output price.
PricePerMillion == {
    <<"gpt-4o", 250, 1000>>,
    <<"gpt-4o-mini", 15, 60>>,
    <<"gpt-4.1", 200, 800>>,
    <<"gpt-4.1-mini", 40, 160>>,
    <<"claude-3-5-sonnet-20241022", 300, 1500>>,
    <<"claude-3-7-sonnet-20250219", 300, 1500>>,
    <<"claude-sonnet-4-20250514", 300, 1500>>,
    <<"claude-opus-4-20250514", 1500, 7500>>}

DefaultPrice == [input |-> 0, output |-> 0]

\* price_for_model
PriceForModel(model) ==
    IF \E row \in PricePerMillion : row[1] = model
    THEN LET row == CHOOSE row \in PricePerMillion : row[1] = model
         IN  [input |-> row[2], output |-> row[3]]
    ELSE DefaultPrice

\* Decimal.quantize to whole micro-dollars: round half to even.
ToMicroDollars(hundredths) ==
    LET q == hundredths \div 100  rest == hundredths % 100
    IN  IF rest > 50 \/ (rest = 50 /\ q % 2 = 1) THEN q + 1 ELSE q

\* compute_cost
ComputeCost(model, promptTokens, completionTokens) ==
    LET price == PriceForModel(model)
    IN  ToMicroDollars(promptTokens * price.input + completionTokens * price.output)
=============================================================================
