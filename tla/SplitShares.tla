----------------------------- MODULE SplitShares -----------------------------
(***************************************************************************)
(* The money of a confirmed draft (_build_sw_splits).  Amounts are in      *)
(* tenths of a cent: the parser may return more digits than a currency     *)
(* has.  A share is a number of Scale-ths of the total.                    *)
(***************************************************************************)
EXTENDS Integers, Sequences, Functions

CONSTANTS Scale,     \* a share of 1.0
          NoId       \* splitwise_user_id of somebody who has none

ASSUME ScaleAssumption == Scale \in Nat \ {0}

Total(s) == FoldFunction(+, 0, s)

\* Decimal.quantize with ROUND_HALF_UP, for x / y that is not negative.
Round(x, y) == (2 * x + y) \div (2 * y)

Abs(x) == IF x < 0 THEN -x ELSE x

\* Mutant: no check that the shares make a whole.
SumsToOne_Unchecked(shares) == shares # << >>

\* ParsedExpense._splits_sum_to_one: off by two percent at most.
SumsToOne(shares) == shares # << >> /\ 50 * Abs(Total(shares) - Scale) <= Scale

Cents(amount) == Round(amount, 10)

RawOwed(amount, shares) ==
    [i \in DOMAIN shares |-> Round(Cents(amount) * shares[i], Scale)]

\* Mutant: rounding is not reconciled.
OwedCents_Unreconciled(amount, shares) == RawOwed(amount, shares)

\* What rounding, and shares that miss the whole, leave over goes to the first.
OwedCents(amount, shares) ==
    LET raw == RawOwed(amount, shares)
    IN  [raw EXCEPT ![1] = @ + (Cents(amount) - Total(raw))]

\* Mutant: nobody looks at the ids.
BuildSwSplits_Unchecked(amount, resolved) ==
    LET owed == OwedCents(amount, [i \in DOMAIN resolved |-> resolved[i].share])
    IN  [i \in DOMAIN resolved |->
            [sw   |-> resolved[i].sw,
             paid |-> IF resolved[i].sw = resolved[1].sw THEN amount ELSE 0,
             owed |-> 10 * owed[i]]]

\* No splits if anybody has no id.  Who has the first split's id paid it all.
BuildSwSplits(amount, resolved) ==
    LET owed == OwedCents(amount, [i \in DOMAIN resolved |-> resolved[i].share])
    IN  IF resolved = << >> \/ \E i \in DOMAIN resolved : resolved[i].sw = NoId
        THEN << >>
        ELSE [i \in DOMAIN resolved |->
                 [sw   |-> resolved[i].sw,
                  paid |-> IF resolved[i].sw = resolved[1].sw THEN amount ELSE 0,
                  owed |-> 10 * owed[i]]]

PaidIn(splits) == Total([i \in DOMAIN splits |-> splits[i].paid])
OwedIn(splits) == Total([i \in DOMAIN splits |-> splits[i].owed])

\* create_expense: "Splitwise will reject mismatches".
Balances(splits, cost) == PaidIn(splits) = cost /\ OwedIn(splits) = cost
=============================================================================
