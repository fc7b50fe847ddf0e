------------------------------ MODULE Netting ------------------------------
(***************************************************************************)
(* What the executor does with a closed epoch (packages/executor, netOff   *)
(* to buildOrder): cancel the YES total against the NO total, and buy the  *)
(* difference on Polymarket.  The functions are pure; MarketFeed states    *)
(* what they promise, for all their arguments, and proves it.              *)
(***************************************************************************)
EXTENDS Integers

Aggregates == [yesNotional : Nat, noNotional : Nat]

Crossed(agg) ==
    IF agg.yesNotional < agg.noNotional THEN agg.yesNotional ELSE agg.noNotional

\* side and size are there in a residual only; size 0 stands for their absence.
netOff(agg) ==
    IF agg.yesNotional = agg.noNotional
    THEN [kind |-> "crossed", side |-> "none", size |-> 0, crossed |-> Crossed(agg)]
    ELSE [kind |-> "residual",
          side |-> IF agg.yesNotional > agg.noNotional THEN "YES" ELSE "NO",
          size |-> IF agg.yesNotional > agg.noNotional
                   THEN agg.yesNotional - agg.noNotional
                   ELSE agg.noNotional - agg.yesNotional,
          crossed |-> Crossed(agg)]

Total(agg) == agg.yesNotional + agg.noNotional

Whole == 10000  \* in hundredths of a percent

\* Before the last division, which makes a float of it.
ShareOf(part, total) == IF total = 0 THEN 0 ELSE (part * Whole) \div total

shieldedFraction(agg) == ShareOf(Total(agg) - netOff(agg).size, Total(agg))

NoOrder == [outcome |-> "none", sizeUsdc |-> 0]

\* The order that is sent: which token to buy, and for how much.  Price and
\* shares are the market's.
buildOrder(residual) ==
    IF residual.kind = "crossed" THEN NoOrder
    ELSE [outcome |-> residual.side, sizeUsdc |-> residual.size]

\* What a side ends up with: what was crossed inside, and what was bought.
Filled(agg, side) ==
    netOff(agg).crossed
    + (IF buildOrder(netOff(agg)).outcome = side THEN buildOrder(netOff(agg)).sizeUsdc ELSE 0)

=============================================================================
