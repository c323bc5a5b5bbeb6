------------------------------ MODULE Strategy ------------------------------
(***************************************************************************)
(* ImbalanceStrategy, which turns the quantities at the top of the book    *)
(* into a signal, and the request StrategyExecutor makes of a signal.      *)
(* Both are pure.  The intermediate products are __int128 in the code, so  *)
(* they do not overflow for any 64-bit quantities and threshold.           *)
(***************************************************************************)
EXTENDS Integers

CONSTANTS ThresholdNumerator, ThresholdDenominator,  \* the imbalance to reach
          OrderQuantity  \* raw quantity of every order

ASSUME StrategyAssumption ==
    /\ ThresholdNumerator \in Nat
    /\ ThresholdDenominator \in Nat \ {0}
    /\ OrderQuantity \in Nat

Signal == {"None", "Buy", "Sell"}

\* difference / total >= ThresholdNumerator / ThresholdDenominator.
ReachesThreshold(difference, total) ==
    difference * ThresholdDenominator >= total * ThresholdNumerator

Evaluate(bidQuantity, askQuantity) ==
    LET total == bidQuantity + askQuantity
        difference == bidQuantity - askQuantity
    IN  IF total <= 0 THEN "None"
        ELSE IF difference > 0 /\ ReachesThreshold(difference, total) THEN "Buy"
        ELSE IF difference < 0 /\ ReachesThreshold(-difference, total) THEN "Sell"
        ELSE "None"

\* A slip: the order takes all there is.
RequestSweeping(instrument, signal, event) ==
    [instrument |-> instrument,
     side       |-> signal,
     price      |-> IF signal = "Buy" THEN event.bestAsk ELSE event.bestBid,
     quantity   |-> IF signal = "Buy" THEN event.bestAskQuantity
                    ELSE event.bestBidQuantity]

\* The order takes the other side's best price, 0 when that side is empty.
RequestFor(instrument, signal, event) ==
    [instrument |-> instrument,
     side       |-> signal,
     price      |-> IF signal = "Buy" THEN event.bestAsk ELSE event.bestBid,
     quantity   |-> OrderQuantity]

=============================================================================
