------------------------------- MODULE SmartOrder --------------------------------
(***************************************************************************)
(* The arithmetic of a smart order: from the position size a signal asks   *)
(* for and the position the account shows, the order that is sent.  The    *)
(* brokers' place_smartorder_api and sandbox_place_smart_order share it; a *)
(* few brokers leave the fresh trade out.                                  *)
(***************************************************************************)
EXTENDS Integers

Action == {"BUY", "SELL"}

Magnitude(n) == IF n < 0 THEN -n ELSE n

\* What a filled order does to the position.
Effect(action, quantity) == IF action = "BUY" THEN quantity ELSE -quantity

\* The order that takes the position from current to target; one for no
\* shares is not sent.
Adjustment(target, current) ==
    CASE target = current ->
           [action |-> "SELL", quantity |-> 0]
      [] target = 0 /\ current # 0 ->
           [action |-> IF current > 0 THEN "SELL" ELSE "BUY", quantity |-> Magnitude(current)]
      [] target # 0 /\ current = 0 ->
           [action |-> IF target > 0 THEN "BUY" ELSE "SELL", quantity |-> Magnitude(target)]
      [] OTHER ->
           IF target > current
           THEN [action |-> "BUY",  quantity |-> target - current]
           ELSE [action |-> "SELL", quantity |-> current - target]

\* A signal with a quantity of its own that finds nothing to close is a plain
\* order in the direction it names.
IsFreshTrade(quantity, target, current) == target = 0 /\ current = 0 /\ quantity # 0

SmartOrder(action, quantity, target, current) ==
    IF IsFreshTrade(quantity, target, current)
    THEN [action |-> action, quantity |-> quantity]
    ELSE Adjustment(target, current)
=================================================================================
