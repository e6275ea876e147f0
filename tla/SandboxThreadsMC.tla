---------------------------- MODULE SandboxThreadsMC ----------------------------
(* Tickets for TLC: small books of orders to place and cancel. *)
EXTENDS SandboxThreads, TLC

CONSTANTS o1, o2, o3

Buy(type, price)  == [side |-> "BUY",  type |-> type, price |-> price]
Sell(type, price) == [side |-> "SELL", type |-> type, price |-> price]

\* Resting orders that open and close, and a market order that closes as well or
\* sells short; together they cannot be afforded.
Mixed == o1 :> Buy("LIMIT", 1) @@ o2 :> Sell("LIMIT", 2) @@ o3 :> Sell("MARKET", 2)

\* Market orders that open and close, racing on their request threads.
Market == o1 :> Buy("MARKET", 1) @@ o2 :> Sell("MARKET", 3)
=================================================================================
