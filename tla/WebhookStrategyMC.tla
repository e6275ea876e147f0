---------------------------- MODULE WebhookStrategyMC ----------------------------
(***************************************************************************)
(* Values for the constants of WebhookStrategy: one strategy told which    *)
(* position to hold, positional, and one that only buys and sells, intraday*)
(* with a symbol of its own.                                               *)
(***************************************************************************)
EXTENDS WebhookStrategy, TLC

CONSTANTS swing, day, a, b

MCMode == [s \in Strategies |-> IF s = swing THEN "BOTH" ELSE "LONG"]
MCHours == [s \in Strategies |-> [intraday |-> s = day, start |-> 0, end |-> 0, squareoff |-> 1]]
MCSymbolsOf == [s \in Strategies |-> IF s = swing THEN <<a>> ELSE <<b>>]

\* A scanner's strategy over two symbols, whose last minute is outside.
ScannerHours == [s \in Strategies |-> [intraday |-> TRUE, start |-> 0, end |-> 1, squareoff |-> 2]]
ScannerSymbolsOf == [s \in Strategies |-> <<a, b>>]
=================================================================================
