------------------------------ MODULE SandboxFunds ------------------------------
(***************************************************************************)
(* The account arithmetic of the sandbox: sandbox/fund_manager.py.  A fund *)
(* row is a record, and each method of FundManager that changes it is an   *)
(* operator from the old row to the new one.                               *)
(*                                                                         *)
(* Money is an integer number of the smallest unit the DECIMAL(_, 2)       *)
(* columns can hold.  A division is rounded to that unit, as the columns   *)
(* round what they read back.  unrealized_pnl and total_pnl are derived    *)
(* from open positions, never read by another handler, and left out.       *)
(***************************************************************************)
EXTENDS Integers

Fund == [available : Int, used : Int, realized : Int]

FreshFund(capital) == [available |-> capital, used |-> 0, realized |-> 0]

\* Nearest integer to a / b, halves rounded up; b is positive.
RoundDiv(a, b) == (2 * a + b) \div (2 * b)

MarginRequired(quantity, price, leverage) == RoundDiv(quantity * price, leverage)

MarginAvailable(fund, amount) == fund.available >= amount

BlockMargin(fund, amount) ==
    [available |-> fund.available - amount,
     used      |-> fund.used + amount,
     realized  |-> fund.realized]

Mut_ReleaseUncredited(fund, amount, pnl) ==
    [available |-> fund.available + amount,
     used      |-> fund.used - amount,
     realized  |-> fund.realized + pnl]

Mut_ReleaseUnbooked(fund, amount, pnl) ==
    [available |-> fund.available + amount + pnl,
     used      |-> fund.used - amount,
     realized  |-> fund.realized]

ReleaseMargin(fund, amount, pnl) ==
    [available |-> fund.available + amount + pnl,
     used      |-> fund.used - amount,
     realized  |-> fund.realized + pnl]

\* T+1: the money leaves used_margin for the holding, not for the balance.
TransferMarginToHoldings(fund, amount) ==
    [fund EXCEPT !.used = fund.used - amount]

CreditSaleProceeds(fund, amount) ==
    [fund EXCEPT !.available = fund.available + amount]

Mut_ReconcileOneSided(fund, positionMargin) ==
    [fund EXCEPT !.used = positionMargin]

\* reconcile_margin(auto_fix = True): used_margin becomes what the open
\* positions hold, and the difference goes to (or comes from) the balance.
ReconcileMargin(fund, positionMargin) ==
    [available |-> fund.available + (fund.used - positionMargin),
     used      |-> positionMargin,
     realized  |-> fund.realized]

\* What the account is worth before unrealized profit and holdings.
Cash(fund) == fund.available + fund.used
=================================================================================
