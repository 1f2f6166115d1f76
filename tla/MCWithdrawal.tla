---------------------------- MODULE MCWithdrawal ----------------------------
(* Instances of Withdrawal for TLC. *)
EXTENDS Withdrawal, TLC

CONSTANTS p1, p2, p3, eth, usdt

Interchangeable == Permutations(Workers)

\* Withdrawals of two units each, p3 of a token and the others of the coin.
MCTickerOf == [p \in Withdrawals |-> IF p = p3 THEN usdt ELSE eth]
MCAmountOf == [p \in Withdrawals |-> 2]

\* With a service fee of one, these pay for one and for two of them.
MCForOne == [k \in Tickers |-> 5]
MCForTwo == [k \in Tickers |-> 6]
MCScarce == [k \in Tickers |-> 3]
MCPlenty == [k \in Tickers |-> 10]
=============================================================================
