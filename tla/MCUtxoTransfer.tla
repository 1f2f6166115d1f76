---------------------------- MODULE MCUtxoTransfer ----------------------------
(* Instances of UtxoTransfer for TLC: one byte for each part of a           *)
(* transaction, so that a satoshi or two decide.                            *)
EXTENDS UtxoTransfer

CONSTANTS a1, a2, out

Coin(i, a, sats) == [tx |-> 0, out |-> i, wallet |-> a, sats |-> sats]

\* A wallet with two outputs, and two that must be joined for the larger amounts.
MCCoins == {Coin(1, out, 9), Coin(2, out, 7), Coin(1, a1, 13), Coin(1, a2, 12)}
MCFew == {Coin(1, out, 9), Coin(2, out, 7)}
MCOneRate == {{10}}
MCEstimates == {{}, {10, 25}}
Interchangeable == Permutations(Workers)
=============================================================================
