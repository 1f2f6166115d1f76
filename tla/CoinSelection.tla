---------------------------- MODULE CoinSelection ----------------------------
(***************************************************************************)
(* Which outputs of a Bitcoin or Litecoin wallet pay for a transaction,    *)
(* and what it costs: the pure part of service_bitcoin.go.                 *)
(*                                                                         *)
(* Amounts are satoshis.  A fee rate is a number of 1/RateUnit satoshis    *)
(* per virtual byte, as rates below one satoshi exist.  Sequences of       *)
(* outputs keep the order of the program's slices, and a selection without *)
(* inputs stands for its error ErrInsufficientFunds.                       *)
(***************************************************************************)
EXTENDS Integers, Sequences, SequencesExt, Tables

CONSTANTS
    Dust,         \* bitcoinDustSats: no smaller output is made        (546)
    TxSize,       \* virtual bytes of a transaction without its inputs
                  \* and outputs                                        (10)
    InputSize,    \* of an input                                        (68)
    OutputSize,   \* of an output                                       (31)
    RateUnit      \* a rate of RateUnit is one satoshi per virtual byte (10)

ASSUME CoinSelectionAssumption ==
    /\ Dust \in Nat \ {0} /\ RateUnit \in Nat \ {0}
    /\ TxSize \in Nat \ {0} /\ InputSize \in Nat \ {0} /\ OutputSize \in Nat \ {0}

estimateBitcoinP2WPKHVSize(inputs, outputs) ==
    TxSize + InputSize * inputs + OutputSize * outputs

\* Rounded up to a satoshi.
utxoFeeSats(vbytes, rate) == (vbytes * rate + RateUnit - 1) \div RateUnit

\* What a transaction of so many inputs and outputs must pay.
FeeFor(inputs, outputs, rate) ==
    utxoFeeSats(estimateBitcoinP2WPKHVSize(inputs, outputs), rate)

\* The smallest positive estimate, at least 0.1 satoshi per byte; 0 if there is none.
economicalUTXOFeeRate(estimates) ==
    LET positive == {r \in estimates : r > 0} IN
    IF positive = {} THEN 0
    ELSE Max({Min(positive), RateUnit \div 10})

\* The rate when the explorers give no estimate is a constant of the chain.
utxoFeeRate(estimates, fallbackUTXOFeeRate) ==
    IF economicalUTXOFeeRate(estimates) = 0 THEN fallbackUTXOFeeRate
    ELSE economicalUTXOFeeRate(estimates)

\* What the fee service tells before the inputs are known.
bitcoinFee(rate) == FeeFor(1, 2, rate)

\* The listing of an address: the largest outputs first, then by their transactions.
Larger(o, p) ==
    \/ o.sats > p.sats
    \/ o.sats = p.sats /\ (o.tx < p.tx \/ (o.tx = p.tx /\ o.out < p.out))
Above(outputs, o) == {p \in outputs : Larger(p, o)}
LargestFirst(outputs) ==
    [n \in 1..Cardinality(outputs) |-> CHOOSE o \in outputs : Cardinality(Above(outputs, o)) = n - 1]
utxoSpendableUTXOsFromExplorer(outputs) == LargestFirst({o \in outputs : o.sats > 0})

\* Of what the explorer listed; it comes to the same before the listing is sorted.
excludeBitcoinUTXOs(outputs, excluded) == outputs \ excluded

\* Totals(utxos)[n] is the sum of the first n outputs.
Totals(utxos) == [n \in 0..Len(utxos) |-> Total([i \in 1..n |-> utxos[i].sats])]

NoSelection == [inputs |-> <<>>, amount |-> 0, fee |-> 0, change |-> 0]

\* Mutant: too small a change is still an output.
SelectAnyChange(utxos, amount, rate) ==
    LET total == Totals(utxos)
        Change(n) == total[n] - amount - FeeFor(n, 2, rate)
        enough == {n \in 1..Len(utxos) : Change(n) >= 0}
        n == Min(enough)
    IN  IF enough = {} THEN NoSelection
        ELSE [inputs |-> SubSeq(utxos, 1, n), amount |-> amount,
              fee |-> FeeFor(n, 2, rate), change |-> Change(n)]

\* The shortest prefix that pays, with an output for the change if the change is
\* no dust, else with all that is left over as the fee.
selectBitcoinUTXOs(utxos, amount, rate) ==
    LET total == Totals(utxos)
        Change(n) == total[n] - amount - FeeFor(n, 2, rate)
        enough == {n \in 1..Len(utxos) : \/ Change(n) >= Dust
                                         \/ total[n] - amount >= FeeFor(n, 1, rate)}
        n == Min(enough)
    IN  IF enough = {} THEN NoSelection
        ELSE [inputs |-> SubSeq(utxos, 1, n), amount |-> amount,
              fee |-> IF Change(n) >= Dust THEN FeeFor(n, 2, rate) ELSE total[n] - amount,
              change |-> IF Change(n) >= Dust THEN Change(n) ELSE 0]

\* A sweep takes every output that is worth its own input.
selectBitcoinSweepUTXOs(utxos, rate) ==
    LET selected == Kept(utxos, {i \in DOMAIN utxos : utxos[i].sats > utxoFeeSats(InputSize, rate)})
        fee == FeeFor(Len(selected), 1, rate)
        amount == Totals(selected)[Len(selected)] - fee
    IN  IF selected = <<>> \/ amount < Dust THEN NoSelection
        ELSE [inputs |-> selected, amount |-> amount, fee |-> fee, change |-> 0]

BitcoinSweepAmountFromUTXOs(utxos, rate) == selectBitcoinSweepUTXOs(utxos, rate).amount

\* The outputs for amount and fee within maxTotalCost, if any.
Affordable(utxos, amount, maxTotalCost, rate) ==
    LET s == selectBitcoinUTXOs(utxos, amount, rate)
    IN  s.inputs # <<>> /\ amount + s.fee <= maxTotalCost

NoLimit == [amount |-> 0, fee |-> 0]

\* Mutant: the search stops one short.
SearchShort(utxos, maxTotalCost, rate) ==
    LET best[low \in Nat, high \in Nat] ==
          LET c == low + (high - low) \div 2 IN
          IF low >= high THEN 0
          ELSE IF Affordable(utxos, c, maxTotalCost, rate)
               THEN Max({c, best[c + 1, high]})
               ELSE best[low, c - 1]
        amount == best[Dust, maxTotalCost]
    IN  IF amount < Dust THEN NoLimit
        ELSE [amount |-> amount, fee |-> selectBitcoinUTXOs(utxos, amount, rate).fee]

\* The largest amount that can be sent, by binary search, and its fee.
maxBitcoinTransactionAmountAndFeeFromUTXOs(utxos, maxTotalCost, rate) ==
    LET best[r \in (Dust..(maxTotalCost + 1)) \X ((Dust - 1)..maxTotalCost)] ==
          LET c == r[1] + (r[2] - r[1]) \div 2 IN
          IF r[1] > r[2] THEN 0
          ELSE IF Affordable(utxos, c, maxTotalCost, rate)
               THEN Max({c, best[<<c + 1, r[2]>>]})
               ELSE best[<<r[1], c - 1>>]
        amount == IF maxTotalCost < Dust THEN 0 ELSE best[<<Dust, maxTotalCost>>]
    IN  IF amount < Dust THEN NoLimit
        ELSE [amount |-> amount, fee |-> selectBitcoinUTXOs(utxos, amount, rate).fee]

-----------------------------------------------------------------------------
(* What the functions above promise, for given outputs and rate. *)

\* A selection from the set utxos pays exactly for what it makes: the recipient's
\* amount, a change that is no dust, and a fee that is at least the rate asks for.
SoundSelection(s, utxos, rate) ==
    s.inputs # <<>> =>
        LET outputs == IF s.change = 0 THEN 1 ELSE 2 IN
        /\ Totals(s.inputs)[Len(s.inputs)] = s.amount + s.change + s.fee
        /\ s.change = 0 \/ s.change >= Dust
        /\ s.fee >= FeeFor(Len(s.inputs), outputs, rate)
        /\ ToSet(s.inputs) \subseteq utxos

\* The binary search finds the largest amount, although cost is a step function.
MaximalAmount(utxos, maxTotalCost, rate) ==
    LET m == maxBitcoinTransactionAmountAndFeeFromUTXOs(utxos, maxTotalCost, rate).amount
    IN  \A c \in Dust..maxTotalCost :
            (c <= m) <=> Affordable(utxos, c, maxTotalCost, rate)
=============================================================================
