-------------------------------- MODULE Money --------------------------------
(***************************************************************************)
(* Amounts of money: whole numbers of the smallest unit of a currency.     *)
(* Go's float64 is a fraction here.  Most fractions are not exact in       *)
(* float64, so that a product which should be a whole number may be just   *)
(* below it and is then cut to the number before; an operator that         *)
(* multiplies returns the set of results there may be.                     *)
(***************************************************************************)
EXTENDS Integers

CONSTANT FiatMax   \* the greatest price, in units

FiatDecimals == 2

Fraction(n, d) == [num |-> n, den |-> d]
IsFraction(f) == f.num \in Nat /\ f.den \in Nat \ {0}
Reversed(f) == Fraction(f.den, f.num)      \* of zero: infinite, den = 0
Times(f, n) == Fraction(f.num * n, f.den)

Money(type, ticker, value, decimals) ==
    [type |-> type, ticker |-> ticker, value |-> value, decimals |-> decimals]
NoMoney == Money("error", "", 0, 0)

\* Cut to a whole number, or to the one before as the fraction is not exact.
Cut(n, d) == {n \div d} \cup (IF n % d = 0 /\ n > 0 /\ d > 1 THEN {n \div d - 1} ELSE {})

CompatibleTo(a, b) == a.ticker = b.ticker /\ a.decimals = b.decimals

Add(a, b) == IF CompatibleTo(a, b) THEN [a EXCEPT !.value = @ + b.value] ELSE NoMoney
SubNegative(a, b) == IF CompatibleTo(a, b) THEN [a EXCEPT !.value = @ - b.value] ELSE NoMoney

\* An error also if the difference is negative.
Sub(a, b) == IF SubNegative(a, b).value < 0 THEN NoMoney ELSE SubNegative(a, b)

LessThan(a, b) == CompatibleTo(a, b) /\ a.value < b.value
GreaterThan(a, b) == CompatibleTo(a, b) /\ a.value > b.value

\* An error for a multiplier that is not positive, or infinite.
MultiplyFloat64(m, by) ==
    IF m = NoMoney \/ by.num <= 0 \/ by.den = 0 THEN {NoMoney}
    ELSE {[m EXCEPT !.value = v] : v \in Cut(m.value * by.num, by.den)}

FiatFromFloat64(ticker, f) ==
    IF f.num * 100 < f.den \/ f.num > FiatMax * f.den THEN {NoMoney}
    ELSE {Money("fiat", ticker, v, FiatDecimals) : v \in Cut(f.num * 100, f.den)}

CryptoFromFloat64(ticker, f, decimals) ==
    IF f.num <= 0 THEN {NoMoney}
    ELSE {Money("crypto", ticker, v, decimals) : v \in Cut(f.num * 10^decimals, f.den)}

FiatToFloat64(m) == Fraction(m.value, 10^FiatDecimals)

\* The product with the rate in hundredths, without its decimals.
CryptoToFiatAt(crypto, fiat, rate) ==
    {IF m = NoMoney THEN NoMoney
     ELSE Money("fiat", fiat, m.value \div 10^m.decimals, FiatDecimals) :
        m \in MultiplyFloat64(crypto, Times(rate, 10^FiatDecimals))}
=============================================================================
