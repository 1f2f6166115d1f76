--------------------------- MODULE PaymentPromise ---------------------------
(***************************************************************************)
(* What collecting a payment promises, whoever notices the money and in    *)
(* whatever order: every deposit that the chain confirmed enters the books *)
(* once, one of them may pay the merchant, in one go with the books, and   *)
(* the payment is settled once, as a success exactly if it was paid.       *)
(*                                                                         *)
(* There are no workers, transactions, wallets and locks here; the module  *)
(* IncomingPayment has them.                                               *)
(***************************************************************************)
EXTENDS Integers

CONSTANTS
    Hashes,      \* deposits
    Tickers,     \* currencies
    Amount,      \* price in every ticker
    Tolerance,   \* what an underpayment may miss
    ServiceFee   \* what of it the service keeps

VARIABLES
    status,   \* of the payment
    paid,     \* the merchant was paid
    booked,   \* the deposits in the books
    held,     \* what the books say the system holds
    owed,     \* what of it is the merchant's
    chain     \* the deposits

books == <<paid, booked, held, owed>>
vars == <<status, books, chain>>

Init ==
    /\ status = "pending" /\ paid = FALSE /\ booked = {}
    /\ held = [k \in Tickers |-> 0] /\ owed = [k \in Tickers |-> 0]
    /\ \A h \in Hashes : chain[h].state = "absent"

\* The customer settles on a currency.
Lock ==
    /\ status = "pending" /\ status' = "locked"
    /\ UNCHANGED <<books, chain>>

\* A deposit that pays the price is in sight.
Notice ==
    /\ status = "locked" /\ status' = "inProgress"
    /\ \E h \in Hashes : chain[h].state # "absent" /\ chain[h].amount + Tolerance >= Amount
    /\ UNCHANGED <<books, chain>>

Price(h) == IF chain[h].amount > Amount THEN Amount ELSE chain[h].amount

\* A confirmed deposit enters the books; the one that was waited for pays.
Book(h) ==
    LET k == chain[h].ticker IN
    /\ chain[h].state = "success" /\ h \notin booked
    /\ booked' = booked \cup {h}
    /\ held' = [held EXCEPT ![k] = @ + chain[h].amount]
    /\ \/ UNCHANGED <<paid, owed>>
       \/ /\ status = "inProgress" /\ ~paid /\ chain[h].amount + Tolerance >= Amount
          /\ paid' = TRUE
          /\ owed' = [owed EXCEPT ![k] = @ + Price(h) - ServiceFee]
    /\ UNCHANGED <<status, chain>>

Settle ==
    /\ status \in {"pending", "locked", "inProgress"}
    /\ status' = IF paid THEN "success" ELSE "failed"
    /\ UNCHANGED <<books, chain>>

\* Whatever the chain does, a confirmed deposit stays.
ChainMoves ==
    /\ \A h \in Hashes : chain[h].state = "success" => chain'[h] = chain[h]
    /\ UNCHANGED <<status, books>>

Next == Lock \/ Notice \/ (\E h \in Hashes : Book(h)) \/ Settle \/ ChainMoves

Spec == Init /\ [][Next]_vars
=============================================================================
