------------------------------ MODULE MCCheckout ------------------------------
(* Our merchant with two customers, and another one that has a customer of  *)
(* the e-mail that a third gives.                                           *)
EXTENDS Checkout, TLC
CONSTANTS m1, m2, e1, e2, e3, o1, btc, eth
MCCustomers == <<[merchant |-> m1, email |-> e2], [merchant |-> m2, email |-> e1], [merchant |-> m1, email |-> e3]>>
Perms == Permutations(Requests) \cup Permutations(Consumers)

\* A payment that nobody has begun to pay.
Fresh(p) == payments[p].status = "pending" /\ payments[p].customer = 0 /\ payments[p].method = None

\* Bound: payments are created, by requests that overlap, while a dashboard pages through
\* them; or one payment is paid, with two events of it waiting at most.  Rows of different
\* payments do not touch each other.
Bound ==
    /\ (\E p \in Rows : ~Fresh(p)) => Len(payments) = 1 /\ \A r \in Requests : req[r].pc # "create"
    /\ \A p \in PaymentIds : events[p] <= 2
    /\ ~hooked => \A p \in Rows : payments[p].status = "pending"
    /\ pages # NoPages => /\ \A p \in Rows : Fresh(p)
                          /\ \A r \in Requests : req[r].pc \in {"idle", "create"}
                          /\ live
    /\ \A l \in LinkIds : links[l].price # 7
    /\ ~live => Cardinality({r \in Requests : req[r] # Served}) <= 1 /\ \E c \in Consumers : consumer[c] = NoEvent
=============================================================================
