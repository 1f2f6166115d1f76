----------------------------- MODULE CheckoutProofs -----------------------------
(***************************************************************************)
(* One payment per order, complete payments and webhooks of every final    *)
(* status, for any number of requests, consumers, payments and customers.  *)
(* A request has a payment that is there for ever and a customer of our    *)
(* merchant's; what it read of them may be out of date, but an option that *)
(* was set is never unset (Grows), and that is all that UpdateLocked needs. *)
(*                                                                         *)
(* The pages of a listing: each one takes the first rows from the cursor   *)
(* on, and ids are never taken back, so that the pages read so far hold    *)
(* all rows before the cursor that were there when the first was read.     *)
(***************************************************************************)
EXTENDS Checkout, TableTheorems, TLAPS

Statuses == {"pending", "locked", "inProgress"} \cup Final
Row == [merchant: {Merchant}, order: Orders \cup {FromLink}, price: Int, link: {0} \cup LinkIds,
        status: Statuses, customer: Nat, method: Tickers \cup {None}]
Customer == [merchant: Merchants,
             email: Emails \cup {FirstCustomers[c].email : c \in DOMAIN FirstCustomers}]
Link == [state: {"none", "live", "deleted"}, type: {"payment", "donation"}, price: Int]

OurCustomer(c) == c \in DOMAIN customers /\ customers[c].merchant = Merchant

\* What was locked is complete, and a customer is one of ours.
RowOK(x) ==
    /\ x.status \notin {"pending", "failed"} => x.customer # 0 /\ x.method # None
    /\ x.customer # 0 => OurCustomer(x.customer)

TablesOK ==
    /\ payments \in Seq(Row) /\ Len(payments) <= MaxPayments
    /\ customers \in Seq(Customer) /\ Len(customers) <= MaxCustomers /\ links \in [LinkIds -> Link]
    /\ OnePaymentPerOrder
    /\ \A p \in DOMAIN payments : RowOK(payments[p])

ReqOK(l) ==
    /\ DOMAIN l = DOMAIN Served
    /\ l.pc = "create" => l.order \in Orders \cup {FromLink} /\ l.price \in Int /\ l.link \in {0} \cup LinkIds
    /\ l.pc \in {"customer", "insert", "assign", "method", "lock", "locked"} => l.payment \in DOMAIN payments
    /\ l.pc = "insert" => l.email \in Emails
    /\ l.pc = "assign" => OurCustomer(l.customer)
    /\ l.pc = "locked" => payments[l.payment].customer # 0 /\ payments[l.payment].method # None
ReqsOK == req = [r \in Requests |-> req[r]] /\ \A r \in Requests : ReqOK(req[r])

\* The final status of a payment was told, is being told, or is known to be lost.
Told(p) ==
    \/ payments[p].status \notin Final \/ p \in missed \/ events[p] > 0
    \/ \E c \in Consumers : consumer[c].payment = p /\ consumer[c].status = payments[p].status
    \/ payments[p].status \in reported[p]
BusOK ==
    /\ events \in [PaymentIds -> Nat] /\ consumer = [c \in Consumers |-> consumer[c]]
    /\ reported = [p \in PaymentIds |-> reported[p]]
    /\ \A p \in DOMAIN payments : Told(p)

Inv == TablesOK /\ ReqsOK /\ BusOK

\* Rows stay, options that were set stay set, and customers their merchant's.
Grows ==
    /\ \A p \in DOMAIN payments : /\ p \in DOMAIN payments'
                                  /\ payments[p].customer # 0 => payments'[p].customer # 0
                                  /\ payments[p].method # None => payments'[p].method # None
    /\ \A c \in DOMAIN customers : c \in DOMAIN customers' /\ customers'[c].merchant = customers[c].merchant

USE CheckoutAssumption

-----------------------------------------------------------------------------
(* Requests *)

LEMMA ReqKept ==
    ASSUME Grows, NEW l, ReqOK(l)
    PROVE  ReqOK(l)'
  BY DEF Grows, ReqOK, OurCustomer

LEMMA SameRows ==
    ASSUME UNCHANGED <<payments, customers>>
    PROVE  Grows
  BY DEF Grows

LEMMA ReqMoves ==
    ASSUME Inv, Grows, NEW r \in Requests, NEW l, req' = [req EXCEPT ![r] = l], ReqOK(l)'
    PROVE  ReqsOK'
  <1>1. req' = [q \in Requests |-> req'[q]] /\ req'[r] = l /\ \A q \in Requests : q # r => req'[q] = req[q]
    BY DEF Inv, ReqsOK
  <1>2. ASSUME NEW q \in Requests
        PROVE  ReqOK(req[q])'
    <2>1. CASE q = r
      BY <1>1, <2>1 DEF ReqOK, OurCustomer
    <2>2. CASE q # r
      <3>1. PICK k : k = req[q] /\ ReqOK(k)
        BY DEF Inv, ReqsOK
      <3>2. ReqOK(k)' /\ req'[q] = k
        BY <1>1, <2>2, <3>1, ReqKept
      <3> QED
        BY <3>2 DEF ReqOK, OurCustomer
    <2> QED
      BY <2>1, <2>2
  <1> QED
    BY <1>1, <1>2 DEF ReqsOK

LEMMA Answered ==
    ASSUME Inv, Grows, NEW r \in Requests, Respond(r)
    PROVE  ReqsOK'
  <1>1. ReqOK(Served)'
    BY DEF ReqOK, Served
  <1> QED
    BY <1>1, ReqMoves DEF Respond

LEMMA Untouched ==
    ASSUME Inv
    PROVE  /\ UNCHANGED tables => TablesOK'
           /\ UNCHANGED req /\ Grows => ReqsOK'
           /\ UNCHANGED <<payments, bus>> => BusOK'
  <1>1. UNCHANGED tables => TablesOK'
    BY DEF Inv, TablesOK, RowOK, OurCustomer, OnePaymentPerOrder, Rows, tables
  <1>2. UNCHANGED req /\ Grows => ReqsOK'
    BY ReqKept DEF Inv, ReqsOK
  <1>3. UNCHANGED <<payments, bus>> => BusOK'
    BY DEF Inv, BusOK, Told, bus
  <1> QED
    BY <1>1, <1>2, <1>3

\* A step that only moves a request.
LEMMA RequestStep ==
    ASSUME Inv, NEW r \in Requests, NEW l, req' = [req EXCEPT ![r] = l], ReqOK(l), UNCHANGED <<tables, bus>>
    PROVE  Inv'
  <1>1. Grows /\ UNCHANGED payments
    BY SameRows DEF tables
  <1> QED
    BY <1>1, ReqKept, ReqMoves, Untouched DEF Inv

LEMMA AnswerStep ==
    ASSUME Inv, NEW r \in Requests, Respond(r), UNCHANGED <<tables, bus>>
    PROVE  Inv'
  <1>1. ReqOK(Served)
    BY DEF ReqOK, Served
  <1> QED
    BY <1>1, RequestStep DEF Respond

LEMMA CheckOrderStep ==
    ASSUME Inv, NEW r \in Requests, NEW o \in Orders, NEW a \in Prices, CheckOrder(r, o, a)
    PROVE  Inv'
  <1> DEFINE l == [Served EXCEPT !.pc = "create", !.order = o, !.price = a]
  <1>1. req' = [req EXCEPT ![r] = l] /\ UNCHANGED <<tables, bus>>
    BY DEF CheckOrder
  <1>2. ReqOK(l)
    BY DEF ReqOK, Served
  <1> HIDE DEF l
  <1> QED
    BY <1>1, <1>2, RequestStep

LEMMA UseLinkStep ==
    ASSUME Inv, NEW r \in Requests, NEW k \in LinkIds, NEW price \in Prices, UseLink(r, k, price)
    PROVE  Inv'
  <1>1. PICK i \in LinkIds : CreatePaymentFromLink(r, i, price)
    BY DEF UseLink, GetPaymentLinkBySlug
  <1>2. PICK a \in linkPaymentAmount(i, price) :
          req' = [req EXCEPT ![r] = [Served EXCEPT !.pc = "create", !.order = FromLink, !.price = a, !.link = i]]
    BY <1>1 DEF CreatePaymentFromLink
  <1> DEFINE l == [Served EXCEPT !.pc = "create", !.order = FromLink, !.price = a, !.link = i]
  <1>3. a \in Int
    BY DEF linkPaymentAmount, Inv, TablesOK, Link
  <1>4. ReqOK(l)
    BY <1>3 DEF ReqOK, Served
  <1>5. req' = [req EXCEPT ![r] = l] /\ UNCHANGED <<tables, bus>>
    BY <1>2 DEF UseLink
  <1> HIDE DEF l
  <1> QED
    BY <1>4, <1>5, RequestStep

LEMMA ResolvesPaymentStep ==
    ASSUME Inv, NEW r \in Requests, NEW p, NEW pc \in {"customer", "method", "lock"}, ResolvesPayment(r, p, pc)
    PROVE  Inv'
  <1>1. PICK i \in DOMAIN payments :
          req' = [req EXCEPT ![r] = [Served EXCEPT !.pc = pc, !.payment = i, !.status = payments[i].status]]
    BY DEF ResolvesPayment, GetPaymentByPublicID, Rows
  <1> DEFINE l == [Served EXCEPT !.pc = pc, !.payment = i, !.status = payments[i].status]
  <1>2. ReqOK(l)
    BY <1>1 DEF ReqOK, Served
  <1>3. req' = [req EXCEPT ![r] = l] /\ UNCHANGED <<tables, bus>>
    BY <1>1 DEF ResolvesPayment
  <1> HIDE DEF l
  <1> QED
    BY <1>2, <1>3, RequestStep

LEMMA ResolveCustomerStep ==
    ASSUME Inv, NEW r \in Requests, NEW e \in Emails, ResolveCustomerByEmail(r, e)
    PROVE  Inv'
  <1>1. ReqOK(req[r]) /\ In(r, "customer") /\ UNCHANGED <<tables, bus>>
    BY DEF ResolveCustomerByEmail, Inv, ReqsOK, tables
  <1>2. payments[req[r].payment].merchant = Merchant
    <2>1. req[r].payment \in DOMAIN payments
      BY <1>1 DEF ReqOK, In
    <2>2. payments[req[r].payment] \in Row
      BY <2>1 DEF Inv, TablesOK
    <2> QED
      BY <2>2 DEF Row
  <1>3. ASSUME NEW c \in GetCustomerByEmail(Merchant, e),
               req' = [req EXCEPT ![r].pc = "assign", ![r].customer = c]
        PROVE  Inv'
    <2> DEFINE l == [req[r] EXCEPT !.pc = "assign", !.customer = c]
    <2>1. req' = [req EXCEPT ![r] = l]
      BY <1>3
    <2>2. ReqOK(l)
      BY <1>1 DEF ReqOK, Served, In, GetCustomerByEmail, OurCustomer
    <2> HIDE DEF l
    <2> QED
      BY <1>1, <2>1, <2>2, RequestStep
  <1>4. CASE req' = [req EXCEPT ![r].pc = "insert", ![r].email = e]
    <2> DEFINE l == [req[r] EXCEPT !.pc = "insert", !.email = e]
    <2>1. req' = [req EXCEPT ![r] = l]
      BY <1>4
    <2>2. ReqOK(l)
      BY <1>1 DEF ReqOK, Served, In
    <2> HIDE DEF l
    <2> QED
      BY <1>1, <2>1, <2>2, RequestStep
  <1> QED
    BY <1>2, <1>3, <1>4 DEF ResolveCustomerByEmail

LEMMA LockStep ==
    ASSUME Inv, NEW r \in Requests, LockPaymentOptions(r)
    PROVE  Inv'
  <1>1. ReqOK(req[r]) /\ In(r, "lock") /\ UNCHANGED <<tables, bus>>
    BY DEF LockPaymentOptions, Inv, ReqsOK
  <1>2. CASE Respond(r)
    BY <1>1, <1>2, AnswerStep
  <1>3. CASE ~Respond(r)
    <2> DEFINE l == [req[r] EXCEPT !.pc = "locked"]
    <2>1. PICK d \in GetDetailedPayment(req[r].payment) :
            OptionsFulfilled(d) /\ req' = [req EXCEPT ![r] = l]
      BY <1>3 DEF LockPaymentOptions
    <2>2. payments[req[r].payment].customer # 0 /\ payments[req[r].payment].method # None
      BY <2>1 DEF GetDetailedPayment, GetPaymentByID, OptionsFulfilled
    <2>3. ReqOK(l)
      BY <1>1, <2>2 DEF ReqOK, Served, In
    <2> HIDE DEF l
    <2> QED
      BY <1>1, <2>1, <2>3, RequestStep
  <1> QED
    BY <1>2, <1>3

-----------------------------------------------------------------------------
(* Rows of the tables *)

\* A row of payments changes.
LEMMA PaymentChanges ==
    ASSUME Inv, NEW p \in DOMAIN payments, NEW x \in Row, payments' = [payments EXCEPT ![p] = x],
           RowOK(x), x.order = payments[p].order, UNCHANGED <<links, customers>>,
           payments[p].customer # 0 => x.customer # 0, payments[p].method # None => x.method # None
    PROVE  /\ TablesOK' /\ Grows /\ DOMAIN payments' = DOMAIN payments /\ payments'[p] = x
           /\ \A q \in DOMAIN payments : q # p => payments'[q] = payments[q]
  <1>1. payments \in Seq(Row)
    BY DEF Inv, TablesOK
  <1>2. /\ payments' \in Seq(Row) /\ Len(payments') = Len(payments)
        /\ DOMAIN payments' = DOMAIN payments /\ payments'[p] = x
        /\ \A q \in DOMAIN payments : q # p => payments'[q] = payments[q]
    BY <1>1
  <1>3. \A q \in DOMAIN payments' : RowOK(payments[q])'
    BY <1>2 DEF Inv, TablesOK, RowOK, OurCustomer
  <1>4. OnePaymentPerOrder'
    BY <1>2 DEF Inv, TablesOK, OnePaymentPerOrder, Rows
  <1>5. Grows
    BY <1>2 DEF Grows
  <1> QED
    BY <1>2, <1>3, <1>4, <1>5 DEF Inv, TablesOK

\* Whoever changes an option of a payment leaves its status alone.
LEMMA OptionStep ==
    ASSUME Inv, NEW r \in Requests, NEW p \in DOMAIN payments, NEW x \in Row,
           payments' = [payments EXCEPT ![p] = x], RowOK(x),
           x.order = payments[p].order, x.status = payments[p].status, UNCHANGED <<links, customers, bus>>,
           payments[p].customer # 0 => x.customer # 0, payments[p].method # None => x.method # None,
           Respond(r)
    PROVE  Inv'
  <1>1. /\ TablesOK' /\ Grows /\ DOMAIN payments' = DOMAIN payments /\ payments'[p] = x
        /\ \A q \in DOMAIN payments : q # p => payments'[q] = payments[q]
    BY PaymentChanges
  <1>2. ASSUME NEW q \in DOMAIN payments
        PROVE  Told(q)'
    <2>1. Told(q) /\ payments'[q].status = payments[q].status
      BY <1>1 DEF Inv, BusOK
    <2> QED
      BY <2>1 DEF Told, bus
  <1>3. BusOK'
    BY <1>1, <1>2 DEF Inv, BusOK, bus
  <1> QED
    BY <1>1, <1>3, Answered DEF Inv

LEMMA AssignStep ==
    ASSUME Inv, NEW r \in Requests, AssignCustomer(r)
    PROVE  Inv'
  <1>1. PICK p \in DOMAIN payments, c \in DOMAIN customers :
          p = req[r].payment /\ c = req[r].customer /\ OurCustomer(c)
    BY DEF AssignCustomer, Inv, ReqsOK, ReqOK, In, OurCustomer
  <1> DEFINE x == [payments[p] EXCEPT !.customer = c]
  <1>2. payments' = [payments EXCEPT ![p] = x] /\ UNCHANGED <<links, customers, bus>> /\ Respond(r)
    BY <1>1 DEF AssignCustomer, UpdatePaymentCustomerID
  <1>3. payments[p] \in Row /\ RowOK(payments[p]) /\ c \in Nat \ {0}
    BY DEF Inv, TablesOK
  <1>4. /\ x \in Row /\ x.customer = c /\ x.method = payments[p].method
        /\ x.order = payments[p].order /\ x.status = payments[p].status
    BY <1>3 DEF Row
  <1> HIDE DEF x
  <1>5. RowOK(x)
    BY <1>1, <1>3, <1>4 DEF RowOK
  <1> QED
    BY <1>2, <1>3, <1>4, <1>5, OptionStep

LEMMA MethodStep ==
    ASSUME Inv, NEW r \in Requests, NEW k \in Tickers, SetPaymentMethod(r, k)
    PROVE  Inv'
  <1>1. PICK p \in DOMAIN payments : p = req[r].payment
    BY DEF SetPaymentMethod, Inv, ReqsOK, ReqOK, In
  <1> DEFINE x == [payments[p] EXCEPT !.method = k]
  <1>2. payments' = [payments EXCEPT ![p] = x] /\ UNCHANGED <<links, customers, bus>> /\ Respond(r)
    BY <1>1 DEF SetPaymentMethod
  <1>3. payments[p] \in Row /\ RowOK(payments[p]) /\ k # None
    BY DEF Inv, TablesOK
  <1>4. /\ x \in Row /\ x.customer = payments[p].customer /\ x.method = k
        /\ x.order = payments[p].order /\ x.status = payments[p].status
    BY <1>3 DEF Row
  <1> HIDE DEF x
  <1>5. RowOK(x)
    BY <1>3, <1>4 DEF RowOK
  <1> QED
    BY <1>2, <1>3, <1>4, <1>5, OptionStep

\* A status is written and published.
LEMMA StatusStep ==
    ASSUME Inv, NEW p \in DOMAIN payments, NEW s \in Statuses, UpdatePayment(p, s), Publish(p),
           s \notin {"pending", "failed"} => payments[p].customer # 0 /\ payments[p].method # None,
           UNCHANGED <<links, customers, consumer, reported, missed>>
    PROVE  TablesOK' /\ BusOK' /\ Grows
  <1> DEFINE x == [payments[p] EXCEPT !.status = s]
  <1>1. payments' = [payments EXCEPT ![p] = x]
    BY DEF UpdatePayment
  <1>2. payments[p] \in Row /\ RowOK(payments[p]) /\ p \in PaymentIds
    BY DEF Inv, TablesOK, PaymentIds
  <1>3. /\ x \in Row /\ x.customer = payments[p].customer /\ x.method = payments[p].method
        /\ x.order = payments[p].order /\ x.status = s
    BY <1>2 DEF Row
  <1> HIDE DEF x
  <1>4. RowOK(x)
    BY <1>2, <1>3 DEF RowOK
  <1>5. /\ TablesOK' /\ Grows /\ DOMAIN payments' = DOMAIN payments /\ payments'[p] = x
        /\ \A q \in DOMAIN payments : q # p => payments'[q] = payments[q]
    BY <1>1, <1>2, <1>3, <1>4, PaymentChanges
  <1>6. /\ events' \in [PaymentIds -> Nat] /\ events'[p] > 0
        /\ \A q \in PaymentIds : q # p => events'[q] = events[q]
    BY <1>2 DEF Inv, BusOK, Publish
  <1>7. DOMAIN payments \subseteq PaymentIds
    BY DEF Inv, TablesOK, PaymentIds
  <1>8. \A q \in DOMAIN payments : Told(q)'
    BY <1>5, <1>6, <1>7 DEF Inv, BusOK, Told
  <1>9. BusOK'
    BY <1>5, <1>6, <1>8 DEF Inv, BusOK
  <1> QED
    BY <1>5, <1>9

LEMMA UpdateLockedStep ==
    ASSUME Inv, NEW r \in Requests, UpdateLocked(r)
    PROVE  Inv'
  <1>1. PICK p \in DOMAIN payments :
          p = req[r].payment /\ payments[p].customer # 0 /\ payments[p].method # None
    BY DEF UpdateLocked, Inv, ReqsOK, ReqOK, In
  <1>2. Respond(r) /\ UNCHANGED <<links, customers, consumer, reported, missed>>
    BY DEF UpdateLocked
  <1>3. CASE UpdatePayment(p, "locked") /\ Publish(p)
    BY <1>1, <1>2, <1>3, StatusStep, Answered DEF Inv, Statuses
  <1>4. CASE UNCHANGED <<payments, events>>
    BY <1>2, <1>4, AnswerStep DEF tables, bus
  <1> QED
    BY <1>1, <1>3, <1>4 DEF UpdateLocked

LEMMA UpdateStep ==
    ASSUME Inv, NEW p \in PaymentIds, NEW s \in {"inProgress", "success", "failed"}, Update(p, s)
    PROVE  Inv'
  <1>1. /\ p \in DOMAIN payments /\ s \in Follows(payments[p].status) /\ UpdatePayment(p, s) /\ Publish(p)
        /\ UNCHANGED <<links, customers, req, consumer, reported, missed>>
    BY DEF Update, Rows
  <1>2. payments[p] \in Row /\ RowOK(payments[p])
    BY <1>1 DEF Inv, TablesOK
  <1>3. s \notin {"pending", "failed"} => payments[p].status \notin {"pending", "failed"}
    BY <1>1, <1>2 DEF Follows, Row, Statuses, Final
  <1>4. TablesOK' /\ BusOK' /\ Grows
    BY <1>1, <1>2, <1>3, StatusStep DEF RowOK, Statuses, Final
  <1> QED
    BY <1>1, <1>4, Untouched DEF Inv

LEMMA CreatePaymentStep ==
    ASSUME Inv, NEW r \in Requests, CreatePayment(r)
    PROVE  Inv'
  <1>1. /\ In(r, "create") /\ ReqOK(req[r]) /\ Len(payments) < MaxPayments /\ Respond(r)
        /\ UNCHANGED <<links, customers, bus>>
    BY DEF CreatePayment, Inv, ReqsOK
  <1>2. CASE UNCHANGED payments
    BY <1>1, <1>2, AnswerStep DEF tables
  <1>3. CASE ~OrderTaken(Merchant, req[r].order) /\ InsertPayment(req[r].order, req[r].price, req[r].link)
    <2> DEFINE x == [merchant |-> Merchant, order |-> req[r].order, price |-> req[r].price,
                     link |-> req[r].link, status |-> "pending", customer |-> 0, method |-> None]
    <2>1. payments' = Append(payments, x)
      BY <1>3 DEF InsertPayment
    <2>2. /\ x \in Row /\ RowOK(x) /\ x.status \notin Final /\ x.order = req[r].order
      BY <1>1 DEF ReqOK, In, Row, RowOK, Statuses, Final
    <2> HIDE DEF x
    <2>3. /\ payments \in Seq(Row) /\ Len(payments) \in Nat /\ DOMAIN payments = 1..Len(payments)
      BY DEF Inv, TablesOK
    <2>4. /\ payments' \in Seq(Row) /\ Len(payments') = Len(payments) + 1
          /\ \A q \in DOMAIN payments : payments'[q] = payments[q]
          /\ payments'[Len(payments) + 1] = x
          /\ DOMAIN payments' = DOMAIN payments \cup {Len(payments) + 1}
      BY <2>1, <2>2, <2>3
    <2>5. Grows
      BY <1>1, <2>4 DEF Grows
    <2>6. \A q \in DOMAIN payments' : RowOK(payments[q])'
      BY <1>1, <2>2, <2>4 DEF Inv, TablesOK, RowOK, OurCustomer
    <2>7. x.order \in Orders => \A q \in DOMAIN payments : payments[q].order # x.order
      <3>1. \A q \in DOMAIN payments : payments[q].merchant = Merchant
        <4>1. \A q \in DOMAIN payments : payments[q] \in Row
          BY <2>3
        <4> QED
          BY <4>1 DEF Row
      <3>2. ASSUME req[r].order \in Orders, NEW q \in DOMAIN payments, payments[q].order = req[r].order
            PROVE  FALSE
        <4>1. q \in GetPaymentByMerchantIDAndOrderUUID(Merchant, req[r].order)
          BY <3>1, <3>2 DEF GetPaymentByMerchantIDAndOrderUUID, Rows
        <4> QED
          BY <1>3, <4>1 DEF OrderTaken
      <3> QED
        BY <2>2, <3>2
    <2>8. OnePaymentPerOrder'
      BY <2>4, <2>7 DEF Inv, TablesOK, OnePaymentPerOrder, Rows
    <2>9. TablesOK'
      BY <1>1, <2>3, <2>4, <2>6, <2>8 DEF Inv, TablesOK
    <2>10. \A q \in DOMAIN payments' : Told(q)'
      BY <1>1, <2>2, <2>4 DEF Inv, BusOK, Told, bus
    <2>11. BusOK'
      BY <1>1, <2>10 DEF Inv, BusOK, bus
    <2> QED
      BY <1>1, <2>5, <2>9, <2>11, Answered DEF Inv
  <1> QED
    BY <1>2, <1>3 DEF CreatePayment

LEMMA CreateCustomerStep ==
    ASSUME Inv, NEW r \in Requests, CreateCustomer(r)
    PROVE  Inv'
  <1>1. /\ In(r, "insert") /\ ReqOK(req[r]) /\ UNCHANGED <<links, payments, bus>>
    BY DEF CreateCustomer, Inv, ReqsOK
  <1>2. PICK c, l : c = Len(customers) + 1 /\ l = [req[r] EXCEPT !.pc = "assign", !.customer = c]
    OBVIOUS
  <1> DEFINE x == [merchant |-> Merchant, email |-> req[r].email]
  <1>3. req' = [req EXCEPT ![r] = l] /\ customers' = Append(customers, x)
    BY <1>2 DEF CreateCustomer, InsertCustomer
  <1>4. x \in Customer /\ x.merchant = Merchant
    BY <1>1 DEF Customer, ReqOK, In
  <1> HIDE DEF x
  <1>5. /\ customers' \in Seq(Customer) /\ c \in DOMAIN customers' /\ customers'[c].merchant = Merchant
        /\ \A i \in DOMAIN customers : i \in DOMAIN customers' /\ customers'[i] = customers[i]
    BY <1>2, <1>3, <1>4 DEF Inv, TablesOK
  <1>6. Grows
    BY <1>1, <1>5 DEF Grows
  <1>7. ReqOK(l)'
    BY <1>1, <1>2, <1>5 DEF ReqOK, Served, In, OurCustomer
  <1>8. ReqsOK'
    BY <1>3, <1>6, <1>7, ReqMoves
  <1>9. TablesOK'
    <2>1. Len(customers') <= MaxCustomers
      BY <1>3 DEF CreateCustomer, Inv, TablesOK
    <2> QED
      BY <1>1, <1>5, <2>1 DEF Inv, TablesOK, RowOK, OurCustomer, OnePaymentPerOrder, Rows
  <1> QED
    BY <1>1, <1>8, <1>9, Untouched DEF Inv

-----------------------------------------------------------------------------
(* Links, the event bus and the rest *)

LEMMA LinkStep ==
    ASSUME Inv, NEW l \in LinkIds,
           \/ DeletePaymentLink(l)
           \/ \E t \in {"payment", "donation"}, a \in Prices : CreatePaymentLink(l, t, a)
    PROVE  Inv'
  <1>1. UNCHANGED <<payments, customers, req, bus>>
    BY DEF DeletePaymentLink, CreatePaymentLink
  <1>2. links' \in [LinkIds -> Link]
    <2>1. links \in [LinkIds -> Link]
      BY DEF Inv, TablesOK
    <2>2. CASE DeletePaymentLink(l)
      BY <2>1, <2>2 DEF DeletePaymentLink, DeletePaymentLinkByPublicID, RemovePaymentLink, Link
    <2>3. ASSUME NEW t \in {"payment", "donation"}, NEW a \in Prices, CreatePaymentLink(l, t, a)
          PROVE  links' \in [LinkIds -> Link]
      BY <2>1, <2>3 DEF CreatePaymentLink, InsertPaymentLink, Link
    <2> QED
      BY <2>2, <2>3
  <1>3. TablesOK'
    BY <1>1, <1>2 DEF Inv, TablesOK, RowOK, OurCustomer, OnePaymentPerOrder, Rows
  <1> QED
    BY <1>1, <1>3, SameRows, Untouched DEF Inv

\* A final status is read as it is now and not omitted: a consumer tells it, or it is lost.
LEMMA ConsumeStep ==
    ASSUME Inv, NEW c \in Consumers, NEW p \in PaymentIds, ProcessPaymentStatusUpdate(c, p)
    PROVE  Inv'
  <1>1. PICK s : s = payments[p].status
    OBVIOUS
  <1>2. /\ UNCHANGED <<tables, req, reported>> /\ events[p] > 0 /\ consumer[c] = NoEvent
        /\ events' = [events EXCEPT ![p] = @ - 1] /\ p \in DOMAIN payments
    BY DEF ProcessPaymentStatusUpdate, Rows
  <1>3. /\ \/ consumer' = [consumer EXCEPT ![c] = [payment |-> p, status |-> s]]
           \/ consumer' = consumer /\ s = "locked"
           \/ consumer' = consumer /\ p \in missed'
        /\ missed \subseteq missed'
    BY <1>1 DEF ProcessPaymentStatusUpdate, Omitted
  <1>4. /\ consumer' = [d \in Consumers |-> consumer'[d]]
        /\ \A d \in Consumers : consumer'[d] = consumer[d] \/ consumer[d] = NoEvent
        /\ \/ consumer'[c].payment = p /\ consumer'[c].status = s
           \/ s = "locked" \/ p \in missed'
    BY <1>2, <1>3 DEF Inv, BusOK
  <1>5. /\ events' \in [PaymentIds -> Nat]
        /\ \A q \in PaymentIds : q # p => events'[q] = events[q]
    BY <1>2 DEF Inv, BusOK
  <1>6. DOMAIN payments \subseteq PaymentIds \ {0} /\ NoEvent.payment = 0
    BY DEF Inv, TablesOK, PaymentIds, NoEvent
  <1>7. ASSUME NEW q \in DOMAIN payments
        PROVE  Told(q)'
    <2>1. payments' = payments /\ UNCHANGED reported
      BY <1>2 DEF tables
    <2>2. CASE q = p
      BY <2>1, <2>2, <1>1, <1>4 DEF Told, Final
    <2>3. CASE q # p
      <3>1. \A d \in Consumers : consumer[d].payment = q => consumer'[d] = consumer[d]
        BY <1>4, <1>6
      <3>2. Told(q) /\ events'[q] = events[q]
        BY <1>5, <1>6, <2>3 DEF Inv, BusOK
      <3> QED
        BY <2>1, <3>1, <3>2, <1>3 DEF Told
    <2> QED
      BY <2>2, <2>3
  <1>8. BusOK'
    BY <1>2, <1>4, <1>5, <1>7 DEF Inv, BusOK, tables
  <1> QED
    BY <1>2, <1>8, SameRows, Untouched DEF Inv, tables

LEMMA SendStep ==
    ASSUME Inv, NEW c \in Consumers, SendWebhook(c)
    PROVE  Inv'
  <1>1. UNCHANGED <<tables, req, events>> /\ consumer' = [consumer EXCEPT ![c] = NoEvent]
    BY DEF SendWebhook, Done
  <1>2. /\ consumer' = [d \in Consumers |-> consumer'[d]]
        /\ \A d \in Consumers : d # c => consumer'[d] = consumer[d]
    BY <1>1 DEF Inv, BusOK
  <1>3. /\ reported' = [p \in PaymentIds |-> reported'[p]]
        /\ \A p \in PaymentIds : reported[p] \subseteq reported'[p]
        /\ missed \subseteq missed'
        /\ consumer[c].payment \in PaymentIds =>
             \/ consumer[c].payment \in missed'
             \/ consumer[c].status \in reported'[consumer[c].payment]
    BY DEF SendWebhook, Inv, BusOK
  <1>4. DOMAIN payments \subseteq PaymentIds
    BY DEF Inv, TablesOK, PaymentIds
  <1>5. ASSUME NEW q \in DOMAIN payments
        PROVE  Told(q)'
    <2>1. Told(q) /\ q \in PaymentIds /\ payments' = payments /\ events' = events
      BY <1>1, <1>4 DEF Inv, BusOK, tables
    <2>2. CASE consumer[c].payment = q /\ consumer[c].status = payments[q].status
      BY <2>1, <2>2, <1>3 DEF Told
    <2>3. CASE \E d \in Consumers \ {c} : consumer[d].payment = q /\ consumer[d].status = payments[q].status
      BY <2>1, <2>3, <1>2 DEF Told
    <2>4. CASE \/ payments[q].status \notin Final \/ q \in missed \/ events[q] > 0
               \/ payments[q].status \in reported[q]
      BY <2>1, <2>4, <1>3 DEF Told
    <2> QED
      BY <2>1, <2>2, <2>3, <2>4 DEF Told
  <1>6. BusOK'
    BY <1>1, <1>2, <1>3, <1>5 DEF Inv, BusOK, tables
  <1> QED
    BY <1>1, <1>6, SameRows, Untouched DEF Inv, tables

LEMMA CrashStep ==
    ASSUME Inv, Crash
    PROVE  Inv'
  <1>1. /\ UNCHANGED <<tables, reported>> /\ req' = [r \in Requests |-> Served]
        /\ events' = [p \in PaymentIds |-> 0] /\ consumer' = [c \in Consumers |-> NoEvent]
        /\ missed' = missed \cup {p \in PaymentIds : events[p] > 0}
                            \cup ({consumer[c].payment : c \in Consumers} \ {0})
    BY DEF Crash
  <1>2. ReqOK(Served)'
    BY DEF ReqOK, Served
  <1>3. ReqsOK'
    BY <1>1, <1>2 DEF ReqsOK
  <1>4. DOMAIN payments \subseteq PaymentIds \ {0}
    BY DEF Inv, TablesOK, PaymentIds
  <1>5. ASSUME NEW q \in DOMAIN payments
        PROVE  Told(q)'
    <2>1. Told(q) /\ q \in PaymentIds \ {0} /\ payments' = payments /\ reported' = reported
      BY <1>1, <1>4 DEF Inv, BusOK, tables
    <2>2. CASE \E c \in Consumers : consumer[c].payment = q
      BY <2>1, <2>2, <1>1 DEF Told
    <2>3. CASE events[q] > 0
      BY <2>1, <2>3, <1>1 DEF Told
    <2> QED
      BY <2>1, <2>2, <2>3, <1>1 DEF Told
  <1>6. BusOK'
    BY <1>1, <1>5 DEF Inv, BusOK, tables
  <1> QED
    BY <1>1, <1>3, <1>6, Untouched DEF Inv

-----------------------------------------------------------------------------
LEMMA InitInv == Init => Inv
  <1> SUFFICES ASSUME Init PROVE Inv
    OBVIOUS
  <1>1. TablesOK
    <2>1. payments = <<>> /\ customers = FirstCustomers
      BY DEF Init
    <2>2. payments \in Seq(Row) /\ Len(payments) = 0 /\ DOMAIN payments = {}
      BY <2>1
    <2>3. links \in [LinkIds -> Link]
      BY DEF Init, NoLink, Link
    <2> QED
      BY <2>1, <2>2, <2>3 DEF TablesOK, OnePaymentPerOrder, Rows, Customer
  <1>2. ReqOK(Served)
    BY DEF ReqOK, Served
  <1>3. ReqsOK
    BY <1>2 DEF Init, ReqsOK
  <1>4. BusOK
    BY DEF Init, BusOK
  <1> QED
    BY <1>1, <1>3, <1>4 DEF Inv

LEMMA NextInv == Inv /\ [Next]_vars => Inv'
  <1> SUFFICES ASSUME Inv, [Next]_vars
               PROVE  Inv'
    OBVIOUS
  <1>1. CASE UNCHANGED <<tables, req, bus>>
    BY <1>1, SameRows, Untouched DEF Inv, tables
  <1>2. ASSUME NEW r \in Requests, NEW p \in PaymentIds,
               HandleCreateCustomer(r, p) \/ HandleCreatePaymentMethod(r, p) \/ HandleLockPaymentOptions(r, p)
        PROVE  Inv'
    BY <1>2, ResolvesPaymentStep DEF HandleCreateCustomer, HandleCreatePaymentMethod, HandleLockPaymentOptions
  <1>3. ASSUME NEW r \in Requests, Fail(r)
        PROVE  Inv'
    BY <1>3, AnswerStep DEF Fail
  <1>4. ASSUME NEW asc \in BOOLEAN, HandleListPayments(asc) \/ HandleListCustomers(asc)
        PROVE  Inv'
    <2>1. UNCHANGED <<tables, req, bus>>
      BY <1>4 DEF HandleListPayments, HandleListCustomers, Browse
    <2> QED
      BY <1>1, <2>1
  <1>5. CASE DeleteMerchant \/ UNCHANGED vars
    BY <1>1, <1>5 DEF DeleteMerchant, vars
  <1> QED
    BY <1>2, <1>3, <1>4, <1>5, LinkStep, CheckOrderStep, UseLinkStep, CreatePaymentStep, CreateCustomerStep,
       AssignStep, LockStep, UpdateLockedStep, ResolveCustomerStep, MethodStep, UpdateStep, SendStep,
       ConsumeStep, CrashStep
       DEF Next

\* What the tables, the requests being served and the event bus keep, in every reachable
\* state.
THEOREM InductiveInvariant == Spec => []Inv
  BY InitInv, NextInv, PTL DEF Spec

\* The unique index, not the look-up before it, keeps an order to one payment.
THEOREM OrdersArePaidOnce == Spec => []OnePaymentPerOrder
  <1>1. Inv => OnePaymentPerOrder
    BY DEF Inv, TablesOK
  <1> QED
    BY <1>1, InductiveInvariant, PTL

\* A payment is locked with a customer and a method only, whatever other requests changed
\* in between, and the payment can be read as long as its merchant is there.
THEOREM LockedPaymentsAreComplete == Spec => []LockedIsComplete
  <1>1. Inv => LockedIsComplete
    <2> SUFFICES ASSUME Inv, NEW p \in DOMAIN payments
                 PROVE  /\ payments[p].status \notin {"pending", "failed"}
                             => payments[p].customer # 0 /\ payments[p].method # None
                        /\ live => GetDetailedPayment(p) # {}
      BY DEF LockedIsComplete, Rows
    <2>1. payments[p] \in Row /\ RowOK(payments[p])
      BY DEF Inv, TablesOK
    <2>2. payments[p].customer # 0 => payments[p].customer \in GetCustomerByID(Merchant, payments[p].customer)
      BY <2>1 DEF RowOK, OurCustomer, GetCustomerByID
    <2>3. p \in GetPaymentByID(Merchant, p)
      BY <2>1 DEF Row, GetPaymentByID, Rows
    <2>4. live => GetDetailedPayment(p) # {}
      BY <2>2, <2>3 DEF GetDetailedPayment
    <2> QED
      BY <2>1, <2>4 DEF RowOK
  <1> QED
    BY <1>1, InductiveInvariant, PTL

\* When no event of a payment is left, the merchant was told its final status, unless an
\* event was lost: with any number of consumers that overtake each other.
THEOREM FinalStatusesAreTold == Spec => []FinalStatusIsReported
  <1>1. Inv => FinalStatusIsReported
    <2> SUFFICES ASSUME Inv, NEW p \in DOMAIN payments, payments[p].status \in Final, p \notin missed,
                        events[p] = 0, \A c \in Consumers : consumer[c].payment # p
                 PROVE  payments[p].status \in reported[p]
      BY DEF FinalStatusIsReported, Rows
    <2>1. Told(p) /\ ~(events[p] > 0)
      BY DEF Inv, BusOK
    <2> QED
      BY <2>1 DEF Told
  <1> QED
    BY <1>1, InductiveInvariant, PTL

-----------------------------------------------------------------------------
(* Listings.  Of the merchant's rows that were there at first, a listing   *)
(* has shown all that are on this side of its cursor; rows are never       *)
(* removed, so that this stays true while they are added.                  *)

\* The rows of a table that the merchant may see.
Listable(row) == {i \in DOMAIN row : row[i].merchant = Merchant}

\* l: a listing that has begun, of the rows of a table.
Shows(l, row) ==
    /\ l.cursor \in Nat /\ l.first \in Nat /\ l.first <= Len(row)
    /\ Sorted(l.seen, l.asc) /\ Elements(l.seen) \subseteq Listable(row)
    /\ l.cursor # 0 => \A i \in Elements(l.seen) : Precedes(i, l.cursor, l.asc)
    /\ \A i \in Listable(row) :
         i <= l.first /\ (l.cursor = 0 \/ Precedes(i, l.cursor, l.asc)) => i \in Elements(l.seen)

Listed == IF pages.of = "customers" THEN customers ELSE payments

PagesOK ==
    pages = NoPages \/ (pages.of \in {"payments", "customers"} /\ pages.asc \in BOOLEAN /\ Shows(pages, Listed))

\* Rows that are added change nothing of what a listing has shown.
LEMMA ShowsStays ==
    ASSUME NEW l, NEW A, NEW B, NEW row \in Seq(A), NEW later \in Seq(B), Shows(l, row),
           \A i \in DOMAIN row : i \in DOMAIN later /\ later[i].merchant = row[i].merchant
    PROVE  Shows(l, later)
  <1>1. PICK m \in Nat, n \in Nat : m = Len(row) /\ n = Len(later) /\ DOMAIN row = 1..m /\ DOMAIN later = 1..n
    OBVIOUS
  <1>2. m <= n
    BY <1>1
  <1>3. l.first \in Nat /\ l.first <= m /\ l.first <= n
    BY <1>1, <1>2 DEF Shows
  <1>4. Listable(row) \subseteq Listable(later)
    BY DEF Listable
  <1>5. \A i \in Listable(later) : i <= l.first => i \in Listable(row)
    BY <1>1, <1>3 DEF Listable
  <1> QED
    BY <1>1, <1>3, <1>4, <1>5 DEF Shows

LEMMA ListableIsFinite ==
    ASSUME NEW A, NEW row \in Seq(A)
    PROVE  Listable(row) \subseteq Nat \ {0} /\ IsFiniteSet(Listable(row)) /\ \A i \in Listable(row) : i <= Len(row)
  <1>1. PICK m \in Nat : m = Len(row) /\ DOMAIN row = 1..m
    OBVIOUS
  <1>2. Listable(row) \in SUBSET (1..m)
    BY <1>1 DEF Listable
  <1>3. IsFiniteSet(1..m)
    BY FS_Interval
  <1>4. IsFiniteSet(Listable(row))
    BY <1>2, <1>3, FS_Subset
  <1> QED
    BY <1>1, <1>2, <1>4

\* One page more: from the cursor on, or from the first row.
LEMMA ShowsMore ==
    ASSUME NEW A, NEW row \in Seq(A), NEW l, NEW asc \in BOOLEAN, NEW begins \in BOOLEAN,
           begins => l = NoPages, ~begins => l.asc = asc /\ l.cursor # 0 /\ Shows(l, row),
           NEW part, NEW next,
           PageOf({i \in Listable(row) : begins \/ i = l.cursor \/ Precedes(l.cursor, i, asc)}, asc, part, next),
           NEW k, k.cursor = next, k.seen = l.seen \o part,
           k.first = IF begins THEN Len(row) ELSE l.first, k.asc = asc
    PROVE  Shows(k, row)
  <1>1. PICK L : L = Listable(row)
    OBVIOUS
  <1>2. L \subseteq Nat /\ 0 \notin L /\ \A i \in L : i <= Len(row)
    BY <1>1, ListableIsFinite
  <1>3. PICK cursor, seen : cursor = l.cursor /\ seen = l.seen
    OBVIOUS
  <1>4. Shown(L, asc, begins, cursor, seen)
    <2>1. CASE begins
      <3>1. seen = <<>> /\ cursor = 0
        BY <1>3, <2>1 DEF NoPages
      <3> QED
        BY <1>2, <3>1, NothingSorted DEF Shown
    <2>2. CASE ~begins
      BY <1>1, <1>2, <1>3, <2>2 DEF Shows, Shown
    <2> QED
      BY <2>1, <2>2
  <1>5. ShownMore(L, asc, begins, cursor, seen, part, next)
    <2>1. PICK S : S = {i \in L : begins \/ i = cursor \/ Precedes(cursor, i, asc)}
      OBVIOUS
    <2>2. PageOf(S, asc, part, next)
      BY <1>1, <1>3, <2>1
    <2> QED
      BY <1>4, <2>1, <2>2, NextPage, Zenon
  <1>6. k.first \in Nat /\ k.first <= Len(row) /\ Len(row) \in Nat
    BY DEF Shows
  <1>7. \A i \in L : ~begins /\ i <= k.first /\ Precedes(i, cursor, asc) => i \in Elements(seen)
    BY <1>1, <1>3 DEF Shows
  <1> QED
    BY <1>1, <1>3, <1>5, <1>6, <1>7 DEF Shows, ShownMore

LEMMA PageIsCut ==
    ASSUME NEW A, NEW row \in Seq(A), NEW ids, ids \subseteq Listable(row), NEW asc \in BOOLEAN,
           NEW page, page = Page(ids, asc),
           NEW part, part = IF Len(page) > PageSize THEN SubSeq(page, 1, Len(page) - 1) ELSE page,
           NEW next, next = IF Len(page) > PageSize THEN page[Len(page)] ELSE 0
    PROVE  PageOf(ids, asc, part, next)
  <1>1. Listable(row) \subseteq Nat \ {0} /\ IsFiniteSet(Listable(row))
    BY ListableIsFinite
  <1>2. ids \subseteq Nat /\ 0 \notin ids /\ IsFiniteSet(ids)
    BY <1>1, FS_Subset
  <1>3. PageSize \in Nat /\ page = InOrder(FirstOf(ids, PageSize + 1, asc), asc)
    BY DEF Page
  <1> QED
    BY <1>2, <1>3, CursorFacts, Zenon

\* The rows that a page is taken from.
From(row, asc) ==
    {i \in Listable(row) : pages = NoPages \/ i = pages.cursor \/ Precedes(pages.cursor, i, asc)}

\* The queries find them: ids are compared with the cursor, which is 0 for none.
LEMMA QueryFinds ==
    ASSUME NEW A, NEW row \in Seq(A), NEW max \in Nat, Len(row) <= max, pages.cursor \in Nat,
           pages = NoPages <=> pages.cursor = 0
    PROVE  /\ {i \in DOMAIN row : row[i].merchant = Merchant /\ i >= pages.cursor} = From(row, TRUE)
           /\ {i \in DOMAIN row : row[i].merchant = Merchant
                                  /\ i <= IF pages.cursor = 0 THEN max ELSE pages.cursor} = From(row, FALSE)
  <1>1. PICK c \in Nat, begins \in BOOLEAN : c = pages.cursor /\ (begins <=> pages = NoPages) /\ (begins <=> c = 0)
    OBVIOUS
  <1>2. PICK m \in Nat : m = Len(row) /\ m <= max
    OBVIOUS
  <1>3. \A i \in Listable(row) : i \in Nat /\ i # 0 /\ i <= m
    BY <1>2, ListableIsFinite
  <1>4. \A i \in Listable(row) : i >= c <=> begins \/ i = c \/ Precedes(c, i, TRUE)
    BY <1>1, <1>3 DEF Precedes
  <1>5. \A i \in Listable(row) : i <= (IF c = 0 THEN max ELSE c) <=> begins \/ i = c \/ Precedes(c, i, FALSE)
    BY <1>1, <1>2, <1>3 DEF Precedes
  <1>6. {i \in Listable(row) : i >= c} = From(row, TRUE)
    BY <1>1, <1>4 DEF From
  <1>7. {i \in Listable(row) : i <= (IF c = 0 THEN max ELSE c)} = From(row, FALSE)
    BY <1>1, <1>5 DEF From
  <1> QED
    BY <1>1, <1>6, <1>7 DEF Listable

LEMMA BrowseStep ==
    ASSUME PagesOK, NEW asc \in BOOLEAN, NEW A, NEW row \in Seq(A), NEW table \in {"payments", "customers"},
           row = IF table = "customers" THEN customers ELSE payments,
           NEW page, page = Page(From(row, asc), asc), Browse(table, Len(row), page, asc)
    PROVE  PagesOK'
  <1> DEFINE begins == pages = NoPages
  <1>1. ~begins => pages.of = table /\ pages.asc = asc /\ pages.cursor # 0 /\ Shows(pages, row)
    BY DEF Browse, PagesOK, Listed
  <1>2. pages' = [of |-> table, cursor |-> IF Len(page) > PageSize THEN nextCursor(page) ELSE 0,
                  seen |-> pages.seen \o (IF Len(page) > PageSize THEN Front(page) ELSE page),
                  first |-> IF begins THEN Len(row) ELSE pages.first, asc |-> asc]
        /\ payments' = payments /\ customers' = customers
    BY DEF Browse, tables
  <1>3. PICK k : k = pages'
    OBVIOUS
  <1>4. /\ k.cursor = (IF Len(page) > PageSize THEN nextCursor(page) ELSE 0)
        /\ k.seen = pages.seen \o (IF Len(page) > PageSize THEN Front(page) ELSE page)
        /\ k.first = (IF begins THEN Len(row) ELSE pages.first) /\ k.asc = asc /\ k.of = table
    BY <1>2, <1>3
  <1>5. begins \in BOOLEAN /\ (begins => pages = NoPages)
    OBVIOUS
  <1>6. PICK ids : ids = From(row, asc)
    OBVIOUS
  <1>7. ids = {i \in Listable(row) : begins \/ i = pages.cursor \/ Precedes(pages.cursor, i, asc)}
    BY <1>6 DEF From
  <1> HIDE DEF begins
  <1>8. Shows(k, row)
    <2>1. PICK part, next : /\ part = IF Len(page) > PageSize THEN SubSeq(page, 1, Len(page) - 1) ELSE page
                            /\ next = IF Len(page) > PageSize THEN page[Len(page)] ELSE 0
      OBVIOUS
    <2>2. k.cursor = next /\ k.seen = pages.seen \o part
      BY <1>4, <2>1 DEF nextCursor, Last, Front
    <2>3. ids \subseteq Listable(row)
      BY <1>7
    <2>4. PageOf(ids, asc, part, next)
      BY <1>6, <2>1, <2>3, PageIsCut, Zenon
    <2>5. PageOf({i \in Listable(row) : begins \/ i = pages.cursor \/ Precedes(pages.cursor, i, asc)}, asc, part, next)
      BY <1>7, <2>4, Zenon
    <2>6. PICK l : l = pages
      OBVIOUS
    <2>7. /\ begins => l = NoPages
          /\ ~begins => l.asc = asc /\ l.cursor # 0 /\ Shows(l, row)
          /\ k.seen = l.seen \o part /\ k.first = (IF begins THEN Len(row) ELSE l.first) /\ k.asc = asc
          /\ PageOf({i \in Listable(row) : begins \/ i = l.cursor \/ Precedes(l.cursor, i, asc)}, asc, part, next)
      BY <1>1, <1>4, <1>5, <2>2, <2>5, <2>6, Zenon
    <2> QED
      BY <1>5, <2>2, <2>7, ShowsMore, Zenon
  <1> QED
    BY <1>2, <1>3, <1>4, <1>8 DEF PagesOK, Listed, Shows

LEMMA CursorIsNull ==
    ASSUME PagesOK
    PROVE  pages.cursor \in Nat /\ (pages = NoPages => pages.cursor = 0)
  BY DEF PagesOK, Shows, NoPages

LEMMA BrowseSteps ==
    ASSUME Inv, PagesOK, NEW asc \in BOOLEAN, HandleListPayments(asc) \/ HandleListCustomers(asc)
    PROVE  PagesOK'
  <1>1. /\ payments \in Seq(Row) /\ Len(payments) <= MaxPayments
        /\ customers \in Seq(Customer) /\ Len(customers) <= MaxCustomers
    BY DEF Inv, TablesOK
  <1>2. pages.cursor \in Nat /\ (pages = NoPages <=> pages.cursor = 0)
    BY CursorIsNull DEF HandleListPayments, HandleListCustomers, Browse
  <1>3. List(pages.cursor, asc) = Page(From(payments, asc), asc)
    <2>1. /\ {i \in DOMAIN payments : payments[i].merchant = Merchant /\ i >= pages.cursor} = From(payments, TRUE)
          /\ {i \in DOMAIN payments : payments[i].merchant = Merchant
                                 /\ i <= IF pages.cursor = 0 THEN MaxPayments ELSE pages.cursor} = From(payments, FALSE)
      BY <1>1, <1>2, QueryFinds
    <2> QED
      BY <2>1 DEF List, PaginatePaymentsAsc, PaginatePaymentsDesc, Rows
  <1>4. ListCustomers(pages.cursor, asc) = Page(From(customers, asc), asc)
    <2>1. /\ {i \in DOMAIN customers : customers[i].merchant = Merchant /\ i >= pages.cursor} = From(customers, TRUE)
          /\ {i \in DOMAIN customers : customers[i].merchant = Merchant
                                 /\ i <= IF pages.cursor = 0 THEN MaxCustomers ELSE pages.cursor} = From(customers, FALSE)
      BY <1>1, <1>2, QueryFinds
    <2> QED
      BY <2>1 DEF ListCustomers, PaginateCustomersAsc, PaginateCustomersDesc
  <1>5. CASE HandleListPayments(asc)
    <2>1. Browse("payments", Len(payments), Page(From(payments, asc), asc), asc)
      BY <1>3, <1>5 DEF HandleListPayments
    <2>2. PICK page : page = Page(From(payments, asc), asc)
      OBVIOUS
    <2> QED
      BY <1>1, <2>1, <2>2, BrowseStep
  <1>6. CASE HandleListCustomers(asc)
    <2>1. Browse("customers", Len(customers), Page(From(customers, asc), asc), asc)
      BY <1>4, <1>6 DEF HandleListCustomers
    <2>2. PICK page : page = Page(From(customers, asc), asc)
      OBVIOUS
    <2> QED
      BY <1>1, <2>1, <2>2, BrowseStep
  <1> QED
    BY <1>5, <1>6

\* The other steps leave rows where they are and listings alone.
RowsStay ==
    /\ \A p \in DOMAIN payments : p \in DOMAIN payments'
    /\ \A c \in DOMAIN customers : c \in DOMAIN customers' /\ customers'[c].merchant = customers[c].merchant

LEMMA PagesStay ==
    ASSUME Inv, Inv', PagesOK, RowsStay, UNCHANGED pages
    PROVE  PagesOK'
  <1>1. payments \in Seq(Row) /\ payments' \in Seq(Row) /\ customers \in Seq(Customer) /\ customers' \in Seq(Customer)
    BY DEF Inv, TablesOK
  <1>2. \A p \in DOMAIN payments : p \in DOMAIN payments' /\ payments'[p].merchant = payments[p].merchant
    <2>1. \A p \in DOMAIN payments : payments[p] \in Row /\ p \in DOMAIN payments' /\ payments'[p] \in Row
      BY <1>1 DEF RowsStay
    <2> QED
      BY <2>1 DEF Row
  <1>3. \A c \in DOMAIN customers : c \in DOMAIN customers' /\ customers'[c].merchant = customers[c].merchant
    BY DEF RowsStay
  <1>4. PICK l : l = pages
    OBVIOUS
  <1>5. CASE pages = NoPages
    BY <1>5 DEF PagesOK
  <1>6. CASE pages # NoPages /\ pages.of = "customers"
    <2>1. Shows(l, customers)
      BY <1>4, <1>6 DEF PagesOK, Listed
    <2>2. Shows(l, customers')
      BY <1>1, <1>3, <2>1, ShowsStays
    <2> QED
      BY <1>4, <1>6, <2>2 DEF PagesOK, Listed, Shows
  <1>7. CASE pages # NoPages /\ pages.of # "customers"
    <2>1. Shows(l, payments)
      BY <1>4, <1>7 DEF PagesOK, Listed
    <2>2. Shows(l, payments')
      BY <1>1, <1>2, <2>1, ShowsStays
    <2> QED
      BY <1>4, <1>7, <2>2 DEF PagesOK, Listed, Shows
  <1> QED
    BY <1>5, <1>6, <1>7

\* Updates of a payment, and new rows.
LEMMA PaymentStays ==
    ASSUME Inv, UNCHANGED customers, NEW p, NEW x, payments' = [payments EXCEPT ![p] = x]
    PROVE  RowsStay
  BY DEF RowsStay, Inv, TablesOK

LEMMA SameTables ==
    ASSUME UNCHANGED <<payments, customers>>
    PROVE  RowsStay
  BY DEF RowsStay

LEMMA ManyRowsStay ==
    ASSUME Inv, NEW r \in Requests, CreatePayment(r) \/ CreateCustomer(r) \/ AssignCustomer(r) \/ UpdateLocked(r)
    PROVE  RowsStay /\ UNCHANGED pages
  <1>1. payments \in Seq(Row) /\ customers \in Seq(Customer)
    BY DEF Inv, TablesOK
  <1>2. CASE CreatePayment(r)
    <2>1. CASE UNCHANGED payments
      BY <1>2, <2>1, SameTables DEF CreatePayment
    <2>2. ASSUME NEW x, payments' = Append(payments, x) PROVE RowsStay
      BY <1>1, <1>2, <2>2 DEF CreatePayment, RowsStay
    <2> QED
      BY <1>2, <2>1, <2>2 DEF CreatePayment, InsertPayment
  <1>3. CASE CreateCustomer(r)
    <2>1. PICK x : customers' = Append(customers, x) /\ UNCHANGED payments
      BY <1>3 DEF CreateCustomer, InsertCustomer
    <2> QED
      BY <1>1, <1>3, <2>1 DEF CreateCustomer, RowsStay
  <1>4. CASE AssignCustomer(r)
    BY <1>4, PaymentStays DEF AssignCustomer, UpdatePaymentCustomerID
  <1>5. CASE UpdateLocked(r)
    BY <1>5, PaymentStays, SameTables DEF UpdateLocked, UpdatePayment
  <1> QED
    BY <1>2, <1>3, <1>4, <1>5

LEMMA NextPages == Inv /\ Inv' /\ PagesOK /\ [Next]_vars => PagesOK'
  <1> SUFFICES ASSUME Inv, Inv', PagesOK, [Next]_vars
               PROVE  PagesOK'
    OBVIOUS
  <1>1. ASSUME UNCHANGED <<payments, customers, pages>>
        PROVE  PagesOK'
    BY <1>1, SameTables, PagesStay
  <1>2. ASSUME NEW r \in Requests, CreatePayment(r) \/ CreateCustomer(r) \/ AssignCustomer(r) \/ UpdateLocked(r)
        PROVE  PagesOK'
    BY <1>2, ManyRowsStay, PagesStay
  <1>3. ASSUME NEW r \in Requests, NEW k \in Tickers, SetPaymentMethod(r, k)
        PROVE  PagesOK'
    <2>1. RowsStay /\ UNCHANGED pages
      BY <1>3, PaymentStays DEF SetPaymentMethod
    <2> QED
      BY <2>1, PagesStay
  <1>4. ASSUME NEW p \in PaymentIds, NEW s, Update(p, s)
        PROVE  PagesOK'
    <2>1. RowsStay /\ UNCHANGED pages
      BY <1>4, PaymentStays DEF Update, UpdatePayment
    <2> QED
      BY <2>1, PagesStay
  <1>5. ASSUME NEW l \in LinkIds, NEW t, NEW a, DeletePaymentLink(l) \/ CreatePaymentLink(l, t, a)
        PROVE  PagesOK'
    BY <1>1, <1>5 DEF DeletePaymentLink, CreatePaymentLink
  <1>6. ASSUME NEW r \in Requests, NEW o, NEW a, NEW l, CheckOrder(r, o, a) \/ UseLink(r, l, a)
        PROVE  PagesOK'
    BY <1>1, <1>6 DEF CheckOrder, UseLink, tables
  <1>7. ASSUME NEW r \in Requests, NEW p, NEW e,
               \/ HandleCreateCustomer(r, p) \/ HandleCreatePaymentMethod(r, p) \/ HandleLockPaymentOptions(r, p)
               \/ ResolveCustomerByEmail(r, e) \/ LockPaymentOptions(r) \/ Fail(r)
        PROVE  PagesOK'
    BY <1>1, <1>7 DEF HandleCreateCustomer, HandleCreatePaymentMethod, HandleLockPaymentOptions, ResolvesPayment,
                      ResolveCustomerByEmail, LockPaymentOptions, Fail, tables
  <1>8. ASSUME NEW c \in Consumers, NEW p, SendWebhook(c) \/ ProcessPaymentStatusUpdate(c, p)
        PROVE  PagesOK'
    BY <1>1, <1>8 DEF SendWebhook, ProcessPaymentStatusUpdate, tables
  <1>9. CASE Crash \/ DeleteMerchant \/ UNCHANGED vars
    BY <1>1, <1>9 DEF Crash, DeleteMerchant, vars, tables
  <1> QED
    BY <1>2, <1>3, <1>4, <1>5, <1>6, <1>7, <1>8, <1>9, BrowseSteps DEF Next

\* A dashboard that pages through payments or customers, in either order and while rows
\* are added between its requests, sees every row of its merchant that was there when it
\* began, once and in order, and no other merchant's: the cursor is the first row of the
\* next page, and rows are never removed.
THEOREM ListingsAreComplete == Spec => []PagesAreComplete
  <1>1. Init => PagesOK
    BY DEF Init, PagesOK
  <1>2. Inv /\ PagesOK => PagesAreComplete
    <2> SUFFICES ASSUME Inv, PagesOK
                 PROVE  PagesAreComplete
      OBVIOUS
    <2>1. CASE pages = NoPages
      <3>1. pages.seen = <<>> /\ DOMAIN pages.seen = {}
        BY <2>1 DEF NoPages
      <3> QED
        BY <2>1, <3>1 DEF PagesAreComplete
    <2>2. CASE pages # NoPages
      <3>1. PICK row : row = Listed
        OBVIOUS
      <3>2. Shows(pages, row) /\ pages.asc \in BOOLEAN
        BY <2>2, <3>1 DEF PagesOK
      <3>3. \E A : row \in Seq(A)
        BY <3>1 DEF Listed, Inv, TablesOK
      <3>4. pages.seen \in Seq(Nat) /\ DOMAIN pages.seen = 1..Len(pages.seen)
        BY <3>2, SortedElements DEF Shows
      <3>5. ASSUME pages.cursor = 0, NEW i \in 1..pages.first, row[i].merchant = Merchant
            PROVE  Contains(pages.seen, i)
        <4>1. i \in Listable(row) /\ i <= pages.first
          BY <3>2, <3>3, <3>5 DEF Shows, Listable
        <4>2. i \in Elements(pages.seen)
          BY <3>2, <3>5, <4>1 DEF Shows
        <4> QED
          BY <4>2 DEF Elements, Contains
      <3>6. \A i \in DOMAIN pages.seen : row[pages.seen[i]].merchant = Merchant
        BY <3>2, <3>4 DEF Shows, Listable, Elements
      <3>7. \A i, j \in DOMAIN pages.seen : i < j => IF pages.asc THEN pages.seen[i] < pages.seen[j]
                                                      ELSE pages.seen[i] > pages.seen[j]
        BY <3>2, <3>4 DEF Shows, Sorted, Precedes
      <3> QED
        BY <3>1, <3>5, <3>6, <3>7 DEF PagesAreComplete, Listed
    <2> QED
      BY <2>1, <2>2
  <1> QED
    BY <1>1, <1>2, InitInv, NextInv, NextPages, PTL DEF Spec
=============================================================================
