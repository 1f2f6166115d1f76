------------------------------- MODULE Checkout -------------------------------
(***************************************************************************)
(* How a payment comes about and is told of: a merchant creates it through *)
(* its API, or a customer from a payment link; the customer gives an       *)
(* e-mail, chooses a method and locks both; the processing of deposits     *)
(* (IncomingPayment) then sets its status.  Every status is published on   *)
(* the event bus, an asynchronous bus in memory, whose consumers send the  *)
(* merchant a webhook.  Dashboards page through the payments meanwhile.    *)
(*                                                                         *)
(* Requests overlap; each has the payment as its middleware read it.  Rows *)
(* are sequences, as ids grow.  0 and None stand for null.                 *)
(***************************************************************************)
EXTENDS Integers, Sequences, FiniteSets, SequencesExt, Tables

CONSTANTS
    None,
    Merchants,      \* one of which is ours
    Merchant,
    Orders,         \* order UUIDs the merchant's own system uses
    Emails,
    Tickers,        \* currencies of the system
    Enabled,        \* those the merchant enabled, {} for all
    Prices,         \* prices a caller may name; 0 and less are not valid
    Requests,       \* requests that may be served at once
    Consumers,      \* goroutines of the event bus
    FirstCustomers, \* the table customers at first
    PageSize,       \* payments per page                                (50)
    MaxPayments, MaxLinks, MaxCustomers   \* bounds: rows

PaymentIds == 1..MaxPayments
LinkIds == 1..MaxLinks
Final == {"success", "failed"}
FromLink == "fromLink"    \* stands for the fresh order UUID of such a payment

ASSUME CheckoutAssumption ==
    /\ Merchant \in Merchants /\ PageSize \in Nat \ {0} /\ Prices \subseteq Int
    /\ FromLink \notin Orders /\ None \notin Tickers /\ MaxPayments \in Nat
    /\ MaxCustomers \in Nat /\ Len(FirstCustomers) <= MaxCustomers
    /\ FirstCustomers \in Seq([merchant: Merchants,
                               email: Emails \cup {FirstCustomers[c].email : c \in DOMAIN FirstCustomers}])

VARIABLES
    live,        \* the merchant is not deleted
    hooked,      \* it has set a URL for webhooks
    links,       \* the table payment_links
    payments,    \* the table payments
    customers,   \* the table customers
    req,         \* the requests being served
    events,      \* payment -> events that wait for a consumer
    consumer,    \* the consumers at work
    reported,    \* payment -> statuses that webhooks told the merchant
    missed,      \* payments of which an event was not turned into a webhook
    pages        \* a dashboard's listing of the payments

tables == <<links, payments, customers>>
bus == <<events, consumer, reported, missed>>
vars == <<live, hooked, tables, req, bus, pages>>

NoLink == [state |-> "none", type |-> "payment", price |-> 0]
Served == [pc |-> "idle", payment |-> 0, status |-> "none", email |-> None, customer |-> 0,
           order |-> None, price |-> 0, link |-> 0, ticker |-> None]
NoEvent == [payment |-> 0, status |-> "none"]
NoPages == [of |-> "none", cursor |-> 0, seen |-> <<>>, first |-> 0, asc |-> FALSE]

Init ==
    /\ live = TRUE /\ hooked \in BOOLEAN
    /\ links = [l \in LinkIds |-> NoLink]
    /\ payments = <<>> /\ customers = FirstCustomers
    /\ req = [r \in Requests |-> Served]
    /\ events = [p \in PaymentIds |-> 0] /\ consumer = [c \in Consumers |-> NoEvent]
    /\ reported = [p \in PaymentIds |-> {}] /\ missed = {}
    /\ pages = NoPages

In(r, pc) == req[r].pc = pc
Respond(r) == req' = [req EXCEPT ![r] = Served]
Rows == DOMAIN payments

-----------------------------------------------------------------------------
(* Queries.  A query of one row yields the set of rows it may return.       *)

GetPaymentByMerchantIDAndOrderUUID(m, o) ==
    {p \in Rows : payments[p].merchant = m /\ payments[p].order = o /\ o # FromLink}
GetPaymentByID(m, p) == {i \in Rows : i = p /\ payments[i].merchant = m}
GetPaymentByPublicID(p) == {i \in Rows : i = p}

\* The first rows of a query in its order, one more than a page has.
Page(ids, asc) == InOrder(FirstOf(ids, PageSize + 1, asc), asc)
PaginatePaymentsAsc(m, from) == Page({i \in Rows : payments[i].merchant = m /\ i >= from}, TRUE)
PaginatePaymentsDesc(m, from) == Page({i \in Rows : payments[i].merchant = m /\ i <= from}, FALSE)
PaginateCustomersAsc(m, from) ==
    Page({i \in DOMAIN customers : customers[i].merchant = m /\ i >= from}, TRUE)
PaginateCustomersDesc(m, from) ==
    Page({i \in DOMAIN customers : customers[i].merchant = m /\ i <= from}, FALSE)

\* Mutant: the table has no unique index.
NeverTaken(m, o) == FALSE

\* The unique index on the merchant and its order UUID.
OrderTaken(m, o) == GetPaymentByMerchantIDAndOrderUUID(m, o) # {}

InsertPayment(o, price, link) ==
    payments' = Append(payments, [merchant |-> Merchant, order |-> o, price |-> price, link |-> link,
                                  status |-> "pending", customer |-> 0, method |-> None])

UpdatePayment(p, s) == payments' = [payments EXCEPT ![p].status = s]
UpdatePaymentCustomerID(p, c) == payments' = [payments EXCEPT ![p].customer = c]

GetPaymentLinkBySlug(l) == {i \in LinkIds : i = l /\ links[i].state = "live"}
GetPaymentLinkByID(l) == {i \in LinkIds : i = l /\ links[i].state = "live"}
InsertPaymentLink(l, t, price) == links' = [links EXCEPT ![l] = [state |-> "live", type |-> t, price |-> price]]
RemovePaymentLink(l) == links' = [links EXCEPT ![l].state = "deleted"]

\* Mutant: of any merchant.
GetAnyCustomerByEmail(m, e) == {c \in DOMAIN customers : customers[c].email = e}

GetCustomerByEmail(m, e) ==
    {c \in DOMAIN customers : customers[c].email = e /\ customers[c].merchant = m}
GetCustomerByID(m, c) == {i \in DOMAIN customers : i = c /\ customers[i].merchant = m}
InsertCustomer(m, e) == customers' = Append(customers, [merchant |-> m, email |-> e])

-----------------------------------------------------------------------------
(* Links and payments of the merchant *)

\* A fixed link has a price; a donation has none.
validateLink(t, price) == IF t = "payment" THEN price > 0 ELSE price = 0

CreatePaymentLink(l, t, price) ==
    /\ live /\ links[l] = NoLink
    /\ validateLink(t, price)
    /\ InsertPaymentLink(l, t, price)
    /\ UNCHANGED <<live, hooked, payments, customers, req, bus, pages>>

DeletePaymentLinkByPublicID(l) == GetPaymentLinkByID(l) # {} /\ RemovePaymentLink(l)

DeletePaymentLink(l) ==
    /\ live
    /\ DeletePaymentLinkByPublicID(l)
    /\ UNCHANGED <<live, hooked, payments, customers, req, bus, pages>>

validate(price) == price > 0

\* CreatePayment looks the order up; then it inserts the payment.
CheckOrder(r, o, price) ==
    /\ req[r] = Served /\ live
    /\ validate(price) /\ GetPaymentByMerchantIDAndOrderUUID(Merchant, o) = {}
    /\ req' = [req EXCEPT ![r] = [Served EXCEPT !.pc = "create", !.order = o, !.price = price]]
    /\ UNCHANGED <<live, hooked, tables, bus, pages>>

\* The price of a payment from a link, if the request is valid.
linkPaymentAmount(l, price) ==
    IF links[l].type = "donation" THEN {a \in {price} : a > 0} ELSE {links[l].price}

CreatePaymentFromLink(r, i, price) ==
    \E a \in linkPaymentAmount(i, price) :
        req' = [req EXCEPT ![r] = [Served EXCEPT !.pc = "create", !.order = FromLink,
                                                 !.price = a, !.link = i]]

\* The page of a link reads the link and creates a payment from it.
UseLink(r, l, price) ==
    \E i \in GetPaymentLinkBySlug(l) :
        /\ req[r] = Served /\ live
        /\ CreatePaymentFromLink(r, i, price)
        /\ UNCHANGED <<live, hooked, tables, bus, pages>>

\* The row, unless the index refuses it.
CreatePayment(r) ==
    /\ In(r, "create") /\ Len(payments) < MaxPayments
    /\ IF OrderTaken(Merchant, req[r].order) THEN UNCHANGED payments
       ELSE InsertPayment(req[r].order, req[r].price, req[r].link)
    /\ Respond(r)
    /\ UNCHANGED <<live, hooked, links, customers, bus, pages>>

-----------------------------------------------------------------------------
(* The payment page *)

\* The payment is read by the middleware; an archived one is refused.
ResolvesPayment(r, p, pc) ==
    \E i \in GetPaymentByPublicID(p) :
        /\ req[r] = Served
        /\ req' = [req EXCEPT ![r] = [Served EXCEPT !.pc = pc, !.payment = i, !.status = payments[i].status]]
        /\ UNCHANGED <<live, hooked, tables, bus, pages>>

\* The page's requests.
HandleCreateCustomer(r, p) == ResolvesPayment(r, p, "customer")
HandleCreatePaymentMethod(r, p) == ResolvesPayment(r, p, "method")
HandleLockPaymentOptions(r, p) == ResolvesPayment(r, p, "lock")

IsEditable(s) == s = "pending"

\* AssignCustomerByEmail: the customer of the e-mail, or a new one ...
ResolveCustomerByEmail(r, e) ==
    LET m == payments[req[r].payment].merchant
        rows == GetCustomerByEmail(m, e)
    IN
    /\ In(r, "customer") /\ IsEditable(req[r].status)
    /\ \/ \E c \in rows : /\ req' = [req EXCEPT ![r].pc = "assign", ![r].customer = c]
                          /\ UNCHANGED customers
       \/ /\ rows = {}
          /\ req' = [req EXCEPT ![r].pc = "insert", ![r].email = e]
          /\ UNCHANGED customers
    /\ UNCHANGED <<live, hooked, links, payments, bus, pages>>

CreateCustomer(r) ==
    /\ In(r, "insert") /\ Len(customers) < MaxCustomers
    /\ InsertCustomer(Merchant, req[r].email)
    /\ req' = [req EXCEPT ![r].pc = "assign", ![r].customer = Len(customers) + 1]
    /\ UNCHANGED <<live, hooked, links, payments, bus, pages>>

\* ... is set, whatever became of the payment since it was read.
AssignCustomer(r) ==
    /\ In(r, "assign")
    /\ UpdatePaymentCustomerID(req[r].payment, req[r].customer)
    /\ Respond(r)
    /\ UNCHANGED <<live, hooked, links, customers, bus, pages>>

\* ListSupportedCurrencies
Supported == IF Enabled = {} THEN Tickers ELSE Tickers \cap Enabled

\* SetPaymentMethod; the transaction it makes is the business of IncomingPayment.
SetPaymentMethod(r, k) ==
    /\ In(r, "method") /\ IsEditable(req[r].status) /\ live
    /\ k \in Supported
    /\ payments' = [payments EXCEPT ![req[r].payment].method = k]
    /\ Respond(r)
    /\ UNCHANGED <<live, hooked, links, customers, bus, pages>>

\* GetDetailedPayment: an error, or all there is to know of a payment.
GetDetailedPayment(p) ==
    {[status |-> payments[i].status, customer |-> payments[i].customer, method |-> payments[i].method] :
        i \in {i \in GetPaymentByID(Merchant, p) :
                 live /\ (payments[i].customer # 0 => GetCustomerByID(Merchant, payments[i].customer) # {})}}

\* Mutant: an event is not published while one of the payment is under way.
PublishOnce(p) ==
    events' = IF events[p] = 0 /\ \A c \in Consumers : consumer[c].payment # p
              THEN [events EXCEPT ![p] = 1] ELSE events

Publish(p) == events' = [events EXCEPT ![p] = @ + 1]

\* LockPaymentOptions wants both options.
OptionsFulfilled(d) == d.customer # 0 /\ d.method # None

\* It reads the payment anew ...
LockPaymentOptions(r) ==
    \E d \in GetDetailedPayment(req[r].payment) :
        /\ In(r, "lock")
        /\ IF IsEditable(d.status) /\ OptionsFulfilled(d)
           THEN req' = [req EXCEPT ![r].pc = "locked"] ELSE Respond(r)
        /\ UNCHANGED <<live, hooked, tables, bus, pages>>

\* ... and Update sets the status, if there still is a merchant whose settings say when
\* it expires: whatever the status has become since it was read.
UpdateLocked(r) ==
    LET p == req[r].payment IN
    /\ In(r, "locked")
    /\ IF live THEN UpdatePayment(p, "locked") /\ Publish(p) ELSE UNCHANGED <<payments, events>>
    /\ Respond(r)
    /\ UNCHANGED <<live, hooked, links, customers, consumer, reported, missed, pages>>

-----------------------------------------------------------------------------
(* Statuses that the processing of deposits sets, see IncomingPayment *)

Follows(s) ==
    CASE s = "pending" -> {"failed"} [] s = "locked" -> {"inProgress", "failed"}
      [] s = "inProgress" -> Final [] OTHER -> {}

Update(p, s) ==
    /\ p \in Rows /\ s \in Follows(payments[p].status)
    /\ UpdatePayment(p, s)
    /\ Publish(p)
    /\ UNCHANGED <<live, hooked, links, customers, req, consumer, reported, missed, pages>>

-----------------------------------------------------------------------------
(* The event bus and the webhooks *)

Done(c) == consumer' = [consumer EXCEPT ![c] = NoEvent]

\* buildPaymentWebhook fails if the payment is from a link that was deleted.
buildPaymentWebhook(p) == payments[p].link = 0 \/ GetPaymentLinkByID(payments[p].link) # {}

\* "locked" is not told.
Omitted(s) == s = "locked"

\* ProcessPaymentStatusUpdate takes an event and reads the payment as it is now.
ProcessPaymentStatusUpdate(c, p) ==
    /\ consumer[c] = NoEvent /\ p \in Rows /\ events[p] > 0
    /\ events' = [events EXCEPT ![p] = @ - 1]
    /\ LET s == payments[p].status
           read == hooked /\ GetDetailedPayment(p) # {}
           told == read /\ ~Omitted(s) /\ buildPaymentWebhook(p)
       IN  /\ consumer' = IF told THEN [consumer EXCEPT ![c] = [payment |-> p, status |-> s]] ELSE consumer
           /\ missed' = IF told \/ (read /\ Omitted(s)) THEN missed ELSE missed \cup {p}
    /\ UNCHANGED <<live, hooked, tables, req, reported, pages>>

\* The merchant answers, or does not: it is not tried again.
SendWebhook(c) ==
    /\ consumer[c] # NoEvent
    /\ \/ /\ reported' = [reported EXCEPT ![consumer[c].payment] = @ \cup {consumer[c].status}]
          /\ UNCHANGED missed
       \/ missed' = missed \cup {consumer[c].payment} /\ UNCHANGED reported
    /\ Done(c)
    /\ UNCHANGED <<live, hooked, tables, req, events, pages>>

\* The process ends: requests and events are lost.
Crash ==
    /\ req' = [r \in Requests |-> Served]
    /\ missed' = missed \cup {p \in PaymentIds : events[p] > 0} \cup ({consumer[c].payment : c \in Consumers} \ {0})
    /\ events' = [p \in PaymentIds |-> 0] /\ consumer' = [c \in Consumers |-> NoEvent]
    /\ UNCHANGED <<live, hooked, tables, reported, pages>>

DeleteMerchant ==
    /\ live /\ live' = FALSE
    /\ UNCHANGED <<hooked, tables, req, bus, pages>>

\* A request is refused or fails.
Fail(r) ==
    /\ req[r] # Served
    /\ Respond(r)
    /\ UNCHANGED <<live, hooked, tables, bus, pages>>

-----------------------------------------------------------------------------
(* A listing: every page names the cursor of the next *)

\* Mutant: the next page starts after the row of its cursor.
AfterCursor(page) == Last(page) + 1

\* The row that was read beyond the page.
nextCursor(page) == Last(page)

\* The rows from a cursor on, 0 for none, and the one after them.
List(from, asc) ==
    IF asc THEN PaginatePaymentsAsc(Merchant, from)
    ELSE PaginatePaymentsDesc(Merchant, IF from = 0 THEN MaxPayments ELSE from)
ListCustomers(from, asc) ==
    IF asc THEN PaginateCustomersAsc(Merchant, from)
    ELSE PaginateCustomersDesc(Merchant, IF from = 0 THEN MaxCustomers ELSE from)

\* The dashboard asks for a first page, in either order, or for the one after the last.
Browse(table, rows, page, asc) ==
    LET more == Len(page) > PageSize
        begins == pages = NoPages
    IN
    /\ IF begins THEN page # <<>> ELSE pages.of = table /\ pages.asc = asc /\ pages.cursor # 0
    /\ pages' = [of |-> table,
                 cursor |-> IF more THEN nextCursor(page) ELSE 0,
                 seen |-> pages.seen \o (IF more THEN Front(page) ELSE page),
                 first |-> IF begins THEN rows ELSE pages.first,
                 asc |-> asc]
    /\ UNCHANGED <<live, hooked, tables, req, bus>>

HandleListPayments(asc) == Browse("payments", Len(payments), List(pages.cursor, asc), asc)
HandleListCustomers(asc) == Browse("customers", Len(customers), ListCustomers(pages.cursor, asc), asc)

Next ==
    \/ \E l \in LinkIds : DeletePaymentLink(l) \/ \E t \in {"payment", "donation"}, a \in Prices : CreatePaymentLink(l, t, a)
    \/ \E r \in Requests :
         \/ \E o \in Orders, a \in Prices : CheckOrder(r, o, a)
         \/ \E l \in LinkIds, a \in Prices : UseLink(r, l, a)
         \/ CreatePayment(r) \/ CreateCustomer(r) \/ AssignCustomer(r) \/ LockPaymentOptions(r) \/ UpdateLocked(r)
         \/ \E p \in PaymentIds : HandleCreateCustomer(r, p) \/ HandleCreatePaymentMethod(r, p) \/ HandleLockPaymentOptions(r, p)
         \/ \E e \in Emails : ResolveCustomerByEmail(r, e)
         \/ \E k \in Tickers : SetPaymentMethod(r, k)
         \/ Fail(r)
    \/ \E p \in PaymentIds, s \in {"inProgress", "success", "failed"} : Update(p, s)
    \/ \E c \in Consumers : SendWebhook(c) \/ \E p \in PaymentIds : ProcessPaymentStatusUpdate(c, p)
    \/ Crash \/ DeleteMerchant \/ \E asc \in BOOLEAN : HandleListPayments(asc) \/ HandleListCustomers(asc)

Spec == Init /\ [][Next]_vars

-----------------------------------------------------------------------------
\* However requests for one order overlap or are repeated, it has one payment.
OnePaymentPerOrder ==
    \A p, q \in Rows : payments[p].order \in Orders /\ payments[p].order = payments[q].order => p = q

\* A payment that the customer locked has a customer and a method, and its customer is one
\* of its merchant's: with another merchant's every request for the payment would fail,
\* and it could never be told of.
LockedIsComplete ==
    \A p \in Rows :
        /\ payments[p].status \notin {"pending", "failed"} => payments[p].customer # 0 /\ payments[p].method # None
        /\ live => GetDetailedPayment(p) # {}

\* When no event is left, the merchant was told the final status of every payment of
\* which no event was lost: consumers read the payment after its status was written.
FinalStatusIsReported ==
    \A p \in Rows :
        (/\ payments[p].status \in Final /\ p \notin missed
         /\ events[p] = 0 /\ \A c \in Consumers : consumer[c].payment # p)
           => payments[p].status \in reported[p]

\* The pages that a dashboard reads while rows are added hold every payment, or customer,
\* of the merchant that was there at first, once and in order, and none of another's.
PagesAreComplete ==
    LET row == IF pages.of = "customers" THEN customers ELSE payments IN
    /\ pages # NoPages /\ pages.cursor = 0 =>
         \A i \in 1..pages.first : row[i].merchant = Merchant => Contains(pages.seen, i)
    /\ \A i \in DOMAIN pages.seen : row[pages.seen[i]].merchant = Merchant
    /\ \A i, j \in DOMAIN pages.seen : i < j => IF pages.asc THEN pages.seen[i] < pages.seen[j]
                                                 ELSE pages.seen[i] > pages.seen[j]
=============================================================================
