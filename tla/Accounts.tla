------------------------------- MODULE Accounts -------------------------------
(***************************************************************************)
(* Users, merchants and their API tokens, settings and addresses, and the  *)
(* requests of the dashboard and of the merchant API on them.  A request   *)
(* first passes the middlewares, which find its user and its merchant, and *)
(* then its handler, which works on the merchant it was given; requests    *)
(* overlap.  The command create-user is a request of the operator.         *)
(*                                                                         *)
(* Every e-mail, Google account and browser belongs to a person, so that   *)
(* one can say whose user, merchant or row something is.  A row's id stands *)
(* for its UUID and, for a token, for its secret value.                    *)
(***************************************************************************)
EXTENDS Naturals, FiniteSets

CONSTANTS
    None,
    People,       \* each with a browser
    Emails,
    Googles,      \* accounts of Google
    OwnerOf,      \* the person of an e-mail or of an account
    EmailOf,      \* the e-mail an account gives
    Verified,     \* accounts whose e-mail Google has verified
    Requests,     \* requests that may be served at once
    Changes,      \* property -> values a request may give it
    Addresses,    \* addresses of withdrawals
    Reserved,     \* those of the system's own wallets
    Whitelists,   \* what the registry may allow, None for everyone
    FirstUsers, FirstMerchants, FirstTokens,   \* the tables at first
    MaxUsers, MaxMerchants, MaxTokens, MaxAddresses   \* bounds: rows

UserIds == 1..MaxUsers
MerchantIds == 1..MaxMerchants
TokenIds == 1..MaxTokens
AddressIds == 1..MaxAddresses
Properties == DOMAIN Changes

ASSUME AccountsAssumption ==
    /\ None \notin People \cup Emails \cup Googles
    /\ OwnerOf \in [Emails \cup Googles -> People] /\ EmailOf \in [Googles -> Emails]
    /\ Verified \subseteq Googles /\ \A a \in Verified : OwnerOf[EmailOf[a]] = OwnerOf[a]
    /\ Reserved \subseteq Addresses /\ MaxUsers \in Nat /\ MaxMerchants \in Nat

\* The tables are such as the program leaves them.
ASSUME FirstAssumption ==
    /\ \A u \in DOMAIN FirstUsers :
          /\ FirstUsers[u] \in [email: Emails, google: Googles \cup {None}, password: BOOLEAN]
          /\ FirstUsers[u].google # None => OwnerOf[FirstUsers[u].google] = OwnerOf[FirstUsers[u].email]
          /\ \A i \in DOMAIN FirstUsers :
                FirstUsers[u].google # None /\ FirstUsers[u].google = FirstUsers[i].google => u = i
    /\ \A m \in DOMAIN FirstMerchants : FirstMerchants[m] \in UserIds \cap DOMAIN FirstUsers
    /\ \A t \in DOMAIN FirstTokens : \E u \in UserIds \cap DOMAIN FirstUsers :
          /\ FirstTokens[t] \in [type: {"user", "merchant"}, entity: Nat, holder: {OwnerOf[FirstUsers[u].email]}]
          /\ FirstTokens[t].type = "user" => FirstTokens[t].entity = u
          /\ FirstTokens[t].type = "merchant" =>
                /\ FirstTokens[t].entity \in MerchantIds \cap DOMAIN FirstMerchants
                /\ FirstMerchants[FirstTokens[t].entity] = u

VARIABLES
    users,      \* the table users
    whitelist,  \* the registry's whitelist, None if registration is open; edited by hand
    merchants,  \* the table merchants
    tokens,     \* the table api_tokens
    addresses,  \* the table merchant_addresses
    session,    \* the user a browser's session has, 0 for none
    state,      \* the OAuth state of a browser's session
    req         \* the requests being served

tables == <<users, merchants, tokens, addresses>>
browsers == <<session, state>>
vars == <<tables, whitelist, browsers, req>>

NoUser == [email |-> None, google |-> None, password |-> FALSE]
Unset == [p \in Properties |-> None]
NoMerchant == [state |-> "none", creator |-> 0, settings |-> Unset]
NoToken == [type |-> "none", entity |-> 0, holder |-> None]
NoAddress == [merchant |-> 0, address |-> None]
Served == [pc |-> "idle", by |-> None, user |-> 0, merchant |-> 0, settings |-> Unset,
           google |-> None, email |-> None, address |-> None, change |-> None]

Init ==
    /\ users = [u \in UserIds |-> IF u \in DOMAIN FirstUsers THEN FirstUsers[u] ELSE NoUser]
    /\ merchants = [m \in MerchantIds |-> IF m \in DOMAIN FirstMerchants
                       THEN [NoMerchant EXCEPT !.state = "live", !.creator = FirstMerchants[m]]
                       ELSE NoMerchant]
    /\ tokens = [t \in TokenIds |-> IF t \in DOMAIN FirstTokens THEN FirstTokens[t] ELSE NoToken]
    /\ addresses = [a \in AddressIds |-> NoAddress]
    /\ whitelist \in Whitelists
    /\ session = [p \in People |-> 0] /\ state = [p \in People |-> None]
    /\ req = [r \in Requests |-> Served]

In(r, pc) == req[r].pc = pc
Respond(r) == req' = [req EXCEPT ![r] = Served]
PersonOf(u) == OwnerOf[users[u].email]

-----------------------------------------------------------------------------
(* Queries.  A query of one row yields the set of rows it may return.       *)

GetUserByEmail(e) == {u \in UserIds : e # None /\ users[u].email = e}
GetUserByGoogleID(g) == {u \in UserIds : g # None /\ users[u].google = g}
GetUserByID(u) == {i \in UserIds : i = u /\ users[i] # NoUser}

\* Mutant: the table has no unique index on google_id.
NeverTaken(g) == FALSE

\* The unique index on google_id.
GoogleTaken(g) == g # None /\ \E u \in UserIds : users[u].google = g

CreateUser(e, g, pass) ==
    \E u \in UserIds :
        /\ users[u] = NoUser /\ \A i \in 1..(u - 1) : users[i] # NoUser
        /\ users' = [users EXCEPT ![u] = [email |-> e, google |-> g, password |-> pass]]

UpdateUser(u, g, setGoogleID) ==
    users' = [users EXCEPT ![u].google = IF setGoogleID THEN g ELSE @]

UpdateUserPassword(u) == users' = [users EXCEPT ![u].password = TRUE]

GetMerchantByID(m) == {i \in MerchantIds : i = m /\ merchants[i].state = "live"}

GetMerchantByUUIDAndCreatorID(m, u) ==
    {i \in MerchantIds : i = m /\ merchants[i].creator = u /\ merchants[i].state = "live"}

ListMerchantsByCreatorID(u) ==
    {i \in MerchantIds : merchants[i].creator = u /\ merchants[i].state = "live"}

CreateMerchant(u) ==
    \E m \in MerchantIds :
        /\ merchants[m].state = "none" /\ \A i \in 1..(m - 1) : merchants[i].state # "none"
        /\ merchants' = [merchants EXCEPT ![m] = [NoMerchant EXCEPT !.state = "live", !.creator = u]]

SoftDeleteMerchantByUUID(m) == merchants' = [merchants EXCEPT ![m].state = "deleted"]
UpdateMerchantSettings(m, s) == merchants' = [merchants EXCEPT ![m].settings = s]

GetAPIToken(type, t) == {i \in TokenIds : i = t /\ tokens[i].type = type}
GetAPITokenByUUID(t) == {i \in TokenIds : i = t /\ tokens[i].type # "none"}

\* Mutant: of any type.
ListTokensByID(type, id) == {t \in TokenIds : tokens[t].entity = id}

ListAPITokensByEntity(type, id) == {t \in TokenIds : tokens[t].entity = id /\ tokens[t].type = type}

CreateAPIToken(type, id, holder) ==
    \E t \in TokenIds :
        /\ tokens[t] = NoToken
        /\ tokens' = [tokens EXCEPT ![t] = [type |-> type, entity |-> id, holder |-> holder]]

DeleteAPITokenByID(t) == tokens' = [tokens EXCEPT ![t] = NoToken]

ListMerchantAddresses(m) == {a \in AddressIds : addresses[a].merchant = m}
GetMerchantAddressByUUID(m, a) == {i \in AddressIds : i = a /\ addresses[i].merchant = m}
GetMerchantAddressByAddress(m, x) ==
    {a \in AddressIds : addresses[a].merchant = m /\ addresses[a].address = x}
CheckSystemWalletExistsByAddress(x) == x \in Reserved

InsertMerchantAddress(m, x) ==
    \E a \in AddressIds :
        /\ addresses[a] = NoAddress
        /\ addresses' = [addresses EXCEPT ![a] = [merchant |-> m, address |-> x]]

RemoveMerchantAddress(m, a) == addresses' = [addresses EXCEPT ![a] = NoAddress]

-----------------------------------------------------------------------------
(* Logging in *)

PostLogin(p, e) ==
    \E u \in GetUserByEmail(e) :
        /\ session[p] = 0
        /\ users[u].password /\ OwnerOf[e] = p
        /\ session' = [session EXCEPT ![p] = u]
        /\ UNCHANGED <<tables, whitelist, state, req>>

PostLogout(p) ==
    /\ session[p] # 0
    /\ session' = [session EXCEPT ![p] = 0]
    /\ UNCHANGED <<tables, whitelist, state, req>>

\* The state is named after the person whose browser asked for it.
GetRedirect(p) ==
    /\ session[p] = 0 /\ state[p] = None
    /\ state' = [state EXCEPT ![p] = p]
    /\ UNCHANGED <<tables, whitelist, session, req>>

\* A browser is sent to the callback with the code and the state that Google gave the
\* owner of an account; then ResolveWithGoogle finds or makes its user.
GetCallback(r, p, a) ==
    /\ req[r] = Served
    /\ session[p] = 0 /\ state[p] # None /\ state[OwnerOf[a]] = state[p]
    /\ req' = [req EXCEPT ![r] = [Served EXCEPT !.pc = "google", !.by = p, !.google = a]]
    /\ UNCHANGED <<tables, whitelist, browsers>>

\* persistSession, at the end of the callback
LoggedIn(r, u) ==
    /\ session' = [session EXCEPT ![req[r].by] = u]
    /\ Respond(r)
    /\ UNCHANGED state

\* Mutant: an e-mail that Google did not verify is as good as one it did.
AnyEmail(a) == TRUE

EmailVerified(a) == a \in Verified

\* ResolveWithGoogle: the account is known, or its e-mail is looked up.
ResolveWithGoogle(r) ==
    LET a == req[r].google
        rows == GetUserByGoogleID(a)
    IN
    /\ In(r, "google")
    /\ \/ \E u \in rows : LoggedIn(r, u) /\ UpdateUser(u, a, FALSE)
       \/ /\ rows = {}
          /\ IF EmailVerified(a)
             THEN req' = [req EXCEPT ![r].pc = "email", ![r].email = EmailOf[a]]
             ELSE Respond(r)
          /\ UNCHANGED <<users, browsers>>
    /\ UNCHANGED <<whitelist, merchants, tokens, addresses>>

guardRegistration(e) == whitelist # None => e \in whitelist

\* The e-mail is that of a user, or it is registered if the whitelist lets it.
FindByEmail(r) ==
    LET rows == GetUserByEmail(req[r].email) IN
    /\ In(r, "email")
    /\ \/ \E u \in rows : req' = [req EXCEPT ![r].pc = "link", ![r].user = u]
       \/ /\ rows = {} /\ guardRegistration(req[r].email)
          /\ req' = [req EXCEPT ![r].pc = "create"]
       \/ rows = {} /\ ~guardRegistration(req[r].email) /\ Respond(r)
    /\ UNCHANGED <<tables, whitelist, browsers>>

\* updateGoogleUser: the user gets the account, unless the index refuses.
LinkGoogleUser(r) ==
    /\ In(r, "link")
    /\ IF GoogleTaken(req[r].google) THEN Respond(r) /\ UNCHANGED <<users, browsers>>
       ELSE UpdateUser(req[r].user, req[r].google, TRUE) /\ LoggedIn(r, req[r].user)
    /\ UNCHANGED <<whitelist, merchants, tokens, addresses>>

registerGoogleUser(r) ==
    /\ In(r, "create")
    /\ IF GoogleTaken(req[r].google) THEN Respond(r) /\ UNCHANGED <<users, browsers>>
       ELSE /\ CreateUser(req[r].email, req[r].google, FALSE)
            /\ \E u \in UserIds : users[u] = NoUser /\ users'[u] # NoUser /\ LoggedIn(r, u)
    /\ UNCHANGED <<whitelist, merchants, tokens, addresses>>

-----------------------------------------------------------------------------
(* The command create-user *)

\* Register: is there a user of this e-mail?  If there is, its password is replaced.
Register(r, e) ==
    /\ req[r] = Served
    /\ \/ \E u \in GetUserByEmail(e) : UpdateUserPassword(u) /\ UNCHANGED req
       \/ /\ GetUserByEmail(e) = {}
          /\ req' = [req EXCEPT ![r] = [Served EXCEPT !.pc = "register", !.email = e]]
          /\ UNCHANGED users
    /\ UNCHANGED <<whitelist, merchants, tokens, addresses, browsers>>

\* Nothing keeps another user of the e-mail from having been created since.
CreateRegistered(r) ==
    /\ In(r, "register")
    /\ CreateUser(req[r].email, None, TRUE)
    /\ Respond(r)
    /\ UNCHANGED <<whitelist, merchants, tokens, addresses, browsers>>

-----------------------------------------------------------------------------
(* Middlewares *)

\* The user of a browser, or of the token of type user that the request has.
ResolvesUserByToken(p, t) ==
    {u \in UserIds : \/ u = session[p]
                     \/ session[p] = 0 /\ \E i \in GetAPIToken("user", t) : u = tokens[i].entity}

\* The merchant in the URL, if it is the user's.
ResolvesMerchantByUUID(p, t, m) ==
    UNION {GetMerchantByUUIDAndCreatorID(m, u) : u \in ResolvesUserByToken(p, t)}

\* The merchant of the token.
ResolvesMerchantByToken(t) ==
    UNION {GetMerchantByID(tokens[i].entity) : i \in GetAPIToken("merchant", t)}

GuardsMerchants(rows, m) == m \in rows

\* A person uses what is his: his browser and tokens that were given to him.
Holds(p, t) == t # 0 => tokens[t].holder = p

Accepted(r, p, m) ==
    req' = [req EXCEPT ![r] = [Served EXCEPT !.pc = "handle", !.by = p, !.merchant = m,
                                             !.settings = merchants[m].settings]]

DashboardRequest(r, p, t, m) ==
    /\ req[r] = Served /\ Holds(p, t)
    /\ GuardsMerchants(ResolvesMerchantByUUID(p, t, m), m)
    /\ Accepted(r, p, m)
    /\ UNCHANGED <<tables, whitelist, browsers>>

\* A request of the merchant API, which is given no handler of this module: it ends.
MerchantRequest(r, p, t, m) ==
    /\ req[r] = Served /\ t # 0 /\ Holds(p, t)
    /\ GuardsMerchants(ResolvesMerchantByToken(t), m)
    /\ req' = [req EXCEPT ![r] = [Served EXCEPT !.pc = "read", !.by = p, !.merchant = m]]
    /\ UNCHANGED <<tables, whitelist, browsers>>

-----------------------------------------------------------------------------
(* Handlers of the dashboard *)

HandleCreateMerchant(p, t) ==
    /\ Holds(p, t)
    /\ \E u \in ResolvesUserByToken(p, t) : CreateMerchant(u)
    /\ UNCHANGED <<users, tokens, addresses, whitelist, browsers, req>>

Handles(r) == In(r, "handle") /\ Respond(r) /\ UNCHANGED <<users, whitelist, browsers>>

\* GET requests
ReadRequest(r) ==
    /\ In(r, "handle") \/ In(r, "read")
    /\ Respond(r)
    /\ UNCHANGED <<tables, whitelist, browsers>>

DeleteMerchant(r) ==
    /\ Handles(r)
    /\ SoftDeleteMerchantByUUID(req[r].merchant)
    /\ UNCHANGED <<tokens, addresses>>

\* The handler of a change of settings has the settings as its middleware read them.
ChangeRequest(r, p) ==
    /\ In(r, "handle")
    /\ req' = [req EXCEPT ![r].pc = "change", ![r].change = p]
    /\ UNCHANGED <<tables, whitelist, browsers>>

\* UpsertSettings: the settings that were read, with the property that was given.
UpsertSettings(s, p, v) == [s EXCEPT ![p] = v]

\* UpdateMerchantWebhook, UpdatePaymentSettings and UpdateSupportedMethods: all settings
\* are written.  A value that is not valid is refused (Fail).
UpdateSettings(r, v) ==
    LET p == req[r].change
        m == req[r].merchant
    IN
    /\ In(r, "change") /\ v \in Changes[p]
    /\ UpdateMerchantSettings(m, UpsertSettings(req[r].settings, p, v))
    /\ Respond(r)
    /\ UNCHANGED <<users, tokens, addresses, whitelist, browsers>>

CreateMerchantToken(r) ==
    /\ Handles(r)
    /\ CreateAPIToken("merchant", req[r].merchant, req[r].by)
    /\ UNCHANGED <<merchants, addresses>>

\* Mutant: the token's merchant is not compared.
GetTokenByUUID(m, t) == GetAPITokenByUUID(t)

GetMerchantTokenByUUID(m, t) ==
    {i \in GetAPITokenByUUID(t) : tokens[i].type = "merchant" /\ tokens[i].entity = m}

DeleteMerchantTokens(r, t) ==
    /\ Handles(r)
    /\ \E i \in GetMerchantTokenByUUID(req[r].merchant, t) : DeleteAPITokenByID(i)
    /\ UNCHANGED <<merchants, addresses>>

\* CreateMerchantAddress looks for the address among those of the merchant and of the
\* system, and then inserts it.
CheckMerchantAddress(r, x) ==
    /\ In(r, "handle")
    /\ IF \/ GetMerchantAddressByAddress(req[r].merchant, x) # {}
          \/ CheckSystemWalletExistsByAddress(x)
       THEN Respond(r)
       ELSE req' = [req EXCEPT ![r].pc = "address", ![r].address = x]
    /\ UNCHANGED <<tables, whitelist, browsers>>

CreateMerchantAddress(r) ==
    /\ In(r, "address")
    /\ InsertMerchantAddress(req[r].merchant, req[r].address)
    /\ Respond(r)
    /\ UNCHANGED <<users, merchants, tokens, whitelist, browsers>>

DeleteMerchantAddress(r, a) ==
    /\ Handles(r)
    /\ \E i \in GetMerchantAddressByUUID(req[r].merchant, a) : RemoveMerchantAddress(req[r].merchant, i)
    /\ UNCHANGED <<merchants, tokens>>

\* A request fails or its process dies.
Fail(r) ==
    /\ req[r] # Served
    /\ Respond(r)
    /\ UNCHANGED <<tables, whitelist, browsers>>

AuthNext ==
    \/ \E p \in People : PostLogout(p) \/ GetRedirect(p) \/ \E e \in Emails : PostLogin(p, e)
    \/ \E r \in Requests :
         \/ \E p \in People, a \in Googles : GetCallback(r, p, a)
         \/ ResolveWithGoogle(r) \/ FindByEmail(r) \/ LinkGoogleUser(r) \/ registerGoogleUser(r)
         \/ CreateRegistered(r) \/ \E e \in Emails : Register(r, e)
         \/ Fail(r)

MerchantNext ==
    \/ \E p \in People, t \in {0} \cup TokenIds :
         \/ HandleCreateMerchant(p, t)
         \/ \E r \in Requests, m \in MerchantIds : DashboardRequest(r, p, t, m) \/ MerchantRequest(r, p, t, m)
    \/ \E r \in Requests :
         \/ ReadRequest(r) \/ DeleteMerchant(r) \/ CreateMerchantToken(r) \/ CreateMerchantAddress(r)
         \/ \E p \in Properties : ChangeRequest(r, p)
         \/ \E v \in UNION {Changes[p] : p \in Properties} : UpdateSettings(r, v)
         \/ \E t \in TokenIds : DeleteMerchantTokens(r, t)
         \/ \E x \in Addresses : CheckMerchantAddress(r, x)
         \/ \E a \in AddressIds : DeleteMerchantAddress(r, a)

Next == AuthNext \/ MerchantNext
Spec == Init /\ [][Next]_vars

-----------------------------------------------------------------------------
\* Whatever Google accounts claim and whoever's callback a browser is sent to, a browser
\* is logged in as a user of the person it belongs to, and never as another's.
SessionsAreOwn == \A p \in People : session[p] # 0 => PersonOf(session[p]) = p

\* Callbacks of one account that overlap, among themselves or with create-user, make one
\* user of the account: its merchants would be split between two.
OneUserPerGoogleAccount ==
    \A u, i \in UserIds : users[u].google # None /\ users[u].google = users[i].google => u = i

DataOf(m) == <<merchants[m], {<<t, tokens[t]>> : t \in ListAPITokensByEntity("merchant", m)},
               {<<a, addresses[a]>> : a \in ListMerchantAddresses(m)}>>

\* The request that this step serves is of the person who created the merchant, on it.
OwnerActs(m) ==
    \E r \in Requests : /\ req'[r] # req[r] /\ req[r].merchant = m
                        /\ req[r].by = PersonOf(merchants[m].creator)

\* What belongs to a merchant (its row, tokens and addresses) changes only by a request
\* that the person who created it sent, whatever ids others' requests name.
TenantsAreIsolated ==
    [][\A m \in MerchantIds : merchants[m].state # "none" => DataOf(m)' = DataOf(m) \/ OwnerActs(m)]_vars

\* What GET requests list is the person's own: the tokens were given to him.
SeesOwnOnly ==
    \A r \in Requests : In(r, "handle") =>
        /\ \A t \in ListAPITokensByEntity("merchant", req[r].merchant) :
              tokens[t].holder = req[r].by /\ tokens[t].type = "merchant"
        /\ \A m \in ListMerchantsByCreatorID(merchants[req[r].merchant].creator) :
              PersonOf(merchants[m].creator) = req[r].by
=============================================================================
