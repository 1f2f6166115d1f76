----------------------------- MODULE AccountsProofs -----------------------------
(***************************************************************************)
(* Nobody is logged in as someone else, an account of Google has one user, *)
(* and nobody changes or lists what belongs to another's merchant, for any *)
(* number of people, accounts, merchants and requests that overlap.  The   *)
(* invariant gives every row and every request that is being served its    *)
(* person; it is kept because a user's e-mail and a merchant's creator     *)
(* never change once they are there (Grows).                               *)
(***************************************************************************)
EXTENDS Accounts, TLAPS

Registered(u) == u \in UserIds /\ users[u].email \in Emails

\* The merchant exists and p created it.
OwnMerchant(m, p) ==
    /\ m \in MerchantIds /\ merchants[m].state # "none"
    /\ Registered(merchants[m].creator) /\ PersonOf(merchants[m].creator) = p

UserOK(x) ==
    \/ x = NoUser
    \/ /\ x \in [email: Emails, google: Googles \cup {None}, password: BOOLEAN]
       /\ x.google # None => OwnerOf[x.google] = OwnerOf[x.email]
UsersOK ==
    /\ users = [u \in UserIds |-> users[u]] /\ \A u \in UserIds : UserOK(users[u])
    /\ OneUserPerGoogleAccount

MerchantOK(x) ==
    DOMAIN x = DOMAIN NoMerchant /\ (x.state # "none" => Registered(x.creator))
MerchantsOK ==
    merchants = [m \in MerchantIds |-> merchants[m]] /\ \A m \in MerchantIds : MerchantOK(merchants[m])

TokenOK(x) ==
    /\ x.type = "user" => Registered(x.entity) /\ x.holder = PersonOf(x.entity)
    /\ x.type = "merchant" => OwnMerchant(x.entity, x.holder)
TokensOK == tokens = [t \in TokenIds |-> tokens[t]] /\ \A t \in TokenIds : TokenOK(tokens[t])

SessionOK(p, u) == u = 0 \/ (Registered(u) /\ PersonOf(u) = p)
BrowsersOK ==
    /\ session = [p \in People |-> session[p]] /\ \A p \in People : SessionOK(p, session[p])
    /\ state = [p \in People |-> state[p]] /\ \A p \in People : state[p] \in {None, p}

ReqOK(l) ==
    /\ DOMAIN l = DOMAIN Served
    /\ l.pc \in {"google", "email", "link", "create"} => l.google \in Googles /\ OwnerOf[l.google] = l.by
    /\ l.pc \in {"email", "link", "create"} => l.google \in Verified /\ l.email = EmailOf[l.google]
    /\ l.pc = "link" => l.user \in UserIds /\ users[l.user].email = l.email
    /\ l.pc = "register" => l.email \in Emails
    /\ l.pc \in {"handle", "change", "address"} => OwnMerchant(l.merchant, l.by)
ReqsOK == req = [r \in Requests |-> req[r]] /\ \A r \in Requests : ReqOK(req[r])

Inv == UsersOK /\ MerchantsOK /\ TokensOK /\ BrowsersOK /\ ReqsOK

\* Neither a user's e-mail nor a merchant's creator changes.
Grows ==
    /\ \A u \in UserIds : users[u].email \in Emails => users'[u].email = users[u].email
    /\ \A m \in MerchantIds : merchants[m].state # "none" =>
          merchants'[m].state # "none" /\ merchants'[m].creator = merchants[m].creator

USE AccountsAssumption, FirstAssumption

-----------------------------------------------------------------------------
(* What stays true of a row while the other tables grow *)

LEMMA RegisteredKept ==
    ASSUME Grows, NEW u, Registered(u)
    PROVE  Registered(u)' /\ PersonOf(u)' = PersonOf(u)
  BY DEF Registered, Grows, PersonOf

LEMMA OwnKept ==
    ASSUME Grows, NEW m, NEW p, OwnMerchant(m, p)
    PROVE  OwnMerchant(m, p)'
  <1>1. merchants'[m].state # "none" /\ merchants'[m].creator = merchants[m].creator
    BY DEF Grows, OwnMerchant
  <1>2. PICK u : u = merchants[m].creator /\ Registered(u) /\ PersonOf(u) = p
    BY DEF OwnMerchant
  <1>3. Registered(u)' /\ PersonOf(u)' = p
    BY <1>2, RegisteredKept
  <1> QED
    BY <1>1, <1>2, <1>3 DEF OwnMerchant, Registered, PersonOf

LEMMA TokenKept ==
    ASSUME Grows, NEW x, TokenOK(x)
    PROVE  TokenOK(x)'
  <1>1. x.type = "user" => Registered(x.entity)' /\ x.holder = PersonOf(x.entity)'
    BY RegisteredKept DEF TokenOK
  <1>2. x.type = "merchant" => OwnMerchant(x.entity, x.holder)'
    BY OwnKept DEF TokenOK
  <1> QED
    BY <1>1, <1>2 DEF TokenOK, Registered, OwnMerchant, PersonOf

LEMMA SessionKept ==
    ASSUME Grows, NEW p, NEW u, SessionOK(p, u)
    PROVE  SessionOK(p, u)'
  BY RegisteredKept DEF SessionOK

LEMMA ReqKept ==
    ASSUME Grows, NEW l, ReqOK(l)
    PROVE  ReqOK(l)'
  <1>1. l.pc \in {"handle", "change", "address"} => OwnMerchant(l.merchant, l.by)'
    BY OwnKept DEF ReqOK
  <1>2. l.pc = "link" => l.user \in UserIds /\ users'[l.user].email = l.email
    BY DEF ReqOK, Grows
  <1> QED
    BY <1>1, <1>2 DEF ReqOK, OwnMerchant

LEMMA NoUserNew ==
    ASSUME Inv, NEW u \in UserIds
    PROVE  users[u] # NoUser <=> users[u].email \in Emails
  BY DEF Inv, UsersOK, UserOK, NoUser

-----------------------------------------------------------------------------
(* Tables that a step does not touch *)

LEMMA Untouched ==
    ASSUME Inv, Grows
    PROVE  /\ UNCHANGED tokens => TokensOK'
           /\ UNCHANGED browsers => BrowsersOK'
           /\ UNCHANGED req => ReqsOK'
           /\ UNCHANGED users => UsersOK'
           /\ UNCHANGED merchants => MerchantsOK'
  <1>1. UNCHANGED tokens => TokensOK'
    BY TokenKept DEF Inv, TokensOK
  <1>2. UNCHANGED browsers => BrowsersOK'
    BY SessionKept DEF Inv, BrowsersOK, browsers
  <1>3. UNCHANGED req => ReqsOK'
    BY ReqKept DEF Inv, ReqsOK
  <1>4. UNCHANGED users => UsersOK'
    BY DEF Inv, UsersOK, UserOK, OneUserPerGoogleAccount
  <1>5. UNCHANGED merchants => MerchantsOK'
    BY RegisteredKept DEF Inv, MerchantsOK, MerchantOK
  <1> QED
    BY <1>1, <1>2, <1>3, <1>4, <1>5

LEMMA SameRows ==
    ASSUME UNCHANGED <<users, merchants>>
    PROVE  Grows
  BY DEF Grows

\* One request moves on, or is answered.
LEMMA ReqMoves ==
    ASSUME Inv, Grows, NEW r \in Requests, NEW l, req' = [req EXCEPT ![r] = l], ReqOK(l)'
    PROVE  ReqsOK'
  <1>1. req' = [q \in Requests |-> req'[q]] /\ req'[r] = l /\ \A q \in Requests : q # r => req'[q] = req[q]
    BY DEF Inv, ReqsOK
  <1>2. ASSUME NEW q \in Requests
        PROVE  ReqOK(req[q])'
    <2>1. CASE q = r
      BY <1>1, <2>1 DEF ReqOK, OwnMerchant
    <2>2. CASE q # r
      <3>1. ReqOK(req[q])
        BY DEF Inv, ReqsOK
      <3>2. PICK k : k = req[q] /\ ReqOK(k)
        BY <3>1
      <3>3. ReqOK(k)' /\ req'[q] = k
        BY <1>1, <2>2, <3>2, ReqKept
      <3> QED
        BY <3>3 DEF ReqOK, OwnMerchant
    <2> QED
      BY <2>1, <2>2
  <1> QED
    BY <1>1, <1>2 DEF ReqsOK

LEMMA Answered ==
    ASSUME Inv, Grows, NEW r \in Requests, Respond(r)
    PROVE  ReqsOK'
  <1>1. ReqOK(Served)'
    BY DEF ReqOK, Served
  <1> QED
    BY <1>1, ReqMoves DEF Respond

\* A step that leaves users and merchants alone and moves one request.
LEMMA RequestStep ==
    ASSUME Inv, NEW r \in Requests, NEW l, req' = [req EXCEPT ![r] = l], ReqOK(l),
           UNCHANGED <<tables, browsers>>
    PROVE  Inv'
  <1>1. Grows /\ UNCHANGED <<users, merchants, tokens>>
    BY SameRows DEF tables
  <1>2. ReqOK(l)'
    BY <1>1, ReqKept
  <1> QED
    BY <1>1, <1>2, ReqMoves, Untouched DEF Inv

\* Nothing follows from a request that is answered.
LEMMA AnswerStep ==
    ASSUME Inv, NEW r \in Requests, Respond(r), UNCHANGED <<tables, browsers>>
    PROVE  Inv'
  <1>1. ReqOK(Served)
    BY DEF ReqOK, Served
  <1> QED
    BY <1>1, RequestStep DEF Respond

-----------------------------------------------------------------------------
(* Logging in *)

LEMMA SessionMoves ==
    ASSUME Inv, Grows, NEW p \in People, NEW u, session' = [session EXCEPT ![p] = u],
           SessionOK(p, u)', UNCHANGED state
    PROVE  BrowsersOK'
  <1>1. /\ session' = [q \in People |-> session'[q]] /\ session'[p] = u
        /\ \A q \in People : q # p => session'[q] = session[q]
    BY DEF Inv, BrowsersOK
  <1>2. ASSUME NEW q \in People
        PROVE  SessionOK(q, session[q])'
    <2>1. CASE q = p
      BY <1>1, <2>1 DEF SessionOK, Registered, PersonOf
    <2>2. CASE q # p
      <3>1. PICK k : k = session[q] /\ SessionOK(q, k)
        BY DEF Inv, BrowsersOK
      <3>2. SessionOK(q, k)' /\ session'[q] = k
        BY <1>1, <2>2, <3>1, SessionKept
      <3> QED
        BY <3>2 DEF SessionOK, Registered, PersonOf
    <2> QED
      BY <2>1, <2>2
  <1> QED
    BY <1>1, <1>2 DEF Inv, BrowsersOK

LEMMA PostLoginStep ==
    ASSUME Inv, NEW p \in People, NEW e \in Emails, PostLogin(p, e)
    PROVE  Inv'
  <1>1. PICK u \in UserIds : users[u].email = e /\ OwnerOf[e] = p /\ session' = [session EXCEPT ![p] = u]
    BY DEF PostLogin, GetUserByEmail
  <1>2. UNCHANGED <<users, merchants, tokens, state, req>>
    BY DEF PostLogin, tables
  <1>3. Grows
    BY <1>2, SameRows
  <1>4. SessionOK(p, u)'
    BY <1>1, <1>2 DEF SessionOK, Registered, PersonOf
  <1> QED
    BY <1>1, <1>2, <1>3, <1>4, SessionMoves, Untouched DEF Inv

LEMMA PostLogoutStep ==
    ASSUME Inv, NEW p \in People, PostLogout(p)
    PROVE  Inv'
  <1>1. session' = [session EXCEPT ![p] = 0] /\ UNCHANGED <<users, merchants, tokens, state, req>>
    BY DEF PostLogout, tables
  <1>2. Grows
    BY <1>1, SameRows
  <1>3. SessionOK(p, 0)'
    BY DEF SessionOK
  <1> QED
    BY <1>1, <1>2, <1>3, SessionMoves, Untouched DEF Inv

LEMMA GetRedirectStep ==
    ASSUME Inv, NEW p \in People, GetRedirect(p)
    PROVE  Inv'
  <1>1. state' = [state EXCEPT ![p] = p] /\ UNCHANGED <<users, merchants, tokens, session, req>>
    BY DEF GetRedirect, tables
  <1>2. Grows
    BY <1>1, SameRows
  <1>3. \A q \in People : SessionOK(q, session[q])'
    BY <1>1 DEF Inv, BrowsersOK, SessionOK, Registered, PersonOf
  <1>4. BrowsersOK'
    BY <1>1, <1>3 DEF Inv, BrowsersOK
  <1> QED
    BY <1>1, <1>2, <1>4, Untouched DEF Inv

\* The states tell whose browser the callback reached: the owner's of the account.
LEMMA GetCallbackStep ==
    ASSUME Inv, NEW r \in Requests, NEW p \in People, NEW a \in Googles, GetCallback(r, p, a)
    PROVE  Inv'
  <1> DEFINE l == [Served EXCEPT !.pc = "google", !.by = p, !.google = a]
  <1>1. req' = [req EXCEPT ![r] = l] /\ UNCHANGED <<tables, browsers>>
    BY DEF GetCallback
  <1>2. OwnerOf[a] \in People
    OBVIOUS
  <1>3. OwnerOf[a] = p
    BY <1>2 DEF GetCallback, Inv, BrowsersOK
  <1>4. ReqOK(l)
    BY <1>3 DEF ReqOK, Served
  <1> HIDE DEF l
  <1> QED
    BY <1>1, <1>4, RequestStep

\* The callback ends with the session of u, who is the person's own user.
LEMMA LoggedInStep ==
    ASSUME Inv, Grows, UsersOK', UNCHANGED <<merchants, tokens>>, NEW r \in Requests, NEW u,
           LoggedIn(r, u), Registered(u)', PersonOf(u)' = req[r].by, req[r].by \in People
    PROVE  Inv'
  <1>1. PICK p \in People : p = req[r].by
    OBVIOUS
  <1>2. SessionOK(p, u)' /\ session' = [session EXCEPT ![p] = u] /\ UNCHANGED state
    BY <1>1 DEF SessionOK, LoggedIn
  <1>3. BrowsersOK'
    BY <1>2, SessionMoves
  <1>4. ReqsOK'
    BY Answered DEF LoggedIn
  <1> QED
    BY <1>3, <1>4, Untouched DEF Inv

LEMMA ResolveWithGoogleStep ==
    ASSUME Inv, NEW r \in Requests, ResolveWithGoogle(r)
    PROVE  Inv'
  <1>1. PICK a : a = req[r].google
    OBVIOUS
  <1>2. /\ ReqOK(req[r]) /\ In(r, "google") /\ UNCHANGED <<merchants, tokens, addresses>>
        /\ a \in Googles /\ a # None /\ OwnerOf[a] = req[r].by /\ req[r].by \in People
    BY <1>1 DEF ResolveWithGoogle, Inv, ReqsOK, ReqOK, In
  <1>3. ASSUME NEW u \in GetUserByGoogleID(a), LoggedIn(r, u), UpdateUser(u, a, FALSE)
        PROVE  Inv'
    <2>1. u \in UserIds /\ users[u].google = a /\ UNCHANGED users
      BY <1>3 DEF GetUserByGoogleID, UpdateUser, Inv, UsersOK, UserOK, NoUser
    <2>2. Registered(u) /\ PersonOf(u) = OwnerOf[a]
      BY <2>1, <1>2 DEF Inv, UsersOK, UserOK, NoUser, Registered, PersonOf
    <2>3. Grows /\ UsersOK'
      BY <2>1, <1>2, SameRows, Untouched
    <2> QED
      BY <1>2, <1>3, <2>2, <2>3, RegisteredKept, LoggedInStep
  <1>4. CASE EmailVerified(a) /\ req' = [req EXCEPT ![r].pc = "email", ![r].email = EmailOf[a]]
             /\ UNCHANGED <<users, browsers>>
    <2> DEFINE l == [req[r] EXCEPT !.pc = "email", !.email = EmailOf[a]]
    <2>1. req' = [req EXCEPT ![r] = l]
      BY <1>4
    <2>2. ReqOK(l)
      BY <1>1, <1>2, <1>4 DEF ReqOK, Served, EmailVerified
    <2> HIDE DEF l
    <2> QED
      BY <2>1, <2>2, <1>2, <1>4, RequestStep DEF tables
  <1>5. CASE Respond(r) /\ UNCHANGED <<users, browsers>>
    BY <1>2, <1>5, AnswerStep DEF tables
  <1> QED
    BY <1>1, <1>3, <1>4, <1>5 DEF ResolveWithGoogle

LEMMA FindByEmailStep ==
    ASSUME Inv, NEW r \in Requests, FindByEmail(r)
    PROVE  Inv'
  <1>1. ReqOK(req[r]) /\ In(r, "email") /\ UNCHANGED <<tables, browsers>>
    BY DEF FindByEmail, Inv, ReqsOK
  <1>2. ASSUME NEW u \in GetUserByEmail(req[r].email),
               req' = [req EXCEPT ![r].pc = "link", ![r].user = u]
        PROVE  Inv'
    <2> DEFINE l == [req[r] EXCEPT !.pc = "link", !.user = u]
    <2>1. req' = [req EXCEPT ![r] = l]
      BY <1>2
    <2>2. ReqOK(l)
      BY <1>1, <1>2 DEF ReqOK, Served, In, GetUserByEmail
    <2> HIDE DEF l
    <2> QED
      BY <2>1, <2>2, <1>1, RequestStep
  <1>3. CASE req' = [req EXCEPT ![r].pc = "create"]
    <2> DEFINE l == [req[r] EXCEPT !.pc = "create"]
    <2>1. req' = [req EXCEPT ![r] = l]
      BY <1>3
    <2>2. ReqOK(l)
      BY <1>1 DEF ReqOK, Served, In
    <2> HIDE DEF l
    <2> QED
      BY <2>1, <2>2, <1>1, RequestStep
  <1>4. CASE Respond(r)
    BY <1>1, <1>4, AnswerStep
  <1> QED
    BY <1>2, <1>3, <1>4 DEF FindByEmail

\* A row of users is made or changed: its e-mail stays, its account is its own or new.
LEMMA UserChanges ==
    ASSUME Inv, NEW u \in UserIds, NEW x, users' = [users EXCEPT ![u] = x], UNCHANGED merchants,
           UserOK(x), users[u].email \in Emails => x.email = users[u].email,
           x.google = users[u].google \/ ~GoogleTaken(x.google)
    PROVE  UsersOK' /\ Grows /\ users'[u] = x
  <1>1. /\ users' = [i \in UserIds |-> users'[i]] /\ users'[u] = x
        /\ \A i \in UserIds : i # u => users'[i] = users[i]
    BY DEF Inv, UsersOK
  <1>2. \A i \in UserIds : UserOK(users[i])'
    BY <1>1 DEF Inv, UsersOK, UserOK
  <1>3. OneUserPerGoogleAccount'
    BY <1>1 DEF Inv, UsersOK, OneUserPerGoogleAccount, GoogleTaken
  <1>4. Grows
    BY <1>1 DEF Grows
  <1> QED
    BY <1>1, <1>2, <1>3, <1>4 DEF UsersOK

LEMMA LinkGoogleUserStep ==
    ASSUME Inv, NEW r \in Requests, LinkGoogleUser(r)
    PROVE  Inv'
  <1>1. /\ ReqOK(req[r]) /\ In(r, "link") /\ UNCHANGED <<merchants, tokens, addresses>>
    BY DEF LinkGoogleUser, Inv, ReqsOK
  <1>2. PICK u \in UserIds, a \in Verified :
           /\ u = req[r].user /\ a = req[r].google /\ users[u].email = EmailOf[a]
           /\ OwnerOf[a] = req[r].by /\ req[r].by \in People /\ OwnerOf[EmailOf[a]] = OwnerOf[a]
    BY <1>1 DEF In, ReqOK
  <1>3. CASE Respond(r) /\ UNCHANGED <<users, browsers>>
    BY <1>1, <1>3, AnswerStep DEF tables
  <1>4. CASE ~GoogleTaken(a) /\ UpdateUser(u, a, TRUE) /\ LoggedIn(r, u)
    <2> DEFINE x == [users[u] EXCEPT !.google = a]
    <2>1. users' = [users EXCEPT ![u] = x]
      BY <1>4 DEF UpdateUser
    <2>2. users[u].email \in Emails /\ UserOK(users[u])
      BY <1>2 DEF Inv, UsersOK
    <2>3. x.email = EmailOf[a] /\ x.google = a /\ UserOK(x)
      <3>1. users[u] \in [email: Emails, google: Googles \cup {None}, password: BOOLEAN]
        BY <2>2 DEF UserOK, NoUser
      <3>2. x \in [email: Emails, google: Googles \cup {None}, password: BOOLEAN]
        BY <3>1
      <3> QED
        BY <1>2, <3>1, <3>2 DEF UserOK
    <2> HIDE DEF x
    <2>4. UsersOK' /\ Grows /\ users'[u] = x
      <3>1. ~GoogleTaken(x.google) /\ x.email = users[u].email /\ UNCHANGED merchants
        BY <1>1, <1>2, <1>4, <2>3
      <3> QED
        BY <2>1, <2>3, <3>1, UserChanges
    <2>5. Registered(u)' /\ PersonOf(u)' = req[r].by
      BY <1>2, <2>3, <2>4 DEF Registered, PersonOf
    <2> QED
      BY <1>1, <1>2, <1>4, <2>4, <2>5, LoggedInStep
  <1> QED
    BY <1>2, <1>3, <1>4 DEF LinkGoogleUser

\* A new user has a row that was free.
LEMMA UserCreated ==
    ASSUME Inv, NEW e \in Emails, NEW g, NEW pass \in BOOLEAN, CreateUser(e, g, pass),
           UNCHANGED merchants, g = None \/ (g \in Googles /\ ~GoogleTaken(g) /\ OwnerOf[g] = OwnerOf[e])
    PROVE  /\ UsersOK' /\ Grows
           /\ \A u \in UserIds : users[u] = NoUser /\ users'[u] # NoUser => users'[u].email = e
  <1> DEFINE x == [email |-> e, google |-> g, password |-> pass]
  <1>1. PICK u \in UserIds : users[u] = NoUser /\ users' = [users EXCEPT ![u] = x]
    BY DEF CreateUser
  <1>2. UserOK(x) /\ x.email = e /\ x.google = g
    BY DEF UserOK
  <1>3. users[u].email \notin Emails /\ users[u].google = None
    BY <1>1 DEF NoUser
  <1> HIDE DEF x
  <1>4. UsersOK' /\ Grows /\ users'[u] = x
    BY <1>1, <1>2, <1>3, UserChanges
  <1>5. \A i \in UserIds : i # u => users'[i] = users[i]
    BY <1>1 DEF Inv, UsersOK
  <1> QED
    BY <1>2, <1>4, <1>5

LEMMA RegisterGoogleStep ==
    ASSUME Inv, NEW r \in Requests, registerGoogleUser(r)
    PROVE  Inv'
  <1>1. /\ ReqOK(req[r]) /\ In(r, "create") /\ UNCHANGED <<merchants, tokens, addresses>>
    BY DEF registerGoogleUser, Inv, ReqsOK
  <1>2. PICK e \in Emails, a \in Verified :
           /\ e = req[r].email /\ a = req[r].google /\ a \in Googles
           /\ OwnerOf[a] = req[r].by /\ req[r].by \in People /\ OwnerOf[e] = OwnerOf[a]
    BY <1>1 DEF In, ReqOK
  <1>3. CASE Respond(r) /\ UNCHANGED <<users, browsers>>
    BY <1>1, <1>3, AnswerStep DEF tables
  <1>4. CASE /\ ~GoogleTaken(a) /\ CreateUser(e, a, FALSE)
             /\ \E u \in UserIds : users[u] = NoUser /\ users'[u] # NoUser /\ LoggedIn(r, u)
    <2>1. PICK u \in UserIds : users[u] = NoUser /\ users'[u] # NoUser /\ LoggedIn(r, u)
      BY <1>4
    <2>2. UsersOK' /\ Grows /\ users'[u].email = e
      BY <1>1, <1>2, <1>4, <2>1, UserCreated
    <2>3. Registered(u)' /\ PersonOf(u)' = req[r].by
      BY <1>2, <2>2 DEF Registered, PersonOf
    <2> QED
      BY <1>1, <1>2, <2>1, <2>2, <2>3, LoggedInStep
  <1> QED
    BY <1>2, <1>3, <1>4 DEF registerGoogleUser

LEMMA RegisterStep ==
    ASSUME Inv, NEW r \in Requests, NEW e \in Emails, Register(r, e)
    PROVE  Inv'
  <1>1. UNCHANGED <<merchants, tokens, addresses, browsers>>
    BY DEF Register
  <1>2. ASSUME NEW u \in GetUserByEmail(e), UpdateUserPassword(u), UNCHANGED req
        PROVE  Inv'
    <2> DEFINE x == [users[u] EXCEPT !.password = TRUE]
    <2>1. u \in UserIds /\ users' = [users EXCEPT ![u] = x]
      BY <1>2 DEF UpdateUserPassword, GetUserByEmail
    <2>2. UserOK(users[u]) /\ users[u].email = e
      BY <1>2, <2>1 DEF Inv, UsersOK, GetUserByEmail
    <2>3. UserOK(x) /\ x.email = users[u].email /\ x.google = users[u].google
      <3>1. users[u] \in [email: Emails, google: Googles \cup {None}, password: BOOLEAN]
        BY <2>2 DEF UserOK, NoUser
      <3>2. x \in [email: Emails, google: Googles \cup {None}, password: BOOLEAN]
        BY <3>1
      <3> QED
        BY <2>2, <3>1, <3>2 DEF UserOK, NoUser
    <2> HIDE DEF x
    <2>4. UsersOK' /\ Grows
      BY <1>1, <2>1, <2>3, UserChanges
    <2> QED
      BY <1>1, <1>2, <2>4, Untouched DEF Inv
  <1>3. CASE req' = [req EXCEPT ![r] = [Served EXCEPT !.pc = "register", !.email = e]] /\ UNCHANGED users
    <2> DEFINE l == [Served EXCEPT !.pc = "register", !.email = e]
    <2>1. ReqOK(l)
      BY DEF ReqOK, Served
    <2> HIDE DEF l
    <2> QED
      BY <1>1, <1>3, <2>1, RequestStep DEF tables, l
  <1> QED
    BY <1>2, <1>3 DEF Register

LEMMA CreateRegisteredStep ==
    ASSUME Inv, NEW r \in Requests, CreateRegistered(r)
    PROVE  Inv'
  <1>1. /\ CreateUser(req[r].email, None, TRUE) /\ Respond(r) /\ UNCHANGED <<merchants, tokens, browsers>>
        /\ req[r].email \in Emails
    BY DEF CreateRegistered, Inv, ReqsOK, ReqOK, In
  <1>2. UsersOK' /\ Grows
    BY <1>1, UserCreated
  <1> QED
    BY <1>1, <1>2, Answered, Untouched DEF Inv

-----------------------------------------------------------------------------
(* Requests on merchants *)

\* The user of a browser or a token is the person's own.
LEMMA ResolvedUser ==
    ASSUME Inv, NEW p \in People, NEW t \in {0} \cup TokenIds, Holds(p, t),
           NEW u \in ResolvesUserByToken(p, t)
    PROVE  Registered(u) /\ PersonOf(u) = p
  <1>1. u \in UserIds /\ (u = session[p] \/ \E i \in GetAPIToken("user", t) : u = tokens[i].entity)
    BY DEF ResolvesUserByToken
  <1>2. CASE u = session[p]
    BY <1>1, <1>2 DEF Inv, BrowsersOK, SessionOK, UserIds
  <1>3. ASSUME NEW i \in GetAPIToken("user", t), u = tokens[i].entity
        PROVE  Registered(u) /\ PersonOf(u) = p
    <2>1. i \in TokenIds /\ i = t /\ tokens[i].type = "user" /\ t # 0
      BY <1>3 DEF GetAPIToken, TokenIds
    <2> QED
      BY <1>3, <2>1 DEF Inv, TokensOK, TokenOK, Holds
  <1> QED
    BY <1>1, <1>2, <1>3

LEMMA MerchantChanges ==
    ASSUME Inv, NEW m \in MerchantIds, NEW x, merchants' = [merchants EXCEPT ![m] = x], UNCHANGED users,
           MerchantOK(x), merchants[m].state # "none" => x.state # "none" /\ x.creator = merchants[m].creator
    PROVE  /\ MerchantsOK' /\ Grows /\ UsersOK'
           /\ \A i \in MerchantIds : i # m => merchants'[i] = merchants[i]
  <1>1. /\ merchants' = [i \in MerchantIds |-> merchants'[i]] /\ merchants'[m] = x
        /\ \A i \in MerchantIds : i # m => merchants'[i] = merchants[i]
    BY DEF Inv, MerchantsOK
  <1>2. Grows
    BY <1>1 DEF Grows
  <1>3. \A i \in MerchantIds : MerchantOK(merchants[i])'
    BY <1>1 DEF Inv, MerchantsOK, MerchantOK, Registered
  <1> QED
    BY <1>1, <1>2, <1>3, Untouched DEF MerchantsOK

LEMMA CreateMerchantStep ==
    ASSUME Inv, NEW p \in People, NEW t \in {0} \cup TokenIds, HandleCreateMerchant(p, t)
    PROVE  /\ Inv'
           /\ \A m \in MerchantIds : merchants[m].state # "none" => merchants'[m] = merchants[m]
  <1>1. PICK u \in ResolvesUserByToken(p, t) : CreateMerchant(u)
    BY DEF HandleCreateMerchant
  <1>2. Registered(u) /\ UNCHANGED <<users, tokens, addresses, browsers, req>>
    BY ResolvedUser DEF HandleCreateMerchant
  <1> DEFINE x == [NoMerchant EXCEPT !.state = "live", !.creator = u]
  <1>3. PICK m \in MerchantIds : merchants[m].state = "none" /\ merchants' = [merchants EXCEPT ![m] = x]
    BY <1>1 DEF CreateMerchant
  <1>4. MerchantOK(x)
    BY <1>2 DEF MerchantOK, NoMerchant
  <1> HIDE DEF x
  <1>5. /\ MerchantsOK' /\ Grows /\ UsersOK'
        /\ \A i \in MerchantIds : i # m => merchants'[i] = merchants[i]
    BY <1>2, <1>3, <1>4, MerchantChanges
  <1> QED
    BY <1>2, <1>3, <1>5, Untouched DEF Inv

LEMMA DashboardRequestStep ==
    ASSUME Inv, NEW r \in Requests, NEW p \in People, NEW t \in {0} \cup TokenIds, NEW m \in MerchantIds,
           DashboardRequest(r, p, t, m)
    PROVE  Inv'
  <1> DEFINE l == [Served EXCEPT !.pc = "handle", !.by = p, !.merchant = m, !.settings = merchants[m].settings]
  <1>1. PICK u \in ResolvesUserByToken(p, t) : merchants[m].creator = u /\ merchants[m].state = "live"
    BY DEF DashboardRequest, GuardsMerchants, ResolvesMerchantByUUID, GetMerchantByUUIDAndCreatorID
  <1>2. Registered(u) /\ PersonOf(u) = p
    BY ResolvedUser DEF DashboardRequest
  <1>3. ReqOK(l)
    BY <1>1, <1>2 DEF ReqOK, Served, OwnMerchant
  <1>4. req' = [req EXCEPT ![r] = l] /\ UNCHANGED <<tables, browsers>>
    BY DEF DashboardRequest, Accepted
  <1> HIDE DEF l
  <1> QED
    BY <1>3, <1>4, RequestStep

LEMMA MerchantRequestStep ==
    ASSUME Inv, NEW r \in Requests, NEW p \in People, NEW t \in {0} \cup TokenIds, NEW m \in MerchantIds,
           MerchantRequest(r, p, t, m)
    PROVE  Inv'
  <1> DEFINE l == [Served EXCEPT !.pc = "read", !.by = p, !.merchant = m]
  <1>1. ReqOK(l)
    BY DEF ReqOK, Served
  <1>2. req' = [req EXCEPT ![r] = l] /\ UNCHANGED <<tables, browsers>>
    BY DEF MerchantRequest
  <1> HIDE DEF l
  <1> QED
    BY <1>1, <1>2, RequestStep

LEMMA ChangeRequestStep ==
    ASSUME Inv, NEW r \in Requests, NEW p \in Properties, ChangeRequest(r, p)
    PROVE  Inv'
  <1> DEFINE l == [req[r] EXCEPT !.pc = "change", !.change = p]
  <1>1. ReqOK(req[r]) /\ In(r, "handle") /\ req' = [req EXCEPT ![r] = l] /\ UNCHANGED <<tables, browsers>>
    BY DEF ChangeRequest, Inv, ReqsOK
  <1>2. ReqOK(l)
    BY <1>1 DEF ReqOK, Served, In
  <1> HIDE DEF l
  <1> QED
    BY <1>1, <1>2, RequestStep

LEMMA CheckAddressStep ==
    ASSUME Inv, NEW r \in Requests, NEW a \in Addresses, CheckMerchantAddress(r, a)
    PROVE  Inv'
  <1> DEFINE l == [req[r] EXCEPT !.pc = "address", !.address = a]
  <1>1. /\ ReqOK(req[r]) /\ In(r, "handle") /\ UNCHANGED <<tables, browsers>>
        /\ Respond(r) \/ req' = [req EXCEPT ![r] = l]
    BY DEF CheckMerchantAddress, Inv, ReqsOK
  <1>2. ReqOK(l)
    BY <1>1 DEF ReqOK, Served, In
  <1> HIDE DEF l
  <1> QED
    BY <1>1, <1>2, RequestStep, AnswerStep

-----------------------------------------------------------------------------
(* Handlers, which work on the merchant of their request *)

\* A request that a handler serves is of the person who created its merchant.
LEMMA HandlerOwns ==
    ASSUME Inv, NEW r \in Requests, req[r].pc \in {"handle", "change", "address"}, Respond(r)
    PROVE  OwnMerchant(req[r].merchant, req[r].by) /\ OwnerActs(req[r].merchant)
  <1>1. ReqOK(req[r]) /\ req'[r] = Served /\ Served.pc = "idle"
    BY DEF Inv, ReqsOK, Respond, Served
  <1>2. OwnMerchant(req[r].merchant, req[r].by) /\ req'[r] # req[r]
    BY <1>1 DEF ReqOK
  <1> QED
    BY <1>2 DEF OwnMerchant, OwnerActs

\* The row of the handler's merchant changes: it stays a merchant of its creator.
LEMMA RowStep ==
    ASSUME Inv, NEW r \in Requests, Respond(r), req[r].pc \in {"handle", "change", "address"},
           NEW x, merchants' = [merchants EXCEPT ![req[r].merchant] = x],
           DOMAIN x = DOMAIN NoMerchant, x.state # "none", x.creator = merchants[req[r].merchant].creator,
           UNCHANGED <<users, tokens, browsers>>
    PROVE  /\ Inv' /\ OwnerActs(req[r].merchant)
           /\ \A m \in MerchantIds : m # req[r].merchant => merchants'[m] = merchants[m]
  <1>1. PICK m \in MerchantIds : m = req[r].merchant /\ OwnMerchant(m, req[r].by) /\ OwnerActs(m)
    BY HandlerOwns DEF OwnMerchant
  <1>2. MerchantOK(x)
    BY <1>1 DEF MerchantOK, OwnMerchant
  <1>3. /\ MerchantsOK' /\ Grows /\ UsersOK'
        /\ \A i \in MerchantIds : i # m => merchants'[i] = merchants[i]
    BY <1>1, <1>2, MerchantChanges
  <1> QED
    BY <1>1, <1>3, Answered, Untouched DEF Inv

LEMMA DeleteMerchantStep ==
    ASSUME Inv, NEW r \in Requests, DeleteMerchant(r)
    PROVE  /\ Inv' /\ OwnerActs(req[r].merchant)
           /\ \A m \in MerchantIds : m # req[r].merchant => merchants'[m] = merchants[m]
  <1> DEFINE x == [merchants[req[r].merchant] EXCEPT !.state = "deleted"]
  <1>1. /\ merchants' = [merchants EXCEPT ![req[r].merchant] = x] /\ req[r].pc = "handle" /\ Respond(r)
        /\ UNCHANGED <<users, tokens, browsers>>
    BY DEF DeleteMerchant, SoftDeleteMerchantByUUID, Handles, In
  <1>2. OwnMerchant(req[r].merchant, req[r].by)
    BY <1>1, HandlerOwns
  <1>3. DOMAIN x = DOMAIN NoMerchant /\ x.state # "none" /\ x.creator = merchants[req[r].merchant].creator
    BY <1>2 DEF OwnMerchant, Inv, MerchantsOK, MerchantOK, NoMerchant
  <1> HIDE DEF x
  <1> QED
    BY <1>1, <1>3, RowStep

LEMMA UpdateSettingsStep ==
    ASSUME Inv, NEW r \in Requests, NEW v, UpdateSettings(r, v)
    PROVE  /\ Inv' /\ OwnerActs(req[r].merchant)
           /\ \A m \in MerchantIds : m # req[r].merchant => merchants'[m] = merchants[m]
  <1> DEFINE x == [merchants[req[r].merchant] EXCEPT !.settings = UpsertSettings(req[r].settings, req[r].change, v)]
  <1>1. /\ merchants' = [merchants EXCEPT ![req[r].merchant] = x] /\ req[r].pc = "change" /\ Respond(r)
        /\ UNCHANGED <<users, tokens, browsers>>
    BY DEF UpdateSettings, UpdateMerchantSettings, In
  <1>2. OwnMerchant(req[r].merchant, req[r].by)
    BY <1>1, HandlerOwns
  <1>3. DOMAIN x = DOMAIN NoMerchant /\ x.state # "none" /\ x.creator = merchants[req[r].merchant].creator
    BY <1>2 DEF OwnMerchant, Inv, MerchantsOK, MerchantOK, NoMerchant
  <1> HIDE DEF x
  <1> QED
    BY <1>1, <1>3, RowStep

\* A token is made or deleted.
LEMMA TokenStep ==
    ASSUME Inv, NEW r \in Requests, Respond(r), NEW t \in TokenIds, NEW x,
           tokens' = [tokens EXCEPT ![t] = x], TokenOK(x), UNCHANGED <<users, merchants, browsers>>
    PROVE  Inv' /\ tokens'[t] = x /\ \A i \in TokenIds : i # t => tokens'[i] = tokens[i]
  <1>1. /\ tokens' = [i \in TokenIds |-> tokens'[i]] /\ tokens'[t] = x
        /\ \A i \in TokenIds : i # t => tokens'[i] = tokens[i]
    BY DEF Inv, TokensOK
  <1>2. Grows
    BY SameRows
  <1>3. \A i \in TokenIds : TokenOK(tokens[i])'
    BY <1>1 DEF Inv, TokensOK, TokenOK, Registered, PersonOf, OwnMerchant
  <1> QED
    BY <1>1, <1>2, <1>3, Answered, Untouched DEF Inv, TokensOK

\* Two rows of one token that are both not of the merchant m.
NotOf(m, x, y) == ~(x.entity = m /\ x.type = "merchant") /\ ~(y.entity = m /\ y.type = "merchant")

LEMMA CreateTokenStep ==
    ASSUME Inv, NEW r \in Requests, CreateMerchantToken(r)
    PROVE  /\ Inv' /\ OwnerActs(req[r].merchant)
           /\ \A m \in MerchantIds \ {req[r].merchant}, i \in TokenIds :
                 tokens'[i] = tokens[i] \/ NotOf(m, tokens[i], tokens'[i])
  <1> DEFINE x == [type |-> "merchant", entity |-> req[r].merchant, holder |-> req[r].by]
  <1>1. req[r].pc = "handle" /\ Respond(r) /\ UNCHANGED <<users, merchants, browsers>>
    BY DEF CreateMerchantToken, Handles, In
  <1>2. PICK t \in TokenIds : tokens[t] = NoToken /\ tokens' = [tokens EXCEPT ![t] = x]
    BY DEF CreateMerchantToken, CreateAPIToken
  <1>3. OwnMerchant(req[r].merchant, req[r].by) /\ OwnerActs(req[r].merchant)
    BY <1>1, HandlerOwns
  <1>4. TokenOK(x) /\ x.entity = req[r].merchant
    BY <1>3 DEF TokenOK
  <1> HIDE DEF x
  <1>5. Inv' /\ tokens'[t] = x /\ \A i \in TokenIds : i # t => tokens'[i] = tokens[i]
    BY <1>1, <1>2, <1>4, TokenStep
  <1>6. \A m \in MerchantIds \ {req[r].merchant} : NotOf(m, tokens[t], x)
    BY <1>2, <1>4 DEF NotOf, NoToken
  <1> QED
    BY <1>3, <1>5, <1>6

LEMMA DeleteTokenStep ==
    ASSUME Inv, NEW r \in Requests, NEW t \in TokenIds, DeleteMerchantTokens(r, t)
    PROVE  /\ Inv' /\ OwnerActs(req[r].merchant)
           /\ \A m \in MerchantIds \ {req[r].merchant}, i \in TokenIds :
                 tokens'[i] = tokens[i] \/ NotOf(m, tokens[i], tokens'[i])
  <1>1. req[r].pc = "handle" /\ Respond(r) /\ UNCHANGED <<users, merchants, browsers>>
    BY DEF DeleteMerchantTokens, Handles, In
  <1>2. PICK k \in TokenIds : tokens[k].entity = req[r].merchant /\ tokens' = [tokens EXCEPT ![k] = NoToken]
    BY DEF DeleteMerchantTokens, GetMerchantTokenByUUID, GetAPITokenByUUID, DeleteAPITokenByID
  <1>3. OwnerActs(req[r].merchant)
    BY <1>1, HandlerOwns
  <1>4. TokenOK(NoToken) /\ NoToken.type = "none"
    BY DEF TokenOK, NoToken
  <1>5. Inv' /\ tokens'[k] = NoToken /\ \A i \in TokenIds : i # k => tokens'[i] = tokens[i]
    BY <1>1, <1>2, <1>4, TokenStep
  <1>6. \A m \in MerchantIds \ {req[r].merchant} : NotOf(m, tokens[k], NoToken)
    BY <1>2, <1>4 DEF NotOf
  <1> QED
    BY <1>3, <1>5, <1>6

AddressesOK == addresses = [a \in AddressIds |-> addresses[a]]

\* An address is added or removed.
LEMMA AddressStep ==
    ASSUME Inv, AddressesOK, NEW r \in Requests, Respond(r), req[r].pc \in {"handle", "address"},
           NEW a \in AddressIds, NEW x, addresses' = [addresses EXCEPT ![a] = x],
           addresses[a].merchant \in {0, req[r].merchant}, x.merchant \in {0, req[r].merchant},
           UNCHANGED <<users, merchants, tokens, browsers>>
    PROVE  /\ Inv' /\ OwnerActs(req[r].merchant) /\ AddressesOK'
           /\ \A m \in MerchantIds \ {req[r].merchant}, i \in AddressIds :
                 \/ addresses'[i] = addresses[i]
                 \/ addresses[i].merchant # m /\ addresses'[i].merchant # m
  <1>1. OwnerActs(req[r].merchant)
    BY HandlerOwns
  <1>2. Grows
    BY SameRows
  <1>3. Inv'
    BY <1>2, Answered, Untouched DEF Inv
  <1>4. /\ AddressesOK' /\ addresses'[a] = x
        /\ \A i \in AddressIds : i # a => addresses'[i] = addresses[i]
    BY DEF AddressesOK
  <1>5. 0 \notin MerchantIds
    BY DEF MerchantIds
  <1> QED
    BY <1>1, <1>3, <1>4, <1>5

LEMMA CreateAddressStep ==
    ASSUME Inv, AddressesOK, NEW r \in Requests, CreateMerchantAddress(r)
    PROVE  /\ Inv' /\ OwnerActs(req[r].merchant) /\ AddressesOK'
           /\ \A m \in MerchantIds \ {req[r].merchant}, i \in AddressIds :
                 \/ addresses'[i] = addresses[i]
                 \/ addresses[i].merchant # m /\ addresses'[i].merchant # m
  <1> DEFINE x == [merchant |-> req[r].merchant, address |-> req[r].address]
  <1>1. PICK a \in AddressIds : addresses[a] = NoAddress /\ addresses' = [addresses EXCEPT ![a] = x]
    BY DEF CreateMerchantAddress, InsertMerchantAddress
  <1>2. x.merchant = req[r].merchant /\ NoAddress.merchant = 0
    BY DEF NoAddress
  <1>3. req[r].pc = "address" /\ Respond(r) /\ UNCHANGED <<users, merchants, tokens, browsers>>
    BY DEF CreateMerchantAddress, In
  <1> HIDE DEF x
  <1> QED
    BY <1>1, <1>2, <1>3, AddressStep

LEMMA DeleteAddressStep ==
    ASSUME Inv, AddressesOK, NEW r \in Requests, NEW a \in AddressIds, DeleteMerchantAddress(r, a)
    PROVE  /\ Inv' /\ OwnerActs(req[r].merchant) /\ AddressesOK'
           /\ \A m \in MerchantIds \ {req[r].merchant}, i \in AddressIds :
                 \/ addresses'[i] = addresses[i]
                 \/ addresses[i].merchant # m /\ addresses'[i].merchant # m
  <1>1. PICK k \in AddressIds : addresses[k].merchant = req[r].merchant /\ addresses' = [addresses EXCEPT ![k] = NoAddress]
    BY DEF DeleteMerchantAddress, GetMerchantAddressByUUID, RemoveMerchantAddress
  <1>2. NoAddress.merchant = 0
    BY DEF NoAddress
  <1>3. req[r].pc = "handle" /\ Respond(r) /\ UNCHANGED <<users, merchants, tokens, browsers>>
    BY DEF DeleteMerchantAddress, Handles, In
  <1> QED
    BY <1>1, <1>2, <1>3, AddressStep

-----------------------------------------------------------------------------
(* What belongs to a merchant *)

Isolated == \A m \in MerchantIds : merchants[m].state # "none" => DataOf(m)' = DataOf(m) \/ OwnerActs(m)

\* It stays, if its row does and no token and no address of it comes or goes.
LEMMA DataKept ==
    ASSUME NEW m, merchants'[m] = merchants[m],
           \A i \in TokenIds : tokens'[i] = tokens[i] \/ NotOf(m, tokens[i], tokens'[i]),
           \A i \in AddressIds : \/ addresses'[i] = addresses[i]
                                 \/ addresses[i].merchant # m /\ addresses'[i].merchant # m
    PROVE  DataOf(m)' = DataOf(m)
  <1>1. /\ ListAPITokensByEntity("merchant", m)' = ListAPITokensByEntity("merchant", m)
        /\ \A t \in ListAPITokensByEntity("merchant", m) : tokens'[t] = tokens[t]
    BY DEF ListAPITokensByEntity, NotOf
  <1>2. /\ ListMerchantAddresses(m)' = ListMerchantAddresses(m)
        /\ \A a \in ListMerchantAddresses(m) : addresses'[a] = addresses[a]
    BY DEF ListMerchantAddresses
  <1>3. {<<t, tokens[t]>> : t \in ListAPITokensByEntity("merchant", m)}'
          = {<<t, tokens[t]>> : t \in ListAPITokensByEntity("merchant", m)}
    BY <1>1
  <1>4. {<<a, addresses[a]>> : a \in ListMerchantAddresses(m)}'
          = {<<a, addresses[a]>> : a \in ListMerchantAddresses(m)}
    BY <1>2
  <1> QED
    BY <1>3, <1>4 DEF DataOf

\* The data of one merchant only, the handler's own, may change.
LEMMA OthersKept ==
    ASSUME NEW n, OwnerActs(n),
           \A m \in MerchantIds \ {n} : merchants'[m] = merchants[m],
           \A m \in MerchantIds \ {n}, i \in TokenIds :
                 tokens'[i] = tokens[i] \/ NotOf(m, tokens[i], tokens'[i]),
           \A m \in MerchantIds \ {n}, i \in AddressIds :
                 \/ addresses'[i] = addresses[i]
                 \/ addresses[i].merchant # m /\ addresses'[i].merchant # m
    PROVE  Isolated
  <1> SUFFICES ASSUME NEW m \in MerchantIds, m # n
               PROVE  DataOf(m)' = DataOf(m)
    BY DEF Isolated
  <1> QED
    BY DataKept

LEMMA TablesKept ==
    ASSUME UNCHANGED <<merchants, tokens, addresses>>
    PROVE  Isolated
  BY DEF Isolated, DataOf, ListAPITokensByEntity, ListMerchantAddresses

-----------------------------------------------------------------------------
LEMMA InitInv == Init => Inv /\ AddressesOK
  <1> SUFFICES ASSUME Init PROVE Inv /\ AddressesOK
    OBVIOUS
  <1>1. UsersOK
    <2>1. ASSUME NEW u \in UserIds
          PROVE  /\ users[u] = IF u \in DOMAIN FirstUsers THEN FirstUsers[u] ELSE NoUser
                 /\ UserOK(users[u])
      BY DEF Init, UserOK
    <2>2. OneUserPerGoogleAccount
      BY <2>1 DEF OneUserPerGoogleAccount, NoUser
    <2> QED
      BY <2>1, <2>2 DEF UsersOK, Init
  <1>2. \A u \in UserIds \cap DOMAIN FirstUsers : Registered(u) /\ users[u] = FirstUsers[u]
    BY DEF Init, Registered
  <1>3. ASSUME NEW m \in MerchantIds
        PROVE  /\ MerchantOK(merchants[m])
               /\ m \in DOMAIN FirstMerchants => OwnMerchant(m, PersonOf(FirstMerchants[m]))
    <2>1. CASE m \in DOMAIN FirstMerchants
      <3>1. merchants[m] = [NoMerchant EXCEPT !.state = "live", !.creator = FirstMerchants[m]]
        BY <2>1 DEF Init
      <3> QED
        BY <1>2, <2>1, <3>1 DEF MerchantOK, OwnMerchant, NoMerchant
    <2>2. CASE m \notin DOMAIN FirstMerchants
      BY <2>2 DEF Init, MerchantOK, NoMerchant
    <2> QED
      BY <2>1, <2>2
  <1>4. MerchantsOK
    BY <1>3 DEF MerchantsOK, Init
  <1>5. ASSUME NEW t \in TokenIds
        PROVE  TokenOK(tokens[t])
    <2>1. CASE t \in DOMAIN FirstTokens
      <3>1. tokens[t] = FirstTokens[t]
        BY <2>1 DEF Init
      <3>2. PICK u \in UserIds \cap DOMAIN FirstUsers :
               /\ FirstTokens[t].holder = OwnerOf[FirstUsers[u].email]
               /\ FirstTokens[t].type = "user" => FirstTokens[t].entity = u
               /\ FirstTokens[t].type = "merchant" =>
                     /\ FirstTokens[t].entity \in MerchantIds \cap DOMAIN FirstMerchants
                     /\ FirstMerchants[FirstTokens[t].entity] = u
        BY <2>1
      <3>3. Registered(u) /\ PersonOf(u) = FirstTokens[t].holder
        BY <1>2, <3>2 DEF PersonOf
      <3>4. FirstTokens[t].type = "merchant" => OwnMerchant(FirstTokens[t].entity, FirstTokens[t].holder)
        BY <1>3, <3>2, <3>3
      <3> QED
        BY <3>1, <3>2, <3>3, <3>4 DEF TokenOK
    <2>2. CASE t \notin DOMAIN FirstTokens
      BY <2>2 DEF Init, TokenOK, NoToken
    <2> QED
      BY <2>1, <2>2
  <1>6. TokensOK
    BY <1>5 DEF TokensOK, Init
  <1>7. BrowsersOK
    BY DEF Init, BrowsersOK, SessionOK
  <1>8. ReqOK(Served)
    BY DEF ReqOK, Served
  <1>9. ReqsOK /\ AddressesOK
    BY <1>8 DEF Init, ReqsOK, AddressesOK
  <1> QED
    BY <1>1, <1>4, <1>6, <1>7, <1>9 DEF Inv

\* Steps of logging in and of the command create-user touch no merchant.
LEMMA AuthStep ==
    ASSUME Inv, AuthNext
    PROVE  Inv' /\ UNCHANGED <<merchants, tokens, addresses>>
  <1>1. ASSUME NEW p \in People, PostLogout(p) \/ GetRedirect(p) \/ \E e \in Emails : PostLogin(p, e)
        PROVE  Inv' /\ UNCHANGED <<merchants, tokens, addresses>>
    <2>1. UNCHANGED <<merchants, tokens, addresses>>
      BY <1>1 DEF PostLogout, GetRedirect, PostLogin, tables
    <2> QED
      BY <1>1, <2>1, PostLogoutStep, GetRedirectStep, PostLoginStep
  <1>2. ASSUME NEW r \in Requests, NEW p \in People, NEW a \in Googles, GetCallback(r, p, a)
        PROVE  Inv' /\ UNCHANGED <<merchants, tokens, addresses>>
    BY <1>2, GetCallbackStep DEF GetCallback, tables
  <1>3. ASSUME NEW r \in Requests, ResolveWithGoogle(r) \/ FindByEmail(r) \/ LinkGoogleUser(r)
        PROVE  Inv' /\ UNCHANGED <<merchants, tokens, addresses>>
    <2>1. UNCHANGED <<merchants, tokens, addresses>>
      BY <1>3 DEF ResolveWithGoogle, FindByEmail, LinkGoogleUser, tables
    <2> QED
      BY <1>3, <2>1, ResolveWithGoogleStep, FindByEmailStep, LinkGoogleUserStep
  <1>4. ASSUME NEW r \in Requests, registerGoogleUser(r) \/ CreateRegistered(r) \/ Fail(r)
        PROVE  Inv' /\ UNCHANGED <<merchants, tokens, addresses>>
    <2>1. UNCHANGED <<merchants, tokens, addresses>>
      BY <1>4 DEF registerGoogleUser, CreateRegistered, Fail, tables
    <2>2. CASE Fail(r)
      BY <2>1, <2>2, AnswerStep DEF Fail
    <2> QED
      BY <1>4, <2>1, <2>2, RegisterGoogleStep, CreateRegisteredStep
  <1>5. ASSUME NEW r \in Requests, NEW e \in Emails, Register(r, e)
        PROVE  Inv' /\ UNCHANGED <<merchants, tokens, addresses>>
    BY <1>5, RegisterStep DEF Register
  <1> QED
    BY <1>1, <1>2, <1>3, <1>4, <1>5 DEF AuthNext

LEMMA MerchantStep ==
    ASSUME Inv, AddressesOK, MerchantNext
    PROVE  Inv' /\ AddressesOK' /\ Isolated
  <1>1. ASSUME NEW p \in People, NEW t \in {0} \cup TokenIds, HandleCreateMerchant(p, t)
        PROVE  Inv' /\ AddressesOK' /\ Isolated
    <2>1. UNCHANGED <<tokens, addresses>>
      BY <1>1 DEF HandleCreateMerchant
    <2>2. Inv' /\ \A m \in MerchantIds : merchants[m].state # "none" => merchants'[m] = merchants[m]
      BY <1>1, CreateMerchantStep
    <2>3. Isolated
      BY <2>1, <2>2, DataKept DEF Isolated
    <2> QED
      BY <2>1, <2>2, <2>3 DEF AddressesOK
  <1>2. ASSUME NEW p \in People, NEW t \in {0} \cup TokenIds, NEW r \in Requests, NEW m \in MerchantIds,
               DashboardRequest(r, p, t, m) \/ MerchantRequest(r, p, t, m)
        PROVE  Inv' /\ AddressesOK' /\ Isolated
    <2>1. UNCHANGED <<merchants, tokens, addresses>>
      BY <1>2 DEF DashboardRequest, MerchantRequest, tables
    <2> QED
      BY <1>2, <2>1, DashboardRequestStep, MerchantRequestStep, TablesKept DEF AddressesOK
  <1>3. ASSUME NEW r \in Requests,
               ReadRequest(r) \/ (\E p \in Properties : ChangeRequest(r, p))
               \/ (\E x \in Addresses : CheckMerchantAddress(r, x))
        PROVE  Inv' /\ AddressesOK' /\ Isolated
    <2>1. UNCHANGED <<merchants, tokens, addresses>>
      BY <1>3 DEF ReadRequest, ChangeRequest, CheckMerchantAddress, tables
    <2>2. CASE ReadRequest(r)
      BY <2>1, <2>2, AnswerStep, TablesKept DEF ReadRequest, AddressesOK
    <2> QED
      BY <1>3, <2>1, <2>2, ChangeRequestStep, CheckAddressStep, TablesKept DEF AddressesOK
  <1>4. ASSUME NEW r \in Requests, DeleteMerchant(r) \/ \E v : UpdateSettings(r, v)
        PROVE  Inv' /\ AddressesOK' /\ Isolated
    <2>1. UNCHANGED <<tokens, addresses>>
      BY <1>4 DEF DeleteMerchant, UpdateSettings
    <2>2. /\ Inv' /\ OwnerActs(req[r].merchant)
          /\ \A m \in MerchantIds : m # req[r].merchant => merchants'[m] = merchants[m]
      BY <1>4, DeleteMerchantStep, UpdateSettingsStep
    <2> QED
      BY <2>1, <2>2, OthersKept DEF AddressesOK
  <1>5. ASSUME NEW r \in Requests, CreateMerchantToken(r) \/ \E t \in TokenIds : DeleteMerchantTokens(r, t)
        PROVE  Inv' /\ AddressesOK' /\ Isolated
    <2>1. UNCHANGED <<merchants, addresses>>
      BY <1>5 DEF CreateMerchantToken, DeleteMerchantTokens
    <2>2. /\ Inv' /\ OwnerActs(req[r].merchant)
          /\ \A m \in MerchantIds \ {req[r].merchant}, i \in TokenIds :
                tokens'[i] = tokens[i] \/ NotOf(m, tokens[i], tokens'[i])
      BY <1>5, CreateTokenStep, DeleteTokenStep
    <2> QED
      BY <2>1, <2>2, OthersKept DEF AddressesOK
  <1>6. ASSUME NEW r \in Requests, CreateMerchantAddress(r) \/ \E a \in AddressIds : DeleteMerchantAddress(r, a)
        PROVE  Inv' /\ AddressesOK' /\ Isolated
    <2>1. UNCHANGED <<merchants, tokens>>
      BY <1>6 DEF CreateMerchantAddress, DeleteMerchantAddress
    <2>2. /\ Inv' /\ OwnerActs(req[r].merchant) /\ AddressesOK'
          /\ \A m \in MerchantIds \ {req[r].merchant}, i \in AddressIds :
                \/ addresses'[i] = addresses[i]
                \/ addresses[i].merchant # m /\ addresses'[i].merchant # m
      BY <1>6, CreateAddressStep, DeleteAddressStep
    <2> QED
      BY <2>1, <2>2, OthersKept
  <1> QED
    BY <1>1, <1>2, <1>3, <1>4, <1>5, <1>6 DEF MerchantNext

LEMMA NextInv == Inv /\ AddressesOK /\ [Next]_vars => Inv' /\ AddressesOK' /\ (Isolated \/ UNCHANGED vars)
  <1> SUFFICES ASSUME Inv, AddressesOK, [Next]_vars
               PROVE  Inv' /\ AddressesOK' /\ (Isolated \/ UNCHANGED vars)
    OBVIOUS
  <1>1. CASE UNCHANGED vars
    BY <1>1, SameRows, Untouched DEF Inv, vars, tables, AddressesOK
  <1>2. CASE AuthNext
    BY <1>2, AuthStep, TablesKept DEF AddressesOK
  <1>3. CASE MerchantNext
    BY <1>3, MerchantStep
  <1> QED
    BY <1>1, <1>2, <1>3 DEF Next

\* In every reachable state every session, token, merchant and request that is being
\* served is of the person whom it is meant for.
THEOREM InductiveInvariant == Spec => [](Inv /\ AddressesOK)
  BY InitInv, NextInv, PTL DEF Spec

\* A browser is logged in as a user of the person it belongs to, whatever Google accounts
\* claim, whoever's callback a browser is sent to, and however callbacks overlap.
THEOREM SessionsSafe == Spec => []SessionsAreOwn
  <1>1. Inv => SessionsAreOwn
    BY DEF Inv, BrowsersOK, SessionOK, SessionsAreOwn
  <1> QED
    BY <1>1, InductiveInvariant, PTL

\* Overlapping callbacks and commands never make two users of one Google account.
THEOREM OneUser == Spec => []OneUserPerGoogleAccount
  <1>1. Inv => OneUserPerGoogleAccount
    BY DEF Inv, UsersOK
  <1> QED
    BY <1>1, InductiveInvariant, PTL

\* What a handler may list is the person's own: every token of its merchant was given to
\* him, and every merchant of the same creator is his.
THEOREM ListsAreOwn == Spec => []SeesOwnOnly
  <1>1. Inv => SeesOwnOnly
    <2> SUFFICES ASSUME Inv, NEW r \in Requests, In(r, "handle")
                 PROVE  /\ \A t \in ListAPITokensByEntity("merchant", req[r].merchant) :
                              tokens[t].holder = req[r].by /\ tokens[t].type = "merchant"
                        /\ \A m \in ListMerchantsByCreatorID(merchants[req[r].merchant].creator) :
                              PersonOf(merchants[m].creator) = req[r].by
      BY DEF SeesOwnOnly
    <2>1. OwnMerchant(req[r].merchant, req[r].by)
      BY DEF Inv, ReqsOK, ReqOK, In
    <2>2. ASSUME NEW t \in ListAPITokensByEntity("merchant", req[r].merchant)
          PROVE  tokens[t].holder = req[r].by /\ tokens[t].type = "merchant"
      BY <2>1 DEF Inv, TokensOK, TokenOK, OwnMerchant, ListAPITokensByEntity
    <2> QED
      BY <2>1, <2>2 DEF OwnMerchant, ListMerchantsByCreatorID
  <1> QED
    BY <1>1, InductiveInvariant, PTL

\* A merchant's row, tokens and addresses change only by a request that its creator sent:
\* every handler works on the merchant that the middlewares gave it.
THEOREM Isolation == Spec => TenantsAreIsolated
  <1>1. Inv /\ AddressesOK /\ [Next]_vars => [Isolated]_vars
    BY NextInv
  <1>2. Spec => [][Isolated]_vars
    BY <1>1, InductiveInvariant, PTL DEF Spec
  <1> QED
    BY <1>2 DEF TenantsAreIsolated, Isolated

=============================================================================
