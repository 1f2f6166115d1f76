------------------------------ MODULE MCAccounts ------------------------------
(* Alice has two e-mails and a merchant; Bob has a Google account that is    *)
(* his and one that claims an e-mail of Alice's, which Google never verified. *)
EXTENDS Accounts, TLC
CONSTANTS alice, bob, ea, eb, ga, gb, gx, x1, x2, r1, r2

MCOwnerOf == (ea :> alice @@ eb :> bob @@ ga :> alice @@ gb :> bob @@ gx :> bob)
MCEmailOf == (ga :> ea @@ gb :> eb @@ gx :> ea)
MCChanges == ("webhook" :> {"url"} @@ "expiration" :> {"30m"})
MCUsers == <<[email |-> ea, google |-> None, password |-> TRUE]>>
MCMerchants == <<1>>
MCTokens == <<[type |-> "user", entity |-> 1, holder |-> alice]>>
MCWhitelists == {None, {ea}}

CONSTANT MaxFacts   \* bound: rows and settings that were added, and merchants deleted
Facts ==
    Cardinality({u \in UserIds : users[u] # NoUser}) + Cardinality({t \in TokenIds : tokens[t] # NoToken})
    + Cardinality({m \in MerchantIds : merchants[m].state # "none"}) + Cardinality({a \in AddressIds : addresses[a] # NoAddress})
    + Cardinality({m \in MerchantIds : merchants[m].state = "deleted"})
    + Cardinality({<<m, p>> \in MerchantIds \X Properties : merchants[m].settings[p] # None})
MCSpec == Init /\ [][Next /\ Facts' <= MaxFacts]_vars
Perms == Permutations(Requests)
=============================================================================
