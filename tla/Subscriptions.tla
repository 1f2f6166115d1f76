---------------------------- MODULE Subscriptions ----------------------------
(***************************************************************************)
(* How deposits are announced: Tatum calls a webhook for the wallets that  *)
(* subscribed, and signs the call with a secret that the service sends it  *)
(* when it starts, once for each network, which the registry remembers.    *)
(* The operator may change the settings between two starts; the service    *)
(* may stop between any two steps.                                         *)
(***************************************************************************)
EXTENDS Naturals, FiniteSets

CONSTANTS
    Secrets,      \* usable HMAC secrets
    Settings,     \* configurations: [keys, secret, force, local]
    Ensurers,     \* jobs that ensure an outbound wallet, in parallel
    MaxStarts,    \* bound: starts of the service
    MaxHooks      \* bound: subscriptions of one wallet and network at Tatum

VARIABLES
    stage,        \* how far the service has started
    settings,     \* the running configuration
    starts,       \* starts so far
    used,         \* the secrets configured so far
    refused,      \* networks whose secret Tatum did not take in this start
    signed,       \* the secret Tatum signs with, per network
    flags,        \* registry: tatum.hmac_enabled.<network>
    ids,          \* the wallet's subscription ids
    hooks,        \* its subscriptions at Tatum
    ensure        \* job -> its place and the ids it has read and changed

subsVars == <<stage, settings, starts, used, refused, signed, flags, ids, hooks, ensure>>

Mains == {"main", "test"}
NoSecret == ""
Placeholder == "replace-with"
None == ""
At(j, pc) == ensure[j].pc = pc
Waiting == [pc |-> "idle", read |-> [n \in Mains |-> None], write |-> FALSE]

ASSUME SubscriptionsAssumption ==
    /\ NoSecret \notin Secrets /\ Placeholder \notin Secrets
    /\ Settings # {} /\ MaxStarts \in Nat /\ MaxHooks \in Nat \ {0}
    /\ \A s \in Settings : s.secret \in Secrets \cup {NoSecret, Placeholder}

SubscriptionsInit ==
    /\ stage = "down" /\ settings = CHOOSE s \in Settings : TRUE
    /\ starts = 0 /\ used = {} /\ refused = {}
    /\ signed = [n \in Mains |-> NoSecret] /\ flags = [n \in Mains |-> None]
    /\ ids = [n \in Mains |-> None] /\ hooks = [n \in Mains |-> 0]
    /\ ensure = [j \in Ensurers |-> Waiting]

-----------------------------------------------------------------------------
(* Starting *)

isUsableHMACSecret(secret) == secret \in Secrets
HasAPIKey(n) == settings.keys[n]

\* tatum.New: with a usable secret, the main network is set up before the test network.
StartUp(s) ==
    /\ stage = "down" /\ starts < MaxStarts
    /\ settings' = s /\ starts' = starts + 1 /\ refused' = {}
    /\ used' = used \cup ({s.secret} \cap Secrets)
    /\ stage' = IF isUsableHMACSecret(s.secret) THEN "main" ELSE "up"
    /\ UNCHANGED <<signed, flags, ids, hooks, ensure>>

Asked(n) == IF n = "main" THEN "main sent" ELSE "test sent"
After(n) == IF n = "main" THEN "test" ELSE "up"

\* registry.GetValueSafe: an error reads as if there were no value.
GetValueSafe(n) == {flags[n], None}

\* Mutant: the registry is written though the request failed.
flagAnyway(n) == Asked(n)

OnError(n) == After(n)

\* enableSubscriptionSignature: no key or a value in the registry end it; a request that
\* fails is logged.  Tatum may take the secret and the answer be lost.
EnableWebHookHmac(n) ==
    /\ stage = n
    /\ \E value \in GetValueSafe(n) :
         IF ~HasAPIKey(n) \/ (value # None /\ ~settings.force)
         THEN stage' = After(n) /\ UNCHANGED <<signed, refused>>
         ELSE \/ /\ signed' = [signed EXCEPT ![n] = settings.secret]
                 /\ stage' = Asked(n)
                 /\ UNCHANGED refused
              \/ /\ signed' \in {signed, [signed EXCEPT ![n] = settings.secret]}
                 /\ refused' = refused \cup {n}
                 /\ stage' = OnError(n)
    /\ UNCHANGED <<settings, starts, used, flags, ids, hooks, ensure>>

\* registry.Set: a failed insert or update is logged at most.
SetFlag(n) ==
    /\ stage = Asked(n)
    /\ flags' \in {flags, [flags EXCEPT ![n] = "true"]}
    /\ stage' = After(n)
    /\ UNCHANGED <<settings, starts, used, refused, signed, ids, hooks, ensure>>

Stop ==
    /\ stage # "down"
    /\ stage' = "down" /\ ensure' = [j \in Ensurers |-> Waiting]
    /\ UNCHANGED <<settings, starts, used, refused, signed, flags, ids, hooks>>

-----------------------------------------------------------------------------
(* Subscribing a wallet: the test network first *)

StartEnsure(j) ==
    /\ stage = "up" /\ At(j, "idle")
    /\ ensure' = [ensure EXCEPT ![j] = [pc |-> "test", read |-> ids, write |-> FALSE]]
    /\ UNCHANGED <<stage, settings, starts, used, refused, signed, flags, ids, hooks>>

\* Tatum is not asked without a key, or to call a local address.
Skips(n) == ~HasAPIKey(n) \/ settings.local

\* Mutant: a failure leaves an id too.
idOfFailure == "live"

noId == None

\* SubscribeToWebhook, and its results: an id, an id that stands for none when there is no
\* key or the webhook's address is local, or an error, after which Tatum may have
\* subscribed the wallet nevertheless.
Subscribe(j, n) ==
    LET next == [ensure[j] EXCEPT !.pc = IF n = "test" THEN "main" ELSE "update"]
        kept(id) == [next EXCEPT !.read[n] = id, !.write = TRUE]
        hooked == IF hooks[n] < MaxHooks THEN [hooks EXCEPT ![n] = @ + 1] ELSE hooks
    IN
    /\ At(j, n)
    /\ IF ensure[j].read[n] # None THEN ensure' = [ensure EXCEPT ![j] = next] /\ UNCHANGED hooks
       ELSE IF Skips(n)
       THEN ensure' = [ensure EXCEPT ![j] = kept("disabled")] /\ UNCHANGED hooks
       ELSE \/ ensure' = [ensure EXCEPT ![j] = kept("live")] /\ hooks' = hooked
            \/ ensure' = [ensure EXCEPT ![j] = [next EXCEPT !.read[n] = noId]] /\ hooks' \in {hooks, hooked}
    /\ UNCHANGED <<stage, settings, starts, used, refused, signed, flags, ids>>

\* Both ids are written, if one is new; an error ends the job.
UpdateTatumSubscription(j) ==
    /\ At(j, "update")
    /\ ids' \in IF ensure[j].write THEN {ensure[j].read, ids} ELSE {ids}
    /\ ensure' = [ensure EXCEPT ![j] = Waiting]
    /\ UNCHANGED <<stage, settings, starts, used, refused, signed, flags, hooks>>

-----------------------------------------------------------------------------

SubscriptionsNext ==
    \/ \E s \in Settings : StartUp(s)
    \/ \E n \in Mains : EnableWebHookHmac(n) \/ SetFlag(n)
    \/ Stop
    \/ \E j \in Ensurers : StartEnsure(j) \/ (\E n \in Mains : Subscribe(j, n)) \/ UpdateTatumSubscription(j)

SubscriptionsSpec == SubscriptionsInit /\ [][SubscriptionsNext]_subsVars

\* Without a secret every webhook is taken, else those signed with it.
ValidateHMAC(n) == settings.secret = NoSecret \/ signed[n] = settings.secret

\* Whatever step a start stopped at and whatever failed before, the webhooks of Tatum verify
\* once the service is up, if Tatum was asked with a key and took the secret: always, if the
\* secret was never changed, and after a change, if it is forced.  (What is recorded in the
\* registry was done before: enableSubscriptionSignature.)
WebhooksVerify ==
    \A n \in Mains :
        /\ stage = "up" /\ HasAPIKey(n) /\ settings.secret # Placeholder
        /\ n \notin refused
        /\ settings.force \/ used \subseteq {settings.secret}
        => ValidateHMAC(n)

\* A wallet that has the id of a subscription is subscribed on that network, though two jobs
\* may subscribe it at a time and write over each other's ids (ensureWalletSubscription).
RecordedIsSubscribed ==
    \A n \in Mains : ids[n] = "live" => hooks[n] > 0
=============================================================================
