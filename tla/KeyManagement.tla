---------------------------- MODULE KeyManagement ----------------------------
(***************************************************************************)
(* The key management service (KMS): it generates private keys, keeps them *)
(* in a file and signs transactions with them; a key never leaves it.      *)
(*                                                                         *)
(* A request to sign is abstracted to what may be wrong with it (defects). *)
(* The answers are the codes of its API; "panic" is a dereferenced nil,    *)
(* which the HTTP server turns into an internal error.                     *)
(***************************************************************************)
EXTENDS Integers, Sequences, SequencesExt, FiniteSets

CONSTANTS
    Chains,      \* blockchains the KMS knows
    Providers,   \* those it has a provider for
    Family,      \* blockchain -> "evm", "tron" or "utxo"
    MaxKeys      \* bound: keys generated

Keys == 1..MaxKeys

ASSUME KeyManagementAssumption ==
    /\ Providers \subseteq Chains /\ MaxKeys \in Nat
    /\ Family \in [Chains -> {"evm", "tron", "utxo"}]

VARIABLE keys    \* key -> its blockchain, and whether it is generated and deleted

NoKey == [state |-> "none", chain |-> CHOOSE c \in Chains : TRUE]

\* The file of the KMS.
Get(k, withTrashed) ==
    CASE keys[k].state = "none" -> "ErrNotFound"
      [] keys[k].state = "deleted" /\ ~withTrashed -> "nil"
      [] OTHER -> "wallet"

\* Service.CreateWallet: generated by the provider and persisted, then answered.
GenerateKey(k, chain) ==
    /\ chain \in Providers
    /\ keys[k].state = "none" /\ \A i \in 1..(k - 1) : keys[i].state # "none"
    /\ keys' = [keys EXCEPT ![k] = [state |-> "live", chain |-> chain]]

\* DeleteWallet only marks the key.
SoftDelete(k) ==
    /\ Get(k, FALSE) = "wallet"
    /\ keys' = [keys EXCEPT ![k].state = "deleted"]

-----------------------------------------------------------------------------
(* Requests to sign *)

\* What is validated, in this order.
EthTransactionParams == <<"type", "recipient", "contract", "amount", "gas", "network", "nonce">>
TronTransactionParams == <<"type", "recipient", "contract", "gas", "amount">>
BitcoinTransactionParams == <<"amount", "sender", "inputs", "recipient", "balance">>
Validated == [evm |-> EthTransactionParams, tron |-> TronTransactionParams,
              utxo |-> BitcoinTransactionParams]

\* A contract is a matter of tokens; so is the fee limit of TRON.
Applies(d, family, token) ==
    token \/ ~(d = "contract" \/ (d = "gas" /\ family = "tron"))

\* The first defect, "none" if there is none.
validate(family, token, defects) ==
    LET params == Validated[family]
        found == {i \in DOMAIN params : params[i] \in defects /\ Applies(params[i], family, token)}
    IN  IF found = {} THEN "none" ELSE params[Min(found)]

\* Errors with a name are the client's, others the server's.
transactionCreationFailed(d) == IF d = "type" THEN "error" ELSE "invalid"

\* TRON's transactions are made by a node, which answers "ok", "poor", "refused" or
\* "down"; the signature of a token's that is refused is one of an empty transaction.
newTronTransaction(token, node) ==
    CASE node = "ok" -> "signed"
      [] node = "poor" -> "invalid"
      [] node = "refused" -> IF token THEN "empty" ELSE "invalid"
      [] node = "down" -> "error"

\* The answer to a request to sign a transaction of a blockchain with a key.
CreateTransaction(k, chain, token, defects, node) ==
    LET d == validate(Family[chain], token, defects) IN
    IF Get(k, FALSE) = "ErrNotFound" THEN "notFound"
    ELSE IF Get(k, FALSE) = "nil" THEN "panic"
    ELSE IF chain \notin Providers THEN "error"
    ELSE IF keys[k].chain # chain THEN "invalid"
    ELSE IF d # "none" THEN transactionCreationFailed(d)
    ELSE IF Family[chain] = "tron" THEN newTronTransaction(token, node)
    ELSE "signed"
=============================================================================
