-------------------------------- MODULE OxenKeys --------------------------------
(***************************************************************************)
(* Secrets between commands.  The device keeps none of the secrets it       *)
(* computes: it seals them under spk, a key made of the account's own, and  *)
(* the host brings them back.  While a transaction is open, a tag under     *)
(* hmac_key says which transaction sealed a value, and as what.             *)
(*                                                                         *)
(* Meanwhile the account may change: PUT_KEY stores another pair of keys    *)
(* and leaves the one in memory, and the next entry of the PIN loads it, in *)
(* the middle of a transaction too.  OxenNvram has the keys without the     *)
(* transaction, OxenTxData the transaction without the keys.                *)
(*                                                                         *)
(* Sealing and tags are perfect: a value is told by what went into it.  The *)
(* host tries any value it holds anywhere; the nonces are in OxenDispatch,  *)
(* and commands that open values and seal none change nothing here.         *)
(***************************************************************************)
EXTENDS Naturals, FiniteSets

CONSTANTS
    Pairs,      \* pairs of a view and a spend key; halves of two make a third
    SeedPair,   \* the pair derived from the seed of the device
    MaxTx,      \* bound: transactions of a run
    MaxHeld     \* bound: sealed values the host keeps

ASSUME KeysAssumption == SeedPair \in Pairs /\ MaxTx \in Nat /\ MaxHeld \in Nat

VARIABLES
    stored,         \* flash: the pair that monero_init_private_key loads
    loaded,         \* view_priv, spend_priv and spk
    tx_in_progress,
    hmac_key,       \* the transaction it was drawn for, 0: for none
    last_derive_secret_key, last_get_subaddress_secret_key,
    tx,             \* history: number of the transaction
    reloaded,       \* history: the keys changed since it was opened
    sealed          \* host: the sealed values it keeps

account == <<stored, loaded>>
transaction == <<tx_in_progress, hmac_key, tx, reloaded>>
last == <<last_derive_secret_key, last_get_subaddress_secret_key>>
vars == <<account, transaction, last, sealed>>

-----------------------------------------------------------------------------
(* Values.                                                                  *)

Kinds == {"scalar", "derivation", "derived", "subaddress", "sum", "other_sum",
          "amount_key"}

\* The type a value is sealed as.
TypeOf(kind) ==
    IF kind = "derivation" THEN "DERIVATION"
    ELSE IF kind = "amount_key" THEN "AMOUNT_KEY" ELSE "SCALAR"

\* A value: the pairs whose keys went into it, the transaction it was computed
\* in, and whether it is what its formula says.
Values == [kind : Kinds \cup {"key", "wrong", "zero"}, keys : SUBSET Pairs,
           from : Nat, good : BOOLEAN]
Wrong == [kind |-> "wrong", keys |-> {}, from |-> 0, good |-> FALSE]
Zero  == [kind |-> "zero", keys |-> {}, from |-> 0, good |-> TRUE]

Present == IF tx_in_progress THEN tx ELSE 0

\* What a handler computes from values and the keys in memory.
Computed(kind, parts) ==
    LET good == \A v \in parts : v.good
    IN  [kind |-> kind, from |-> Present, good |-> good,
         keys |-> IF good THEN UNION {v.keys : v \in parts} ELSE {}]

\* view_priv, spend_priv.
Key == [kind |-> "key", keys |-> {loaded}, from |-> Present, good |-> TRUE]

-----------------------------------------------------------------------------
(* Sealing and opening.                                                     *)

\* Mutant: the sealing key is made of the chain code only.
DeriveFromChain(pair) == SeedPair

\* monero_aes_derive: the chain code is the device's, so the key is told by the
\* pair. There are no two pairs with one key.
monero_aes_derive(pair) == pair

NoTag == [key |-> 0, type |-> "none"]

\* The host forgets what it has no room for.
HostKeeps(new) ==
    \E old \in SUBSET sealed :
        /\ Cardinality(old \cup {new}) = IF Cardinality(sealed \cup {new}) < MaxHeld
                                         THEN Cardinality(sealed \cup {new}) ELSE MaxHeld
        /\ sealed' = old \cup {new}

\* monero_io_insert_encrypt.
Seal(kind, parts) ==
    LET new == [value |-> Computed(kind, parts), spk |-> monero_aes_derive(loaded),
                tag |-> IF tx_in_progress
                        THEN [key |-> hmac_key, type |-> TypeOf(kind)] ELSE NoTag]
    IN  HostKeeps(new)

\* monero_io_fetch_decrypt: in a transaction the tag must verify; what was
\* sealed under another key opens to something else.
Accepts(s, type) == tx_in_progress => s.tag = [key |-> hmac_key, type |-> type]
Opened(s) == IF s.spk = monero_aes_derive(loaded) THEN s.value ELSE Wrong

\* What a handler may get. The placeholders of the keys bear the tag of a scalar:
\* where no placeholder is taken, one is opened as if it were sealed.
Brought(type) ==
    {Opened(s) : s \in {x \in sealed : Accepts(x, type)}}
    \cup (IF type = "SCALAR" THEN {Wrong} ELSE {})

\* monero_io_fetch_decrypt_key: a placeholder stands for a key in memory.
BroughtKey ==
    {Opened(s) : s \in {x \in sealed : Accepts(x, "SCALAR")}}
    \cup {Key}

-----------------------------------------------------------------------------
Init ==
    /\ stored = SeedPair /\ loaded = SeedPair
    /\ tx_in_progress = FALSE /\ hmac_key = 0 /\ tx = 0 /\ reloaded = FALSE
    /\ last_derive_secret_key = Zero /\ last_get_subaddress_secret_key = Zero
    /\ sealed = {}

(* The account.                                                             *)

\* monero_apdu_put_key: the flash has another pair, the memory keeps its own.
PutKey ==
    /\ stored' \in Pairs \ {SeedPair}
    /\ UNCHANGED <<loaded, transaction, last, sealed>>

\* monero_reset_tx. The new hmac_key is not one that a tag was made with.
ResetTx ==
    /\ tx_in_progress' = FALSE /\ hmac_key' = 0 /\ reloaded' = FALSE
    /\ UNCHANGED tx

\* The spend key is refused when the view key is stored already: another pair,
\* if the flash holds one at all.
PutKeyFails ==
    /\ stored # SeedPair
    /\ stored' \in Pairs \ {SeedPair}
    /\ ResetTx
    /\ UNCHANGED <<loaded, last, sealed>>

\* io_event: monero_init_private_key when the PIN was entered. When it had expired
\* does not matter: the commands that need it are refused meanwhile (OxenDispatch).
PinEntered ==
    /\ loaded' = stored
    /\ reloaded' = (reloaded \/ (tx_in_progress /\ loaded' # loaded))
    /\ UNCHANGED <<stored, tx_in_progress, hmac_key, tx, last, sealed>>

\* monero_init: by RESET, by the menus, and when the application starts. Resetting
\* installs the application anew.
MoneroInit ==
    /\ stored' \in {stored, SeedPair}
    /\ loaded' = stored'
    /\ ResetTx
    /\ last_derive_secret_key' = Zero /\ last_get_subaddress_secret_key' = Zero
    /\ UNCHANGED sealed

-----------------------------------------------------------------------------
(* The transaction.                                                         *)

\* Mutant: hmac_key is a constant, as in builds with DEBUG_HWDEVICE.
OpenTxWithOneKey ==
    /\ ~tx_in_progress /\ tx < MaxTx
    /\ tx_in_progress' = TRUE /\ tx' = tx + 1 /\ hmac_key' = 1
    /\ reloaded' = FALSE
    /\ sealed' = sealed
    /\ UNCHANGED <<account, last>>

\* monero_apdu_open_tx. One transaction at a time: OxenDispatch. The secret key of
\* the transaction is sealed and given to the host.
OpenTx ==
    /\ ~tx_in_progress /\ tx < MaxTx
    /\ tx_in_progress' = TRUE /\ tx' = tx + 1 /\ hmac_key' = tx + 1
    /\ reloaded' = FALSE
    /\ LET r == [value |-> [kind |-> "scalar", keys |-> {}, from |-> tx + 1, good |-> TRUE],
                 spk |-> monero_aes_derive(loaded),
                 tag |-> [key |-> hmac_key', type |-> "SCALAR"]]
       IN  HostKeeps(r)
    /\ UNCHANGED <<account, last>>

\* CLOSE_TX, a refusal, an exception or a lock: among them every value whose tag
\* does not verify.
EndTx ==
    /\ ResetTx
    /\ UNCHANGED <<account, last, sealed>>

\* monero_apu_generate_txout_keys: the amount key comes from the transaction's key
\* or an additional one, or for change from the view key.
GenTxoutKeys ==
    /\ tx_in_progress
    /\ \E sec \in BroughtKey \cup {Key} : Seal("amount_key", {sec})
    /\ UNCHANGED <<account, transaction, last>>

-----------------------------------------------------------------------------
(* Low-level commands.                                                      *)

GenerateKeypair ==
    /\ Seal("scalar", {})
    /\ UNCHANGED <<account, transaction, last>>

GenKeyDerivation ==
    /\ \E sec \in BroughtKey : Seal("derivation", {sec})
    /\ UNCHANGED <<account, transaction, last>>

DerivationToScalar ==
    /\ \E drv \in Brought("DERIVATION") : Seal("scalar", {drv})
    /\ UNCHANGED <<account, transaction, last>>

DeriveSecretKey ==
    /\ \E drv \in Brought("DERIVATION"), sec \in BroughtKey :
        /\ Seal("derived", {drv, sec})
        /\ last_derive_secret_key' = Computed("derived", {drv, sec})
    /\ UNCHANGED <<account, transaction, last_get_subaddress_secret_key>>

\* Mutant: the key is kept in the place of the other.
SubaddressKeyMisplaced ==
    /\ \E sec \in BroughtKey :
        /\ Seal("subaddress", {sec})
        /\ last_derive_secret_key' = Computed("subaddress", {sec})
    /\ UNCHANGED <<account, transaction, last_get_subaddress_secret_key>>

GetSubaddressSecretKey ==
    /\ \E sec \in BroughtKey :
        /\ Seal("subaddress", {sec})
        /\ last_get_subaddress_secret_key' = Computed("subaddress", {sec})
    /\ UNCHANGED <<account, transaction, last_derive_secret_key>>

\* A sum of a key of an output and one of a subaddress, or of anything else.
SumOf(s1, s2) ==
    IF s1.kind = "derived" /\ s2.kind = "subaddress" THEN "sum" ELSE "other_sum"

\* Mutant: any two values are added.
SecretKeyAddAny ==
    /\ \E s1 \in Brought("SCALAR"), s2 \in Brought("SCALAR") :
        Seal(SumOf(s1, s2), {s1, s2})
    /\ UNCHANGED <<account, transaction, last>>

\* monero_apdu_sc_add: in a transaction only the keys derived and fetched last; the
\* device locks on others.
SecretKeyAdd ==
    /\ \E s1 \in Brought("SCALAR"), s2 \in Brought("SCALAR") :
        /\ tx_in_progress => /\ s1 = last_derive_secret_key
                             /\ s2 = last_get_subaddress_secret_key
        /\ Seal(SumOf(s1, s2), {s1, s2})
    /\ UNCHANGED <<account, transaction, last>>

Next ==
    \/ PutKey \/ PutKeyFails \/ PinEntered \/ MoneroInit
    \/ OpenTx \/ EndTx \/ GenTxoutKeys
    \/ GenerateKeypair \/ GenKeyDerivation \/ DerivationToScalar \/ DeriveSecretKey
    \/ GetSubaddressSecretKey \/ SecretKeyAdd

Spec == Init /\ [][Next]_vars
-----------------------------------------------------------------------------
(* What is checked.                                                         *)

Types == {"SCALAR", "DERIVATION", "AMOUNT_KEY"}
Sealed == [value : Values, spk : Pairs, tag : [key : Nat, type : Types \cup {"none"}]]

\* Every variable has a value of its kind, the two keys kept for SECRET_KEY_ADD are
\* of the kind they are compared as, and what the host keeps was computed.
TypeOK ==
    /\ stored \in Pairs /\ loaded \in Pairs
    /\ tx_in_progress \in BOOLEAN /\ hmac_key \in Nat /\ tx \in Nat /\ reloaded \in BOOLEAN
    /\ last_derive_secret_key \in Values /\ last_get_subaddress_secret_key \in Values
    /\ last_derive_secret_key.kind \in {"zero", "derived"}
    /\ last_get_subaddress_secret_key.kind \in {"zero", "subaddress"}
    /\ sealed \in SUBSET Sealed
    /\ \A s \in sealed : s.value.kind \in Kinds

\* In a transaction a command gets only what this transaction sealed, and as what
\* it was sealed, whatever the host kept from before; and it gets the value that
\* was sealed, unless another account was loaded since the transaction was opened.
OpensWhatThisTransactionSealed ==
    tx_in_progress =>
        \A s \in sealed, type \in Types :
            Accepts(s, type) =>
                /\ s.value.from = tx /\ TypeOf(s.value.kind) = type
                /\ (Opened(s) = s.value /\ s.value.good) \/ reloaded

\* No secret mixes keys of two accounts, whenever PUT_KEY and the PIN came between;
\* and what is added in a transaction are keys of its outputs and of subaddresses,
\* even where other scalars are sealed and tagged alike.
SecretsBelongTogether ==
    /\ \A v \in {s.value : s \in sealed}
                \cup {last_derive_secret_key, last_get_subaddress_secret_key} :
            \A p, q \in v.keys : p = q
    /\ \A s \in sealed : s.value.from # 0 => s.value.kind # "other_sum"
=============================================================================
