----------------------------- MODULE OxenKeysProofs -----------------------------
(***************************************************************************)
(* Proofs about sealed values, for every set of pairs, any number of        *)
(* transactions, and a host that keeps any number of values.                *)
(*                                                                         *)
(* The invariant says of each sealed value what its tag says, which pair is *)
(* in it and under which it is sealed, and when it is not what it should    *)
(* be.  From that, whatever a handler gets is of the pair in memory.        *)
(***************************************************************************)
EXTENDS OxenKeys, TLAPS

ItemInv(s) ==
    /\ s \in Sealed /\ s.value.kind \in Kinds /\ s.value.from <= tx
    /\ s.tag = IF s.value.from = 0 THEN NoTag
               ELSE [key |-> s.value.from, type |-> TypeOf(s.value.kind)]
    /\ s.value.keys \subseteq {s.spk}
    /\ s.value.from # 0 => s.value.kind # "other_sum"
    /\ tx_in_progress /\ s.value.from = tx /\ ~reloaded =>
            s.value.good /\ s.spk = loaded

TransactionInv ==
    /\ tx_in_progress => hmac_key = tx /\ tx # 0
    /\ ~tx_in_progress => ~reloaded

LastInv ==
    /\ \E p \in Pairs : last_derive_secret_key.keys \subseteq {p}
    /\ \E p \in Pairs : last_get_subaddress_secret_key.keys \subseteq {p}

IInv == TypeOK /\ TransactionInv /\ LastInv /\ \A s \in sealed : ItemInv(s)

-----------------------------------------------------------------------------
(* What handlers get, and what they make of it.                             *)

\* A value that was sealed is opened as it was or as something else; what is opened
\* has no keys but those in memory.
LEMMA OpenedIs ==
    ASSUME IInv, NEW s \in sealed
    PROVE  /\ Opened(s) \in Values /\ Opened(s).keys \subseteq {loaded}
           /\ Opened(s) = s.value \/ Opened(s) = Wrong
           /\ tx_in_progress /\ ~reloaded /\ s.value.from = tx => Opened(s) = s.value /\ s.value.good
<1>1. ItemInv(s) /\ s.value \in Values
  BY DEF IInv, ItemInv, Sealed
<1>2. Wrong \in Values /\ Wrong.keys = {}
  BY DEF Wrong, Values
<1> QED
  BY <1>1, <1>2 DEF ItemInv, Opened, monero_aes_derive

\* A tag that verifies is of this transaction and of the type.
LEMMA AcceptedIs ==
    ASSUME IInv, NEW s \in sealed, NEW type \in Types, Accepts(s, type), tx_in_progress
    PROVE  s.value.from = tx /\ TypeOf(s.value.kind) = type
<1>1. ItemInv(s)
  BY DEF IInv
<1>2. s.tag = [key |-> tx, type |-> type] /\ tx # 0
  BY DEF IInv, TransactionInv, Accepts
<1>3. s.value.from # 0
  BY <1>1, <1>2 DEF ItemInv, NoTag
<1> QED
  BY <1>1, <1>2, <1>3 DEF ItemInv

\* A value a handler got: of the pair in memory, and right, unless it was no sealed
\* value or another pair was loaded.
Fit(v) ==
    /\ v \in Values /\ v.keys \subseteq {loaded}
    /\ tx_in_progress /\ ~reloaded => v.good

LEMMA BroughtKeyFits ==
    ASSUME IInv, NEW v \in BroughtKey
    PROVE  Fit(v)
<1>1. CASE v = Key
  BY <1>1 DEF Key, Fit, Values, Present, IInv, TypeOK
<1>2. CASE \E s \in sealed : Accepts(s, "SCALAR") /\ v = Opened(s)
  <2>1. PICK s \in sealed : Accepts(s, "SCALAR") /\ v = Opened(s)
    BY <1>2
  <2> QED
    BY <2>1, OpenedIs, AcceptedIs DEF Fit, Types
<1> QED
  BY <1>1, <1>2 DEF BroughtKey

LEMMA BroughtFits ==
    ASSUME IInv, NEW type \in Types, NEW v \in Brought(type)
    PROVE  /\ v = Wrong \/ \E s \in sealed : v = s.value /\ (tx_in_progress => s.value.from = tx)
           /\ v = Wrong /\ ~reloaded /\ tx_in_progress => type = "SCALAR"
           /\ v # Wrong \/ type # "SCALAR" => Fit(v)
           /\ v \in Values /\ v.keys \subseteq {loaded}
<1>0. Wrong \in Values /\ Wrong.keys \subseteq {loaded}
  BY DEF Wrong, Values
<1>1. CASE v = Wrong /\ type = "SCALAR"
  BY <1>1, <1>0
<1>2. CASE \E s \in sealed : Accepts(s, type) /\ v = Opened(s)
  <2>1. PICK s \in sealed : Accepts(s, type) /\ v = Opened(s)
    BY <1>2
  <2>2. tx_in_progress => s.value.from = tx
    BY <2>1, AcceptedIs
  <2>3. Fit(v) /\ (v = s.value \/ v = Wrong)
    BY <2>1, <2>2, OpenedIs DEF Fit
  <2>4. v = Wrong /\ ~reloaded => ~tx_in_progress
    BY <2>3 DEF Fit, Wrong
  <2> QED
    BY <2>2, <2>3, <2>4 DEF Fit
<1> QED
  BY <1>1, <1>2 DEF Brought

\* What is computed from fit values fits.
LEMMA ComputedFits ==
    ASSUME IInv, NEW kind \in Kinds, NEW parts,
           \A v \in parts : v \in Values /\ v.keys \subseteq {loaded}
    PROVE  LET c == Computed(kind, parts)
           IN  /\ c \in Values /\ c.kind = kind /\ c.from = Present
               /\ c.keys \subseteq {loaded}
               /\ (\A v \in parts : v.good) => c.good
<1> DEFINE good == \A v \in parts : v.good
           keys == IF good THEN UNION {v.keys : v \in parts} ELSE {}
           c == Computed(kind, parts)
<1>1. keys \subseteq {loaded} /\ keys \in SUBSET Pairs
  BY DEF IInv, TypeOK, Values
<1>2. Present \in Nat /\ good \in BOOLEAN
  BY DEF Present, IInv, TypeOK
<1>3. c = [kind |-> kind, from |-> Present, good |-> good, keys |-> keys]
  BY DEF Computed
<1> HIDE DEF good, keys
<1>4. c \in Values
  BY <1>1, <1>2, <1>3 DEF Values
<1>5. c.kind = kind /\ c.from = Present /\ c.keys = keys /\ c.good = good
  BY <1>3
<1> QED
  BY <1>1, <1>4, <1>5 DEF good

-----------------------------------------------------------------------------
(* Steps.                                                                   *)

LEMMA InitInv == Init => IInv
<1> SUFFICES ASSUME Init PROVE IInv
  OBVIOUS
<1>1. Zero \in Values /\ Zero.kind = "zero" /\ Zero.keys = {}
  BY DEF Zero, Values
<1> QED
  BY <1>1, KeysAssumption DEF Init, IInv, TypeOK, TransactionInv, LastInv

\* A command that seals a fit value and leaves account and transaction alone.
LEMMA SealKeeps ==
    ASSUME IInv, NEW kind \in Kinds, NEW parts, Seal(kind, parts),
           \A v \in parts : v \in Values /\ v.keys \subseteq {loaded},
           tx_in_progress /\ ~reloaded => \A v \in parts : v.good,
           tx_in_progress => kind # "other_sum",
           UNCHANGED <<account, transaction>>
    PROVE  /\ sealed' \in SUBSET Sealed
           /\ \A s \in sealed' : ItemInv(s)'
           /\ Computed(kind, parts) \in Values /\ Computed(kind, parts).kind = kind
           /\ Computed(kind, parts).keys \subseteq {loaded}
           /\ \A s \in sealed' : s.value.kind \in Kinds
<1> DEFINE new == [value |-> Computed(kind, parts), spk |-> monero_aes_derive(loaded),
                   tag |-> IF tx_in_progress
                           THEN [key |-> hmac_key, type |-> TypeOf(kind)] ELSE NoTag]
<1>1. /\ new.value \in Values /\ new.value.kind = kind /\ new.value.from = Present
      /\ new.value.keys \subseteq {loaded}
      /\ (\A v \in parts : v.good) => new.value.good
      /\ new.value = Computed(kind, parts)
  BY ComputedFits
<1>2. /\ new.spk = loaded /\ new.spk \in Pairs
      /\ new.tag = IF tx_in_progress THEN [key |-> hmac_key, type |-> TypeOf(kind)] ELSE NoTag
  BY DEF monero_aes_derive, IInv, TypeOK
<1>3. TypeOf(kind) \in Types /\ TypeOf(kind) \in Types \cup {"none"}
  BY DEF TypeOf, Types
<1>4. new.tag \in [key : Nat, type : Types \cup {"none"}]
  BY <1>2, <1>3 DEF NoTag, IInv, TypeOK
<1>5. sealed' \subseteq sealed \cup {new}
  BY DEF Seal, HostKeeps
<1>6. new = [value |-> new.value, spk |-> new.spk, tag |-> new.tag]
  OBVIOUS
<1> HIDE DEF new
<1>7. new \in Sealed
  BY <1>1, <1>2, <1>4, <1>6 DEF Sealed
<1>8. Present \in Nat /\ Present <= tx
  BY DEF Present, IInv, TypeOK
<1>9. new.tag = IF Present = 0 THEN NoTag ELSE [key |-> Present, type |-> TypeOf(kind)]
  BY <1>2 DEF Present, IInv, TransactionInv
<1>10. Present # 0 => tx_in_progress
  BY DEF Present
<1>11. ItemInv(new)
  BY <1>1, <1>2, <1>7, <1>8, <1>9, <1>10 DEF ItemInv
<1>12. \A s \in sealed' : ItemInv(s)
  BY <1>5, <1>11 DEF IInv
<1>13. \A s \in sealed' : ItemInv(s)'
  BY <1>12 DEF ItemInv, account, transaction
<1> QED
  BY <1>1, <1>12, <1>13 DEF ItemInv

\* Account and transaction as they were, and the two last keys fit.
LEMMA RestKeeps ==
    ASSUME IInv, UNCHANGED <<account, transaction>>,
           last_derive_secret_key' \in Values, last_get_subaddress_secret_key' \in Values,
           last_derive_secret_key'.kind \in {"zero", "derived"},
           last_get_subaddress_secret_key'.kind \in {"zero", "subaddress"},
           LastInv', sealed' \in SUBSET Sealed, \A s \in sealed' : ItemInv(s)'
    PROVE  IInv'
<1>1. TransactionInv'
  BY DEF IInv, TransactionInv, transaction
<1>2. \A s \in sealed' : s.value.kind \in Kinds
  BY DEF ItemInv
<1>3. TypeOK'
  BY <1>2 DEF IInv, TypeOK, account, transaction
<1> QED
  BY <1>1, <1>3 DEF IInv

LEMMA LastSame ==
    ASSUME IInv, UNCHANGED <<account, transaction, last>>,
           sealed' \in SUBSET Sealed, \A s \in sealed' : ItemInv(s)'
    PROVE  IInv'
<1>1. LastInv'
  BY DEF IInv, LastInv, last
<1> QED
  BY <1>1, RestKeeps DEF IInv, TypeOK, last

\* The account changes outside commands, or a transaction ends.
LEMMA AccountStep ==
    ASSUME IInv,
           \/ PutKey \/ PutKeyFails \/ PinEntered \/ MoneroInit \/ EndTx
    PROVE  IInv'
<1>0. Zero \in Values /\ Zero.kind = "zero" /\ Zero.keys = {}
  BY DEF Zero, Values
<1>1. TypeOK'
  <2>1. CASE PutKey
    BY <2>1 DEF PutKey, IInv, TypeOK, transaction, last
  <2>2. CASE PutKeyFails
    BY <2>2 DEF PutKeyFails, ResetTx, IInv, TypeOK, last
  <2>3. CASE PinEntered
    BY <2>3 DEF PinEntered, IInv, TypeOK, last
  <2>4. CASE MoneroInit
    BY <2>4, <1>0, KeysAssumption DEF MoneroInit, ResetTx, IInv, TypeOK
  <2>5. CASE EndTx
    BY <2>5 DEF EndTx, ResetTx, IInv, TypeOK, account, last
  <2> QED
    BY <2>1, <2>2, <2>3, <2>4, <2>5
<1>2. TransactionInv'
  <2>1. CASE PutKey
    BY <2>1 DEF IInv, TransactionInv, PutKey, transaction
  <2>2. CASE PinEntered
    BY <2>2 DEF IInv, TransactionInv, PinEntered
  <2>3. CASE PutKeyFails \/ MoneroInit \/ EndTx
    BY <2>3 DEF TransactionInv, PutKeyFails, MoneroInit, EndTx, ResetTx
  <2> QED
    BY <2>1, <2>2, <2>3
<1>3. LastInv'
  <2>1. CASE MoneroInit
    BY <2>1, <1>0, KeysAssumption DEF MoneroInit, LastInv
  <2>2. CASE ~MoneroInit
    BY <2>2 DEF IInv, LastInv, PutKey, PutKeyFails, PinEntered, EndTx, last
  <2> QED
    BY <2>1, <2>2
<1>4. ASSUME NEW s \in sealed' PROVE ItemInv(s)'
  <2>1. ItemInv(s) /\ tx' = tx
    BY DEF IInv, PutKey, PutKeyFails, PinEntered, MoneroInit, EndTx, ResetTx, transaction
  <2>2. tx_in_progress' /\ ~reloaded' => tx_in_progress /\ ~reloaded /\ loaded' = loaded
    BY DEF IInv, TypeOK, PutKey, PutKeyFails, PinEntered, MoneroInit, EndTx, ResetTx,
           transaction
  <2> QED
    BY <2>1, <2>2 DEF ItemInv
<1> QED
  BY <1>1, <1>2, <1>3, <1>4 DEF IInv

LEMMA OpenStep ==
    ASSUME IInv, OpenTx
    PROVE  IInv'
<1>1. PICK v, t, r :
        /\ v = [kind |-> "scalar", keys |-> {}, from |-> tx + 1, good |-> TRUE]
        /\ t = [key |-> hmac_key', type |-> "SCALAR"]
        /\ r = [value |-> v, spk |-> monero_aes_derive(loaded), tag |-> t]
        /\ sealed' \subseteq sealed \cup {r}
        /\ tx' = tx + 1 /\ hmac_key' = tx + 1 /\ tx_in_progress' = TRUE /\ reloaded' = FALSE
        /\ UNCHANGED <<account, last>>
  BY DEF OpenTx, HostKeeps
<1>2. tx \in Nat /\ loaded \in Pairs
  BY DEF IInv, TypeOK
<1>3. v \in Values /\ v.from = tx + 1 /\ v.keys = {} /\ v.kind = "scalar" /\ v.good
  BY <1>1, <1>2 DEF Values, Kinds
<1>4. t \in [key : Nat, type : Types \cup {"none"}] /\ t = [key |-> tx + 1, type |-> "SCALAR"]
  BY <1>1, <1>2 DEF Types
<1>5. TypeOf("scalar") = "SCALAR"
  BY DEF TypeOf
<1>6. r.value = v /\ r.spk = loaded /\ r.tag = t
  BY <1>1 DEF monero_aes_derive
<1>7. r \in Sealed
  BY <1>1, <1>2, <1>3, <1>4 DEF Sealed, monero_aes_derive
<1>8. ItemInv(r)'
  <2>1. tx' = tx + 1 /\ tx + 1 # 0 /\ loaded' = loaded
    BY <1>1, <1>2 DEF account
  <2> QED
    BY <2>1, <1>2, <1>3, <1>4, <1>5, <1>6, <1>7 DEF ItemInv, Kinds
<1>9. ASSUME NEW s \in sealed PROVE ItemInv(s)'
  <2>1. ItemInv(s) /\ s.value.from \in Nat
    BY DEF IInv, ItemInv, Sealed, Values
  <2> QED
    BY <2>1, <1>1, <1>2 DEF ItemInv
<1>10. \A s \in sealed' : ItemInv(s)'
  BY <1>1, <1>8, <1>9
<1>11. TypeOK' /\ TransactionInv'
  <2>1. sealed' \in SUBSET Sealed /\ \A s \in sealed' : s.value.kind \in Kinds
    BY <1>10 DEF ItemInv
  <2>2. tx + 1 \in Nat /\ tx + 1 # 0
    BY <1>2
  <2>3. UNCHANGED <<stored, loaded, last_derive_secret_key, last_get_subaddress_secret_key>>
    BY <1>1 DEF account, last
  <2>4. TransactionInv'
    BY <2>2, <1>1 DEF TransactionInv
  <2>5. TypeOK'
    BY <2>1, <2>2, <2>3, <1>1 DEF IInv, TypeOK
  <2> QED
    BY <2>4, <2>5
<1>12. LastInv'
  BY <1>1 DEF IInv, LastInv, last
<1> QED
  BY <1>10, <1>11, <1>12 DEF IInv

\* Commands that take a derivation or a key, and seal.
LEMMA PlainStep ==
    ASSUME IInv, GenTxoutKeys \/ GenerateKeypair \/ GenKeyDerivation \/ DerivationToScalar
    PROVE  IInv'
<1>1. UNCHANGED <<account, transaction, last>>
  BY DEF GenTxoutKeys, GenerateKeypair, GenKeyDerivation, DerivationToScalar
<1>2. PICK kind, parts :
        /\ kind \in Kinds \ {"other_sum"}
        /\ Seal(kind, parts)
        /\ \A v \in parts : Fit(v)
  <2>1. CASE GenTxoutKeys
    <3>1. PICK sec \in BroughtKey \cup {Key} : Seal("amount_key", {sec})
      BY <2>1 DEF GenTxoutKeys
    <3>2. sec \in BroughtKey
      BY DEF BroughtKey
    <3> QED
      BY <3>1, <3>2, BroughtKeyFits DEF Kinds
  <2>2. CASE GenerateKeypair
    BY <2>2 DEF GenerateKeypair, Kinds
  <2>3. CASE GenKeyDerivation
    BY <2>3, BroughtKeyFits DEF GenKeyDerivation, Kinds
  <2>4. CASE DerivationToScalar
    <3>1. PICK drv \in Brought("DERIVATION") : Seal("scalar", {drv})
      BY <2>4 DEF DerivationToScalar
    <3>2. Fit(drv)
      BY BroughtFits DEF Types
    <3> QED
      BY <3>1, <3>2 DEF Kinds
  <2> QED
    BY <2>1, <2>2, <2>3, <2>4
<1>3. sealed' \in SUBSET Sealed /\ \A s \in sealed' : ItemInv(s)'
  BY <1>1, <1>2, SealKeeps DEF Fit
<1> QED
  BY <1>1, <1>3, LastSame

LEMMA DeriveStep ==
    ASSUME IInv, DeriveSecretKey
    PROVE  IInv'
<1>1. PICK drv \in Brought("DERIVATION"), sec \in BroughtKey :
        /\ Seal("derived", {drv, sec})
        /\ last_derive_secret_key' = Computed("derived", {drv, sec})
        /\ UNCHANGED <<account, transaction, last_get_subaddress_secret_key>>
  BY DEF DeriveSecretKey
<1>2. Fit(drv) /\ Fit(sec)
  BY BroughtFits, BroughtKeyFits DEF Types
<1> DEFINE parts == {drv, sec}
<1>3. /\ \A v \in parts : v \in Values /\ v.keys \subseteq {loaded}
      /\ tx_in_progress /\ ~reloaded => \A v \in parts : v.good
  BY <1>2 DEF Fit
<1> HIDE DEF parts
<1>4. /\ Seal("derived", parts) /\ UNCHANGED <<account, transaction>>
      /\ last_derive_secret_key' = Computed("derived", parts)
  BY <1>1 DEF parts
<1>5. "derived" \in Kinds /\ "derived" # "other_sum"
  BY DEF Kinds
<1>6. /\ sealed' \in SUBSET Sealed /\ \A s \in sealed' : ItemInv(s)'
      /\ last_derive_secret_key' \in Values /\ last_derive_secret_key'.kind = "derived"
      /\ last_derive_secret_key'.keys \subseteq {loaded}
  BY <1>3, <1>4, <1>5, SealKeeps
<1>7. LastInv'
  BY <1>1, <1>6 DEF IInv, TypeOK, LastInv
<1> QED
  BY <1>1, <1>6, <1>7, RestKeeps DEF IInv, TypeOK

LEMMA SubaddressStep ==
    ASSUME IInv, GetSubaddressSecretKey
    PROVE  IInv'
<1>1. PICK sec \in BroughtKey :
        /\ Seal("subaddress", {sec})
        /\ last_get_subaddress_secret_key' = Computed("subaddress", {sec})
        /\ UNCHANGED <<account, transaction, last_derive_secret_key>>
  BY DEF GetSubaddressSecretKey
<1>2. Fit(sec)
  BY BroughtKeyFits
<1> DEFINE parts == {sec}
<1>3. /\ \A v \in parts : v \in Values /\ v.keys \subseteq {loaded}
      /\ tx_in_progress /\ ~reloaded => \A v \in parts : v.good
  BY <1>2 DEF Fit
<1> HIDE DEF parts
<1>4. /\ Seal("subaddress", parts) /\ UNCHANGED <<account, transaction>>
      /\ last_get_subaddress_secret_key' = Computed("subaddress", parts)
  BY <1>1 DEF parts
<1>5. "subaddress" \in Kinds /\ "subaddress" # "other_sum"
  BY DEF Kinds
<1>6. /\ sealed' \in SUBSET Sealed /\ \A s \in sealed' : ItemInv(s)'
      /\ last_get_subaddress_secret_key' \in Values /\ last_get_subaddress_secret_key'.kind = "subaddress"
      /\ last_get_subaddress_secret_key'.keys \subseteq {loaded}
  BY <1>3, <1>4, <1>5, SealKeeps
<1>7. LastInv'
  BY <1>1, <1>6 DEF IInv, TypeOK, LastInv
<1> QED
  BY <1>1, <1>6, <1>7, RestKeeps DEF IInv, TypeOK

\* In a transaction the two operands are what the comparison says they are: no
\* placeholder opened by mistake is among them.
LEMMA AddStep ==
    ASSUME IInv, SecretKeyAdd
    PROVE  IInv'
<1>1. PICK s1 \in Brought("SCALAR"), s2 \in Brought("SCALAR") :
        /\ tx_in_progress => /\ s1 = last_derive_secret_key
                             /\ s2 = last_get_subaddress_secret_key
        /\ Seal(SumOf(s1, s2), {s1, s2})
        /\ UNCHANGED <<account, transaction, last>>
  BY DEF SecretKeyAdd
<1>2. /\ s1 \in Values /\ s1.keys \subseteq {loaded}
      /\ s2 \in Values /\ s2.keys \subseteq {loaded}
  BY BroughtFits DEF Types
<1>3. tx_in_progress =>
        /\ Fit(s1) /\ s1.kind = "derived"
        /\ Fit(s2) /\ s2.kind = "subaddress"
  <2>1. SUFFICES ASSUME tx_in_progress
                 PROVE  /\ Fit(s1) /\ s1.kind = "derived"
                        /\ Fit(s2) /\ s2.kind = "subaddress"
    OBVIOUS
  <2>2. s1.kind \in {"zero", "derived"} /\ s2.kind \in {"zero", "subaddress"}
    BY <1>1, <2>1 DEF IInv, TypeOK
  <2>3. s1 # Wrong /\ s2 # Wrong
    BY <2>2 DEF Wrong
  <2>4. s1.kind \in Kinds /\ s2.kind \in Kinds
    BY <2>3, BroughtFits DEF Types, IInv, TypeOK
  <2> QED
    BY <2>2, <2>3, <2>4, BroughtFits DEF Types, Kinds
<1>4. SumOf(s1, s2) \in Kinds /\ (tx_in_progress => SumOf(s1, s2) = "sum")
  BY <1>3 DEF SumOf, Kinds
<1>5. sealed' \in SUBSET Sealed /\ \A s \in sealed' : ItemInv(s)'
  BY <1>1, <1>2, <1>3, <1>4, SealKeeps DEF Fit
<1> QED
  BY <1>1, <1>5, LastSame

LEMMA NextInv == IInv /\ [Next]_vars => IInv'
<1> SUFFICES ASSUME IInv, [Next]_vars PROVE IInv'
  OBVIOUS
<1>1. CASE UNCHANGED vars
  BY <1>1 DEF vars, account, transaction, last, IInv, TypeOK, TransactionInv, LastInv, ItemInv
<1>2. CASE Next
  BY <1>2, AccountStep, OpenStep, PlainStep, DeriveStep, SubaddressStep, AddStep DEF Next
<1> QED
  BY <1>1, <1>2

LEMMA Invariance == Spec => []IInv
<1> QED
  BY InitInv, NextInv, PTL DEF Spec

-----------------------------------------------------------------------------
(* What follows.                                                            *)

\* The memory of the device and of the host holds values of their kinds.
THEOREM TypeCorrect == Spec => []TypeOK
<1>1. IInv => TypeOK
  BY DEF IInv
<1> QED
  BY <1>1, Invariance, PTL

\* A value accepted in a transaction is one this transaction sealed as what it is
\* taken for, and is right unless another account was loaded (monero_io_fetch_decrypt).
THEOREM OpensCorrect == Spec => []OpensWhatThisTransactionSealed
<1>1. IInv => OpensWhatThisTransactionSealed
  BY OpenedIs, AcceptedIs DEF OpensWhatThisTransactionSealed
<1> QED
  BY <1>1, Invariance, PTL

\* Secrets never mix accounts, and sums of a transaction are of output keys and
\* subaddress keys (monero_aes_derive, monero_apdu_sc_add).
THEOREM SecretsCorrect == Spec => []SecretsBelongTogether
<1>1. ASSUME IInv PROVE SecretsBelongTogether
  <2>1. \A s \in sealed : /\ \A p, q \in s.value.keys : p = q
                          /\ s.value.from # 0 => s.value.kind # "other_sum"
    BY <1>1 DEF IInv, ItemInv
  <2>2. \A v \in {last_derive_secret_key, last_get_subaddress_secret_key} :
            \A p, q \in v.keys : p = q
    BY <1>1 DEF IInv, LastInv
  <2> QED
    BY <2>1, <2>2 DEF SecretsBelongTogether
<1> QED
  BY <1>1, Invariance, PTL
=============================================================================
