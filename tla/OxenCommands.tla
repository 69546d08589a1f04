------------------------------ MODULE OxenCommands ------------------------------
(***************************************************************************)
(* What each command handler does with the exchange buffer, as a sequence   *)
(* of steps: a definition has the name of the function it stands for, and   *)
(* its steps are that function's calls to oxen_io.c in their order, with    *)
(* the places where the function reads the buffer through a pointer, uses   *)
(* it as scratch memory, or writes G_oxen_state.tmp.  What is computed in   *)
(* between may throw before any step and is otherwise left out.             *)
(*                                                                         *)
(* OxenIo gives the steps their meaning.                                    *)
(***************************************************************************)
EXTENDS Naturals, Sequences, TLC

Step(op, field, size) == [op |-> op, field |-> field, size |-> size]

\* Reading the command: a copy, a pointer kept into the buffer, a sealed
\* value, a key that may be a placeholder, a variable length integer, the
\* hash of everything that is left, and a field nobody reads.
Fetch(f, n) == Step("fetch", f, n)
Point(f)    == Step("point", f, 32)
Open(f)     == Step("open", f, 32)
OpenKey(f)  == Step("key", f, 32)
Varint(f)   == Step("varint", f, 2)
Unread(f, n) == Step("unread", f, n)
Rest        == Step("rest", "rest", 0)
\* monero_decode_varint called without regard to io_length.
Unbounded(f) == Step("unbounded", f, 2)
Remaining(f) == Step("remaining", f, 5)
Exactly(n)  == Step("exactly", "length", n)
NothingLeft == Step("nothing left", "rest", 0)

\* monero_io_discard(0), monero_io_discard(1).
Discard      == Step("discard", "", 0)
DiscardClear == Step("discard", "clear", 0)

\* Reading through a pointer; io_buffer and tmp as scratch memory.
Use(f)     == Step("use", f, 32)
Scratch    == Step("scratch", "io_buffer", 288)
Tmp(value) == Step("tmp", value, 160)

\* Writing the answer.
Put(f, n) == Step("put", f, n)
Inserted(f, n) == Step("inserted", f, n)
Seal(f)   == Step("seal", f, 32)
Tag(f)    == Step("tag", f, 32)

\* Effects on the rest of the state, and questions for the user.
BeginTx    == Step("transaction", "begin", 0)
ResetTx    == Step("transaction", "reset", 0)
InitState  == Step("init", "", 0)
Show(flow) == Step("show", flow, 0)
\* monero_lock_and_throw.
Lock       == Step("lock", "", 0)
Ask(q)     == Step("ask", q, 0)
MayAsk(q)  == Step("may ask", q, 0)

-----------------------------------------------------------------------------
(* oxen_init.c, oxen_key.c.                                                 *)

monero_apdu_reset ==
    <<Remaining("client_version"), Discard, InitState, Put("version", 3)>>
monero_apdu_lock == <<Discard, Lock>>
monero_apdu_put_key ==
    <<Exactly(224), Fetch("view_sec", 32), Fetch("view_pub", 32),
      Fetch("spend_sec", 32), Fetch("spend_pub", 32), Unread("address", 95),
      DiscardClear>>
monero_apdu_get_network == <<DiscardClear, Put("OXEN", 4), Put("nettype", 1)>>
\* oxen_wallet_address writes into io_buffer; monero_io_inserted counts it.
get_key_public ==
    <<DiscardClear, Put("view_pub", 32), Put("spend_pub", 32),
      Inserted("address", 97)>>
get_key_exported == <<DiscardClear, Put("view_priv", 32)>>
get_key_asks     == <<DiscardClear, Ask("view key")>>
monero_apdu_display_address ==
    <<Fetch("index", 8), Fetch("payment_id", 8), Discard, Ask("address")>>
monero_apdu_verify_key ==
    <<OpenKey("priv"), Fetch("pub", 32), DiscardClear, Put("verified", 4)>>
monero_apdu_get_chacha8_prekey == <<Discard, Put("prekey", 200)>>
monero_apdu_sc_add == <<Open("s1"), Open("s2"), Discard, Seal("r")>>
monero_apdu_scal_mul_key ==
    <<Fetch("pub", 32), OpenKey("sec"), Discard, Put("r", 32)>>
monero_apdu_scal_mul_base == <<Open("sec"), Discard, Put("r", 32)>>
monero_apdu_generate_keypair == <<Discard, Put("pub", 32), Seal("sec")>>
monero_apdu_secret_key_to_public_key == <<Open("sec"), Discard, Put("pub", 32)>>
monero_apdu_generate_key_derivation ==
    <<Fetch("pub", 32), OpenKey("sec"), Discard, Seal("drv")>>
monero_apdu_derivation_to_scalar ==
    <<Open("derivation"), Fetch("output_index", 4), Discard, Seal("res")>>
monero_apdu_derive_public_key ==
    <<Open("derivation"), Fetch("output_index", 4), Fetch("pub", 32), Discard,
      Put("drvpub", 32)>>
monero_apdu_derive_secret_key ==
    <<Open("derivation"), Fetch("output_index", 4), OpenKey("sec"), Discard,
      Seal("drvsec")>>
oxen_apdu_get_tx_secret_key == <<Discard, Put("tx_secret", 32)>>
\* monero_hash_to_ec works in io_buffer.
monero_apdu_generate_key_image ==
    <<Fetch("pub", 32), Open("sec"), Discard, Scratch, Put("image", 32)>>
oxen_apdu_generate_key_image_signature ==
    <<Fetch("image", 32), Fetch("pub", 32), Open("sec"), Discard, Scratch,
      Put("signature", 64)>>
unlock_asks == <<DiscardClear, Ask("special")>>
unlock_signs ==
    <<Point("pub"), Open("sec"), Discard, Use("pub"), Put("signature", 64)>>
lns_asks  == <<DiscardClear, Ask("special")>>
lns_hashes == <<Rest, DiscardClear>>
oxen_apdu_generate_lns_signature ==
    <<Fetch("subaddr_index", 8), DiscardClear, Tmp("secret"),
      Put("signature", 64), Tmp("zero")>>
monero_apdu_derive_subaddress_public_key ==
    <<Fetch("pub", 32), Open("derivation"), Fetch("output_index", 4), Discard,
      Put("sub_pub", 32)>>
monero_apdu_get_subaddress ==
    <<Fetch("index", 8), Discard, Put("C", 32), Put("D", 32)>>
monero_apdu_get_subaddress_spend_public_key ==
    <<Fetch("index", 8), DiscardClear, Put("D", 32)>>
monero_apdu_get_subaddress_secret_key ==
    <<OpenKey("sec"), Fetch("index", 8), Discard, Seal("sub_sec")>>
\* The last byte of the fixed part says whether the additional key follows.
txout_keys_start ==
    <<Fetch("tx_version", 4), OpenKey("tx_key"), Point("txkey_pub"), Point("Aout"),
      Point("Bout"), Fetch("output_index", 4), Fetch("is_change", 1),
      Fetch("is_subaddress", 1), Fetch("need_additional_txkeys", 1)>>
txout_keys_end ==
    <<Use("Aout"), Use("Bout"), Use("txkey_pub"), Discard, Seal("amount_key"),
      Put("out_eph_public_key", 32)>>
monero_apu_generate_txout_keys == txout_keys_start \o txout_keys_end
txout_keys_additional ==
    txout_keys_start \o <<OpenKey("additional_txkey_sec")>> \o txout_keys_end
    \o <<Put("additional_txkey_pub", 32)>>
monero_apdu_encrypt_payment_id ==
    <<Fetch("pub", 32), OpenKey("sec"), Fetch("payID", 8), Discard, Put("payID", 8)>>

-----------------------------------------------------------------------------
(* oxen_blind.c, oxen_proof.c.                                              *)

monero_apdu_blind ==
    <<Open("AKout"), Fetch("k", 32), Fetch("v", 32), DiscardClear,
      Put("v", 32), Put("k", 32)>>
monero_apdu_unblind == monero_apdu_blind
monero_apdu_gen_commitment_mask == <<Open("AKout"), DiscardClear, Put("k", 32)>>
\* XY, the last of the four parts of the hashed text, lies over disp_addr_mode.
monero_apdu_get_tx_proof ==
    <<Point("msg"), Point("R"), Point("A"), Point("B"), Point("D"), OpenKey("r"),
      Discard, Use("msg"), Use("D"), Use("B"), Use("A"), Tmp("proof"),
      Put("sig_c", 32), Put("sig_r", 32)>>

-----------------------------------------------------------------------------
(* oxen_open_tx.c, oxen_prefix.c, oxen_prehash.c, oxen_clsag.c.             *)

monero_apdu_open_tx ==
    <<Fetch("txversion", 2), Fetch("txtype", 2), DiscardClear, ResetTx,
      Show("info"), BeginTx, Put("R", 32), Seal("r"), Put("view placeholder", 32),
      Tag("view placeholder"), Put("spend placeholder", 32), Tag("spend placeholder")>>
monero_apdu_close_tx == <<DiscardClear, ResetTx, Show("menu")>>
monero_apdu_set_signature_mode ==
    <<Fetch("sig_mode", 1), Discard, Put("tx_sig_mode", 4)>>
monero_apdu_prefix_hash_init ==
    <<Varint("txversion"), Varint("txtype"), Varint("timelock"), NothingLeft,
      DiscardClear, MayAsk("amount")>>
prefix_hash_init_fake == <<DiscardClear>>
prefix_hash_piece == <<Rest, Discard>>
prefix_hash_last  == <<Rest, Discard, Put("prefixH", 32)>>
prehash_init_fee ==
    <<Rest, Fetch("type", 1), Unbounded("fee"), DiscardClear, MayAsk("amount")>>
prehash_init_more == <<Rest, DiscardClear>>
monero_apdu_clsag_prehash_update ==
    <<Fetch("is_subaddress", 1), Fetch("is_change", 1), Point("Aout"), Point("Bout"),
      Open("aH"), Fetch("C", 32), Fetch("k", 32), Fetch("v", 32), Discard,
      Use("Aout"), Use("Bout"), MayAsk("amount")>>
prehash_finalize_more == <<Fetch("H", 32), DiscardClear>>
prehash_finalize_last ==
    <<Fetch("message", 32), Fetch("proof", 32), DiscardClear, Put("H", 32)>>
monero_apdu_clsag_prepare ==
    <<Open("p"), Fetch("z", 32), Fetch("H", 32), DiscardClear, Seal("a"),
      Put("aG", 32), Put("aH", 32), Put("I", 32), Put("D", 32)>>
clsag_hash_piece == <<Rest, DiscardClear>>
clsag_hash_last  == <<Rest, DiscardClear, Put("c", 32)>>
clsag_sign_end ==
    <<Fetch("z", 32), Fetch("mu_P", 32), Fetch("mu_C", 32), DiscardClear,
      Tmp("sum"), Put("s", 32)>>
clsag_sign_real == <<Open("a"), Open("p")>> \o clsag_sign_end
clsag_sign_fake == <<Fetch("a", 32), Fetch("p", 32)>> \o clsag_sign_end

-----------------------------------------------------------------------------
\* check_ins_access: the commands for which it looks at the transaction, and at the PIN.
NeedsTransaction ==
    {"GEN_TXOUT_KEYS", "GEN_TXOUT_KEYS additional", "BLIND", "GEN_COMMITMENT_MASK",
     "PREFIX_HASH init", "PREFIX_HASH fake", "PREFIX_HASH piece", "PREFIX_HASH last",
     "VALIDATE fee", "VALIDATE init", "VALIDATE update", "VALIDATE more", "VALIDATE last",
     "CLSAG prepare", "CLSAG piece", "CLSAG last", "CLSAG sign", "CLSAG fake"}
NeedsPin == {"OPEN_TX", "SET_SIGNATURE_MODE"} \cup NeedsTransaction

\* What throws outside a transaction, or in one, after check_ins_access.
ServedOutside == {"UNLOCK asks", "UNLOCK signs", "LNS asks", "LNS hashes", "LNS signs",
                  "SET_SIGNATURE_MODE"}
ServedInside == {"GET_TX_SECRET_KEY"}

\* The handlers that call monero_lock_and_throw, but for monero_apdu_lock, whose
\* last step it is.
Locks == {"SECRET_KEY_ADD", "UNLOCK signs", "LNS hashes", "SET_SIGNATURE_MODE",
          "VALIDATE update", "VALIDATE last", "CLSAG prepare", "CLSAG sign", "CLSAG fake"}

\* monero_dispatch: the handler of each command, after the options byte.
Handler ==
    [ RESET |-> monero_apdu_reset, LOCK_DISPLAY |-> monero_apdu_lock,
      GET_NETWORK |-> monero_apdu_get_network,
      PUT_KEY |-> monero_apdu_put_key, DISPLAY_ADDRESS |-> monero_apdu_display_address,
      VERIFY_KEY |-> monero_apdu_verify_key,
      GET_CHACHA8_PREKEY |-> monero_apdu_get_chacha8_prekey,
      SECRET_KEY_ADD |-> monero_apdu_sc_add,
      SECRET_SCAL_MUL_KEY |-> monero_apdu_scal_mul_key,
      SECRET_SCAL_MUL_BASE |-> monero_apdu_scal_mul_base,
      GENERATE_KEYPAIR |-> monero_apdu_generate_keypair,
      SECRET_KEY_TO_PUBLIC_KEY |-> monero_apdu_secret_key_to_public_key,
      GEN_KEY_DERIVATION |-> monero_apdu_generate_key_derivation,
      DERIVATION_TO_SCALAR |-> monero_apdu_derivation_to_scalar,
      DERIVE_PUBLIC_KEY |-> monero_apdu_derive_public_key,
      DERIVE_SECRET_KEY |-> monero_apdu_derive_secret_key,
      GET_TX_SECRET_KEY |-> oxen_apdu_get_tx_secret_key,
      GEN_KEY_IMAGE |-> monero_apdu_generate_key_image,
      GEN_KEY_IMAGE_SIGNATURE |-> oxen_apdu_generate_key_image_signature,
      DERIVE_SUBADDRESS_PUBLIC_KEY |-> monero_apdu_derive_subaddress_public_key,
      GET_SUBADDRESS |-> monero_apdu_get_subaddress,
      GET_SUBADDRESS_SPEND_PUBLIC_KEY |-> monero_apdu_get_subaddress_spend_public_key,
      GET_SUBADDRESS_SECRET_KEY |-> monero_apdu_get_subaddress_secret_key,
      GEN_TXOUT_KEYS |-> monero_apu_generate_txout_keys,
      ENCRYPT_PAYMENT_ID |-> monero_apdu_encrypt_payment_id,
      BLIND |-> monero_apdu_blind, UNBLIND |-> monero_apdu_unblind,
      GEN_COMMITMENT_MASK |-> monero_apdu_gen_commitment_mask,
      GET_TX_PROOF |-> monero_apdu_get_tx_proof,
      OPEN_TX |-> monero_apdu_open_tx, CLOSE_TX |-> monero_apdu_close_tx,
      SET_SIGNATURE_MODE |-> monero_apdu_set_signature_mode ]

\* The commands with several forms, chosen by P1, P2, a mode or a field.
HandlerForms ==
    ("GET_KEY public" :> get_key_public) @@ ("GET_KEY exported" :> get_key_exported) @@
    ("GET_KEY asks" :> get_key_asks) @@ ("UNLOCK asks" :> unlock_asks) @@
    ("UNLOCK signs" :> unlock_signs) @@ ("LNS asks" :> lns_asks) @@
    ("LNS hashes" :> lns_hashes) @@ ("LNS signs" :> oxen_apdu_generate_lns_signature) @@
    ("GEN_TXOUT_KEYS additional" :> txout_keys_additional) @@
    ("PREFIX_HASH init" :> monero_apdu_prefix_hash_init) @@
    ("PREFIX_HASH fake" :> prefix_hash_init_fake) @@
    ("PREFIX_HASH piece" :> prefix_hash_piece) @@
    ("PREFIX_HASH last" :> prefix_hash_last) @@
    ("VALIDATE fee" :> prehash_init_fee) @@ ("VALIDATE init" :> prehash_init_more) @@
    ("VALIDATE update" :> monero_apdu_clsag_prehash_update) @@
    ("VALIDATE more" :> prehash_finalize_more) @@
    ("VALIDATE last" :> prehash_finalize_last) @@
    ("CLSAG prepare" :> monero_apdu_clsag_prepare) @@
    ("CLSAG piece" :> clsag_hash_piece) @@ ("CLSAG last" :> clsag_hash_last) @@
    ("CLSAG sign" :> clsag_sign_real) @@ ("CLSAG fake" :> clsag_sign_fake)

\* monero_dispatch takes the options byte, then calls the handler.
Dispatched(handlers) ==
    [ins \in DOMAIN handlers |-> <<Fetch("options", 1)>> \o handlers[ins]]

Handlers == Dispatched(Handler @@ HandlerForms)
=============================================================================
