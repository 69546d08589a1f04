------------------------------ MODULE OxenTxData ------------------------------
(***************************************************************************)
(* The running hashes of the Oxen Ledger application: the contexts and the *)
(* results that one command leaves in G_oxen_state for a later one, and     *)
(* that tie the phases of a transaction (or of a name request) together.    *)
(*                                                                         *)
(* The host walks through the documented sequence, one command per step,    *)
(* with outputs, pieces and inputs of its own; OxenDispatch says which      *)
(* commands are served where.  Between any two steps the user may refuse,   *)
(* the device may throw, lock or restart, and commands and events that have *)
(* nothing to do with the sequence may use the same memory.                 *)
(*                                                                         *)
(* A hash is perfect: a context is the sequence of items it absorbed, and   *)
(* so is its result.  An item names the session and the input it is from.   *)
(***************************************************************************)
EXTENDS Naturals, Sequences

CONSTANTS
    Outputs,      \* outputs of a transaction
    Inputs,       \* inputs of a transaction
    Pieces,       \* pieces of every multi-piece command
    MaxSessions   \* bound: transactions and name requests of a run

ASSUME SizesAssumption ==
    /\ Outputs \in Nat \ {0} /\ Inputs \in Nat \ {0} /\ Pieces \in Nat \ {0}
    /\ MaxSessions \in Nat \ {0}

VARIABLES
    keccak_alt, sha256, sha256_alt,   \* hash contexts
    blake2b,        \* context that shares its memory with keccak
    OUTK, prefixH,  \* results
    shared,         \* result: clsag_c, commitment_hash, addr_checksum_hash and
                    \*   lns_hash, which are one piece of memory
    tx_sig_mode,
    session,        \* host: number of the session
    stage, next,    \* host: the command it sends next, and which piece
    input,          \* host: the input it is at
    answer,         \* history: the last value the device computed from hashes
    locked,         \* history: this session failed a check of the chain
    disturbed       \* history: what cost this session a value it still needed

device == <<keccak_alt, sha256, sha256_alt, blake2b, OUTK, prefixH, shared>>
host == <<tx_sig_mode, session, stage, next, input>>
history == <<answer, locked, disturbed>>
vars == <<device, host, history>>

Kinds == {"output", "prefix", "fee", "amount", "commitment", "proof", "challenge", "name"}
Stages == {"none", "outkeys", "prefix_init", "prefix", "validate_init", "validate_update",
           "validate_finalize", "prehash", "prepare", "hash", "sign", "close",
           "lns_hash", "lns_sign"}

\* The i-th item of a kind, of the present session and input.
Item(kind, i) == <<kind, session, input, i>>

\* A context after its final result or before it was ever initialised, and the
\* checksum of an address.
Spent == << <<"spent", 0, 0, 0>> >>
Address == << <<"address", 0, 0, 0>> >>

Items == (Kinds \X (1 .. MaxSessions) \X (0 .. Inputs) \X Nat)
             \cup {<<"spent", 0, 0, 0>>, <<"address", 0, 0, 0>>}
Hashes == Seq(Items)

\* What the device hands out, made of one or more hash results.
Answers == {"none", "prehash", "clsag", "lns"}
Answered(kind, value) == answer' = [kind |-> kind, input |-> input, value |-> value]
NoAnswer == [kind |-> "none", input |-> 0, value |-> <<>>]

\* What uses the memory of the running hashes besides the session.
Disturbers == {"low_level", "key_image", "address", "pin"}

TypeOK ==
    /\ \A c \in {keccak_alt, sha256, sha256_alt, blake2b, OUTK, prefixH, shared} : c \in Hashes
    /\ tx_sig_mode \in {"REAL", "FAKE"}
    /\ session \in 0 .. MaxSessions
    /\ stage \in Stages
    /\ next \in 1 .. Outputs + Pieces
    /\ input \in 0 .. Inputs
    /\ answer \in [kind : Answers, input : 0 .. Inputs, value : Seq(Hashes)]
    /\ locked \in BOOLEAN /\ disturbed \subseteq Disturbers

Real == tx_sig_mode = "REAL"

\* What the host has sent of one kind when all of it is sent.
All(kind, of, count) == [i \in 1 .. count |-> <<kind, session, of, i>>]
Prefix == All("prefix", 0, Pieces)
Prehashed == All("fee", 0, Pieces) \o All("amount", 0, Outputs) \o All("commitment", 0, Outputs)

-----------------------------------------------------------------------------
(* The host's walk: from piece to piece, then to the next stage. *)

GoOn(count, then) ==
    /\ IF next < count THEN stage' = stage /\ next' = next + 1
                       ELSE stage' = then /\ next' = 1
    /\ UNCHANGED <<tx_sig_mode, session, input, locked, disturbed>>

-----------------------------------------------------------------------------
(* Sessions. *)

\* Mutant: the context of the outputs is left as it was.
ResetTxKeepsOutputs ==
    /\ keccak_alt' = <<>> /\ sha256_alt' = <<>>
    /\ UNCHANGED <<sha256, OUTK, prefixH>>

\* monero_reset_tx: the three contexts of a transaction start afresh; the
\* results, and the memory that is also used elsewhere, stay.
ResetTx ==
    /\ keccak_alt' = <<>> /\ sha256' = <<>> /\ sha256_alt' = <<>>
    /\ UNCHANGED <<OUTK, prefixH>>

SessionStarts(first) ==
    /\ stage = "none"
    /\ session < MaxSessions
    /\ session' = session + 1
    /\ stage' = first /\ next' = 1 /\ input' = 0
    /\ answer' = NoAnswer /\ locked' = FALSE /\ disturbed' = {}

SessionEnds == stage' = "none" /\ next' = 1 /\ input' = 0 /\ UNCHANGED <<tx_sig_mode, session>>

\* Mutant: the mode the host has set is lost.
OpenTxWithoutMode(mode) ==
    /\ SessionStarts("outkeys")
    /\ tx_sig_mode' = "NONE"
    /\ ResetTx
    /\ UNCHANGED <<blake2b, shared>>

\* SET_SIGNATURE_MODE and OPEN_TX.
OpenTx(mode) ==
    /\ SessionStarts("outkeys")
    /\ tx_sig_mode' = mode
    /\ ResetTx
    /\ UNCHANGED <<blake2b, shared>>

\* CLOSE_TX at the end, or before it; a refusal; an exception; a lock.
EndTx ==
    /\ ResetTx
    /\ SessionEnds
    /\ UNCHANGED <<blake2b, shared, history>>

\* monero_init: every byte is 0, and the address for the main menu is computed.
Restart ==
    /\ keccak_alt' = Spent /\ sha256' = Spent /\ sha256_alt' = Spent /\ blake2b' = Spent
    /\ OUTK' = Spent /\ prefixH' = Spent
    /\ shared' = Address
    /\ SessionEnds
    /\ UNCHANGED history

\* A check of the chain fails: monero_lock_and_throw.
ChainLocks ==
    /\ ResetTx
    /\ SessionEnds
    /\ locked' = TRUE
    /\ UNCHANGED <<answer, disturbed>>

-----------------------------------------------------------------------------
(* The outputs and the prefix. *)

GenTxoutKeys ==
    /\ stage = "outkeys"
    /\ sha256' = IF Real THEN Append(sha256, Item("output", next)) ELSE sha256
    /\ blake2b' = Spent
    /\ GoOn(Outputs, "prefix_init")
    /\ UNCHANGED <<keccak_alt, sha256_alt, OUTK, prefixH, shared, answer>>

PrefixInit ==
    /\ stage = "prefix_init"
    /\ keccak_alt' = <<>>
    /\ GoOn(1, "prefix")
    /\ UNCHANGED <<sha256, sha256_alt, blake2b, OUTK, prefixH, shared, answer>>

PrefixUpdate ==
    /\ stage = "prefix"
    /\ LET absorbed == Append(keccak_alt, Item("prefix", next)) IN
           IF next = Pieces THEN prefixH' = absorbed /\ keccak_alt' = Spent
                            ELSE keccak_alt' = absorbed /\ UNCHANGED prefixH
    /\ GoOn(Pieces, "validate_init")
    /\ UNCHANGED <<sha256, sha256_alt, blake2b, OUTK, shared, answer>>

-----------------------------------------------------------------------------
(* Validation. The masks and blinded amounts that precede it touch only the  *)
(* memory LowLevelCommand does.                                              *)

\* Mutant: the prehash goes on in the context of the prefix.
ValidateInitGoesOn ==
    /\ stage = "validate_init"
    /\ IF Real /\ next = 1
       THEN OUTK' = sha256 /\ sha256' = <<>> /\ sha256_alt' = <<>>
       ELSE UNCHANGED <<OUTK, sha256, sha256_alt>>
    /\ keccak_alt' = Append(keccak_alt, Item("fee", next))
    /\ GoOn(Pieces, "validate_update")
    /\ UNCHANGED <<blake2b, prefixH, shared, answer>>

\* In FAKE mode nothing is initialised.
ValidateInit ==
    /\ stage = "validate_init"
    /\ IF Real /\ next = 1
       THEN /\ OUTK' = sha256
            /\ sha256' = <<>> /\ sha256_alt' = <<>>
            /\ keccak_alt' = <<Item("fee", next)>>
       ELSE /\ keccak_alt' = Append(keccak_alt, Item("fee", next))
            /\ UNCHANGED <<OUTK, sha256, sha256_alt>>
    /\ GoOn(Pieces, "validate_update")
    /\ UNCHANGED <<blake2b, prefixH, shared, answer>>

\* In a real transaction the destination is encoded for the display, unless it
\* is change or the user's own; its checksum goes to the shared memory.  After
\* the last one the outputs must be those of GEN_TXOUT_KEYS.
ValidateUpdate ==
    /\ stage = "validate_update"
    /\ LET outputs == Append(sha256, Item("output", next))
           commitments == Append(sha256_alt, Item("commitment", next))
           goes_on == /\ keccak_alt' = Append(keccak_alt, Item("amount", next))
                      /\ blake2b' = Spent
                      /\ GoOn(Outputs, "validate_finalize")
                      /\ UNCHANGED <<OUTK, prefixH, answer>>
       IN  \/ /\ ~Real
              /\ goes_on
              /\ UNCHANGED <<sha256, sha256_alt, shared>>
           \/ /\ Real /\ next < Outputs
              /\ goes_on
              /\ sha256' = outputs /\ sha256_alt' = commitments
              /\ shared' \in {shared, Address}
           \/ /\ Real /\ next = Outputs /\ outputs = OUTK
              /\ goes_on
              /\ sha256' = Spent /\ sha256_alt' = <<>>
              /\ shared' = commitments
           \/ /\ Real /\ next = Outputs /\ outputs # OUTK
              /\ ChainLocks
              /\ blake2b' = Spent
              /\ shared' \in {shared, Address}

ValidateFinalize ==
    /\ stage = "validate_finalize"
    /\ keccak_alt' = Append(keccak_alt, Item("commitment", next))
    /\ sha256_alt' = Append(sha256_alt, Item("commitment", next))
    /\ GoOn(Outputs, "prehash")
    /\ UNCHANGED <<sha256, blake2b, OUTK, prefixH, shared, answer>>

\* The last piece: the commitments must be those that were validated, and the
\* prefix hash the host names must be the one computed.
Prehash ==
    /\ stage = "prehash"
    /\ IF (Real => sha256_alt = shared) /\ prefixH = Prefix
       THEN /\ Answered("prehash", <<prefixH, keccak_alt, <<Item("proof", 1)>> >>)
            /\ keccak_alt' = Spent
            /\ sha256_alt' = IF Real THEN Spent ELSE sha256_alt
            /\ GoOn(1, "prepare")
            /\ UNCHANGED <<sha256, OUTK, prefixH>>
       ELSE ChainLocks
    /\ UNCHANGED <<blake2b, shared>>

-----------------------------------------------------------------------------
(* The ring signatures, one for each input. *)

ClsagPrepare ==
    /\ stage = "prepare"
    /\ input' = input + 1
    /\ stage' = "hash" /\ next' = 1
    /\ UNCHANGED <<device, tx_sig_mode, session, history>>

\* Mutant: the context is initialised for the first input only.
ClsagHashGoesOn ==
    /\ stage = "hash"
    /\ LET absorbed == Append(IF next = 1 /\ input = 1 THEN <<>> ELSE keccak_alt,
                              Item("challenge", next)) IN
           IF next = Pieces THEN shared' = absorbed /\ keccak_alt' = Spent
                            ELSE keccak_alt' = absorbed /\ UNCHANGED shared
    /\ GoOn(Pieces, "sign")
    /\ UNCHANGED <<sha256, sha256_alt, blake2b, OUTK, prefixH, answer>>

ClsagHash ==
    /\ stage = "hash"
    /\ LET absorbed == Append(IF next = 1 THEN <<>> ELSE keccak_alt,
                              Item("challenge", next)) IN
           IF next = Pieces THEN shared' = absorbed /\ keccak_alt' = Spent
                            ELSE keccak_alt' = absorbed /\ UNCHANGED shared
    /\ GoOn(Pieces, "sign")
    /\ UNCHANGED <<sha256, sha256_alt, blake2b, OUTK, prefixH, answer>>

ClsagSign ==
    /\ stage = "sign"
    /\ Answered("clsag", <<shared>>)
    /\ GoOn(1, IF input < Inputs THEN "prepare" ELSE "close")
    /\ UNCHANGED device

-----------------------------------------------------------------------------
(* Names, and the unlock signature. *)

\* The user was asked and has accepted.
AskLns ==
    /\ SessionStarts("lns_hash")
    /\ UNCHANGED <<device, tx_sig_mode>>

\* Mutant: the context is not initialised.
LnsHashGoesOn ==
    /\ stage = "lns_hash"
    /\ LET absorbed == Append(blake2b, Item("name", next)) IN
           IF next = Pieces THEN shared' = absorbed /\ blake2b' = Spent
                            ELSE blake2b' = absorbed /\ UNCHANGED shared
    /\ GoOn(Pieces, "lns_sign")
    /\ UNCHANGED <<keccak_alt, sha256, sha256_alt, OUTK, prefixH, answer>>

LnsHash ==
    /\ stage = "lns_hash"
    /\ LET absorbed == Append(IF next = 1 THEN <<>> ELSE blake2b, Item("name", next)) IN
           IF next = Pieces THEN shared' = absorbed /\ blake2b' = Spent
                            ELSE blake2b' = absorbed /\ UNCHANGED shared
    /\ GoOn(Pieces, "lns_sign")
    /\ UNCHANGED <<keccak_alt, sha256, sha256_alt, OUTK, prefixH, answer>>

\* oxen_generate_signature works in keccak_alt; the name's hash is wiped.
LnsSign ==
    /\ stage = "lns_sign"
    /\ Answered("lns", <<shared>>)
    /\ keccak_alt' = Spent
    /\ shared' = Spent
    /\ SessionEnds
    /\ UNCHANGED <<sha256, sha256_alt, blake2b, OUTK, prefixH, locked, disturbed>>

UnlockSign ==
    /\ stage = "none"
    /\ keccak_alt' = Spent
    /\ UNCHANGED <<sha256, sha256_alt, blake2b, OUTK, prefixH, shared, host, history>>

-----------------------------------------------------------------------------
(* What else uses the same memory, at any time. *)

\* The memory whose value a later command of the session still needs.
StillNeeded ==
    CASE stage = "prefix" -> {"keccak_alt"}
      [] stage \in {"validate_init", "hash"} /\ next > 1 -> {"keccak_alt"}
      [] stage = "validate_update" -> {"keccak_alt"}
      [] stage \in {"validate_finalize", "prehash"} -> {"keccak_alt", "shared"}
      [] stage = "lns_hash" /\ next > 1 -> {"blake2b"}
      [] stage \in {"sign", "lns_sign"} -> {"shared"}
      [] OTHER -> {}

Disturbs(by, memory) ==
    /\ disturbed' = disturbed \cup (IF memory \cap StillNeeded # {} THEN {by} ELSE {})
    /\ UNCHANGED <<sha256, sha256_alt, OUTK, prefixH, host, answer, locked>>

\* Any command that hashes in G_oxen_state.keccak: keys, derivations, proofs.
LowLevelCommand ==
    /\ blake2b' = Spent
    /\ UNCHANGED <<keccak_alt, shared>>
    /\ Disturbs("low_level", {"blake2b"})

\* oxen_wallet_address, for DISPLAY_ADDRESS or from the main menu.
ShowAddress ==
    /\ blake2b' = Spent
    /\ shared' = Address
    /\ UNCHANGED keccak_alt
    /\ Disturbs("address", {"blake2b", "shared"})

\* GEN_KEY_IMAGE_SIGNATURE
KeyImageSignature ==
    /\ blake2b' = Spent
    /\ keccak_alt' = Spent
    /\ UNCHANGED shared
    /\ Disturbs("key_image", {"blake2b", "keccak_alt"})

\* The PIN is entered after a time-out: the keys are loaded, in keccak if they
\* come from the seed, and the key that seals values is derived in keccak_alt.
PinEntered ==
    /\ blake2b' \in {blake2b, Spent}
    /\ keccak_alt' = Spent
    /\ UNCHANGED shared
    /\ Disturbs("pin", {"keccak_alt"} \cup IF blake2b' = blake2b THEN {} ELSE {"blake2b"})

-----------------------------------------------------------------------------
Init ==
    /\ keccak_alt = Spent /\ sha256 = Spent /\ sha256_alt = Spent /\ blake2b = Spent
    /\ OUTK = Spent /\ prefixH = Spent
    /\ shared = Address
    /\ tx_sig_mode = "FAKE"
    /\ session = 0
    /\ stage = "none" /\ next = 1 /\ input = 0
    /\ answer = NoAnswer /\ locked = FALSE /\ disturbed = {}

Transaction ==
    \/ \E mode \in {"REAL", "FAKE"} : OpenTx(mode)
    \/ GenTxoutKeys \/ PrefixInit \/ PrefixUpdate
    \/ ValidateInit \/ ValidateUpdate \/ ValidateFinalize \/ Prehash
    \/ ClsagPrepare \/ ClsagHash \/ ClsagSign

Special == AskLns \/ LnsHash \/ LnsSign \/ UnlockSign

Disturbance == LowLevelCommand \/ ShowAddress \/ KeyImageSignature \/ PinEntered

Next == Transaction \/ Special \/ Disturbance \/ EndTx \/ Restart

Spec == Init /\ [][Next]_vars

-----------------------------------------------------------------------------
(* Properties. *)

\* A host that sends what it should is never locked out by a check of the
\* chain, whatever was left behind by sessions that were abandoned or
\* disturbed before, and whatever is served in between, as long as no value the
\* session still needs is lost.
HonestHostIsServed == locked => disturbed # {}

\* The prehash of a real transaction binds its prefix, fee, amounts and
\* commitments, all of them, once and in order.
PrehashIsWhole ==
    answer.kind = "prehash" /\ Real /\ disturbed = {} =>
        answer.value = <<Prefix, Prehashed, << <<"proof", session, 0, 1>> >> >>

\* A ring signature is made on the challenge of its own input, and a name is
\* signed as the host has sent it.
SignsWhatWasHashed ==
    /\ answer.kind = "clsag" /\ disturbed = {} =>
           answer.value = <<All("challenge", answer.input, Pieces)>>
    /\ answer.kind = "lns" /\ disturbed = {} => answer.value = <<All("name", 0, Pieces)>>

\* Also when it was disturbed, a session never hands out anything made of the
\* data of an earlier session or of another input.
NothingFromElsewhere ==
    \A i \in 1 .. Len(answer.value) : \A j \in 1 .. Len(answer.value[i]) :
        LET item == answer.value[i][j] IN
            item[1] \notin {"spent", "address"} =>
                item[2] = session /\ item[3] = answer.input

\* "During this sequence low level API remains available"
\* (doc/developer/blue-app-commands.rst:1643): a host that uses the commands with
\* no place in the sequence still has its transaction served.
LowLevelRemainsAvailable == locked => disturbed \cap {"address", "pin"} # {}
=============================================================================
