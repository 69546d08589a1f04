# Oxen Ledger application: a TLA+ verification project

The subject is the Oxen wallet application for Ledger devices, `src/src/*.c`: one
thread on a device without a clock of its own, which answers the commands of a
host, asks its user before it signs, and keeps the keys. The host is not part of
the program; neither is the operating system of the device, which owns the PIN,
the display driver and the flash. Beside it the project covers the seed tool of the
repository, which runs on a computer.

Paths below are relative to `src/src/` unless they start with `src/`.

## 1. Inventory

| Component | State it keeps | Operations | What makes it correct |
|---|---|---|---|
| Command dispatcher (`oxen_dispatch.c`) | the place in the command sequence: `tx_state_ins`, `tx_state_p1`, `tx_state_p2` | one case per instruction; `check_protocol`, `check_ins_access`, `update_protocol`, `clear_protocol` | the place never presupposes a step that was not served and accepted; one transaction at a time |
| Main loop and system events (`oxen_main.c`) | the pending answer (`io_flags`), PIN state as the system reports it | take a command, send an answer, catch an exception; button, ticker, PIN events; restart | an exception leaves no transaction open; an unanswered command is answered by exactly one callback |
| Transaction session (`oxen_open_tx.c`) | `tx_in_progress`, `tx_type`, `tx_sig_mode`, `hmac_key`, transaction keys | open, close, abort, set mode, reset | every end of a session voids consent, nonces and sealed values together |
| Prefix hash (`oxen_prefix.c`) | `keccak_alt`, `prefixH` | init, update | the hash is of this transaction's prefix, piece by piece in order |
| Commitments (`oxen_blind.c`, `oxen_prehash.c`) | none | mask, blind, unblind | arithmetic |
| Validation (`oxen_prehash.c`) | `sha256`, `sha256_alt`, `keccak_alt`, `OUTK`, `commitment_hash` | init, update per output, finalize | the outputs shown to the user are those whose keys were made, and their commitments those that are hashed |
| Ring signature (`oxen_clsag.c`) | `tx_sign_cnt`, `clsag_c` | prepare, hash, sign, once per input | a nonce signs once; the challenge signed is the one hashed for that input |
| Special signatures (`oxen_key.c`) | `tx_special_confirmed`, `blake2b`, `lns_hash` | ask, hash, sign (names); ask, sign (unlock) | signs only what was asked and accepted, with no transaction open |
| User interface (`oxen_ux_nano.c`) | the flow on the display, texts in a union with `tmp` | questions and their answers, menus, lock screen | the question on the display is the one the host waits on; a locked device can be unlocked |
| Boot and settings (`oxen_init.c`, `oxen_nvram.c`) | `N_oxen_state` in flash; keys in RAM | install, load keys, reset, choose a setting | always bootable; a reset is complete; settings take effect |
| Low-level key commands (`oxen_key.c`, `oxen_blind.c`, `oxen_proof.c`) | `export_view_key`; values sealed by `spk` and `hmac_key` held by the host | derivations, key images, proofs, PUT_KEY, GET_KEY | secrets leave the device only sealed; a sealed value is used only as what it is |
| Input and output (`oxen_io.c`) | `io_buffer`, `io_offset`, `io_length` | fetch, insert, seal, unseal, exchange | fields are read where they are, within the buffer, with their tags |
| Cryptography and encoding (`oxen_crypto.c`, `oxen_monero.c`) | working contexts `keccak`, `keccak_alt` | hashes, curve arithmetic, base58 | reference algorithms |
| Seed tool (`seedconv.py` and `dictionaries/` under `src/tools/python/src/ledger/monero/`) | the upload: words taken, `start`, `cnt`, `chunk`; what the device got | online: check the language, erase the device, load a dictionary in messages; offline: derive the keys from the mnemonic, write the spend key as words | words give the key back; a device holds one whole dictionary; messages fit; nothing is erased for a language that cannot be loaded |
| Test client, documents, images, build files (`src/tests`, `src/doc`, `src/Makefile`, ...) | none that the device's correctness rests on | | |

**How they interact.** All components share one structure, `G_oxen_state`. The
main loop calls the dispatcher, the dispatcher calls one handler. A handler
returns a status word, which is answered at once; or 0 after it has put a
question on the display, and then the answer is sent by a callback of the user
interface while the main loop waits inside `monero_io_do`; or it throws, which
resets the transaction in `monero_main`. `monero_lock_and_throw` may be called
from anywhere. Settings menus call `monero_init` in the middle of whatever is
going on. The system may report a PIN entry between any two steps, which loads
the keys again.

**What is hard.** There are no threads, so the concurrency is that of the host,
the user and the system between commands. The place in the sequence is recorded
before the user has answered. Exceptions and refusals reset the transaction and
leave the place alone. Several hashes run across commands in memory that is
also used elsewhere, partly through unions. Flash writes can be cut off. The
complete list, with lines and the properties that cover each, is under `hazards`
in `PROJECT.json`.

## 2. Modules

    OxenProtocol  <--  OxenDispatch  <--  OxenDispatchProofs  <-+
                            |                                   |
                       OxenSession  <-------------------  OxenSessionProofs
                        |   |  implements
                        |  SigningSession
                  MCOxenDispatch                               (runs)

    OxenNvram  --implements-->  SettingsStore     OxenNvramProofs extends OxenNvram
    OxenTxData                                     OxenTxDataProofs extends OxenTxData
    OxenKeys                                       OxenKeysProofs extends OxenKeys
    OxenIo                                         OxenIoProofs extends OxenIo
       ^
    MCOxenIo  -->  OxenCommands                                   (runs)

    SeedWords  <--  SeedTool  <--  SeedToolProofs
                       ^
                    MCSeedTool  -->  SeedDictionaries             (runs)

**OxenProtocol** is vocabulary: instructions, modes, places, and how the pieces of a
multi-piece command are numbered.

**OxenDispatch** is the control of the whole application. One action per command
handler, with its guards from `check_protocol`, `check_ins_access` and the case in
`monero_dispatch`; one per answer, menu choice and event of the system. What a
handler computes is reduced to how it ends: `Answered`, `Asked`, `Thrown`,
`LockedAndThrown`.

| Variable | Code |
|---|---|
| `protocol_barrier`, `tx_in_progress`, `tx_type`, `tx_sig_mode`, `tx_special_confirmed`, `tx_sign_cnt` | the fields of `G_oxen_state` of those names |
| `tx_state` | `tx_state_ins`, `tx_state_p1`, `tx_state_p2` |
| `pin_verified` | `os_global_pin_is_validated()` |
| `prompt` | a command whose handler returned 0, named by the question |
| `screen` | the flow given to `ux_flow_init` |
| `alphas` | the sealed nonces whose tag verifies under the present `hmac_key` and `tx_sign_cnt` values |
| `steps`, `signed`, `accepted` | histories, read by properties only |

The order in which a handler works is kept where it shows: PREFIX_HASH and
VALIDATE record their first place before they check anything (`PrefixThrows`,
`ValidateThrows`), PREPARE moves the counter before it reads (`ClsagPrepareFails`),
SET_SIGNATURE_MODE sets FAKE before it looks at its argument
(`SetSignatureModeFails`), and a refused amount shows "Aborted" and is then
overwritten (`RejectAmount`).

**SigningSession** says in eight short actions what the application promises about
signing. **OxenSession** maps the dispatcher to it.

**OxenNvram** is boot, installation, settings and stored keys. An operation puts its
flash writes in `job` and `Write` carries them out one by one; the power may fail
before, between and inside them. The view key question and the bit arithmetic on
`ACCEPT` and `REJECT` are here. **SettingsStore** is what it implements: a store in
which installing, wiping and the step from the seed to an external key pair are
atomic.

**OxenTxData** is the data between commands: the contexts `keccak_alt`, `sha256`,
`sha256_alt`, `blake2b` and the results `OUTK`, `prefixH` and the 32 bytes that
`clsag_c`, `commitment_hash`, `addr_checksum_hash` and `lns_hash` share. A hash is
the sequence of what it absorbed. The host walks the documented order with data of
its own; sessions are abandoned, locked and restarted anywhere; and everything
else that uses the memory may do so at every step. It stands beside the dispatcher
rather than on it: the product of both would be too large to check, and the guards
it leaves out only remove sequences that OxenDispatch shows are not served.

**OxenKeys** is the secrets between commands. The device keeps none: it seals them
under `spk`, a key made of the account's own, tags them in a transaction with
`hmac_key` and their type, and the host brings them back. Two things are stale in
turn: the account in RAM (`loaded`) against the one in flash (`stored`), because
PUT_KEY writes the flash and only the next PIN entry loads it; and the two keys kept
for SECRET_KEY_ADD, which no reset of a transaction clears. A value is told by the
pairs that went into it, the transaction it was computed in, and whether it is what
its formula says. Every command that seals a value is here except CLSAG PREPARE,
whose nonces are in OxenDispatch; commands that open values and seal none change
nothing. The placeholders of the two keys are opened by mistake wherever no
placeholder is taken (`Brought`).

| Variable | Code |
|---|---|
| `stored`, `loaded` | `N_oxen_state` keys with `key_mode`; `view_priv`, `spend_priv`, `spk` |
| `hmac_key`, `last_derive_secret_key`, `last_get_subaddress_secret_key` | the fields of those names |
| `tx`, `reloaded` | histories: number of the transaction, and whether the keys changed in it |
| `sealed` | the host: sealed values with the `spk` they are under and their tag |

**OxenIo** is the exchange buffer in bytes, for every command. A command is received
in any form (whole, cut after or inside a field, too long; its keys sealed or
placeholders), its handler runs step by step, and the answer is sent by
`monero_main`, by the exception handler or by a callback of the user interface. The
handlers are a constant: `Program` gives each command the sequence of its calls to
`oxen_io.c` together with the places where it follows a pointer into the buffer,
works in the buffer, or writes `tmp`. Any computation may throw before any step.
Before its first step a command passes `check_protocol` and `check_ins_access`, as
`monero_dispatch` has it: a locked device refuses everything until the PIN was
entered, OPEN_TX, SET_SIGNATURE_MODE and the commands of a transaction want the PIN
(`PinRequired`), and the latter an open transaction (`TransactionRequired`). Both
checks let a command through, or the answer is sent at once: the status of
`check_protocol`, or 0x0001 for any of `check_ins_access`.
**OxenCommands** holds the handlers of the application, each under its own name, and
MCOxenIo gives them to OxenIo. What a handler must keep to is in two assumptions,
which TLC evaluates for every step of every one of them:

| `HandlersAssumption` | What it asks of a handler |
|---|---|
| `ReadsFirst` | fields are taken in the order they are sent, before anything else is done |
| `DiscardsBetween` | it discards before it writes, asks or ends; nothing is discarded or cleared once the answer has begun |
| `FollowsInTime` | a pointer is followed before the first step that may write over the message |
| `LeavesRoom` | the longest answer fits the transport with its status and that of an unasked answer |
| `OnlyFeeUnbounded` | only the first VALIDATE decodes a field without regard to the length |
| `NothingAfterSpendKey` | where the placeholder of the spend key is taken, at most a public key follows, and only in VERIFY_KEY |

`StepsAssumption` is about the sizes of single steps. `Start` and `Written` add sizes
up as numbers of bytes in a set, not with a fold: the facts about folds in the library
of the prover take operators as parameters, which it cannot instantiate.

| Variable | Code |
|---|---|
| `phase`, `ins`, `pc` | where `monero_main` and the handler are |
| `io_offset`, `io_length` | the fields of those names |
| `secret`, `tagged` | what the host sent as keys (sealed, or a placeholder), and whether it sent tags; `Layout` is where it put each field |
| `intact` | the received bytes are still in `io_buffer` |
| `reads`, `misused` | histories: which field each read found, pointers followed too late |
| `pieces`, `sent` | what the handler inserted; the last answer |
| `protocol_barrier`, `pin_verified` | the field of that name; `os_global_pin_is_validated()` |
| `display`, `question`, `disp_addr_mode` | the flow on the display, what the host waits for, and the byte of the union that decides whether "Back" answers it |

**SeedTool** is `seedconv.py`: one action per function or per message, and runs that
end anywhere with the last message received or lost. **SeedWords** is the arithmetic
of `spendkey_to_words` in halves of 16 bits, since TLC computes in 32.
**SeedDictionaries** has, of each dictionary file, the name, the length of the prefix
and the length in bytes of every word of an online language; of an offline one the
size of its list is enough. The device that receives the words is external: the
application of this repository does not serve the instruction the tool sends.

## 3. Runs

| Run | Shows | Bounds |
|---|---|---|
| `dispatch` | type invariant, six invariants and three action properties of the dispatcher; OxenDispatch implements SigningSession; a lock is released, a question answered, the sequence freed | `MaxP2` 2, `MaxSign` 2, two transaction types; 83986 states |
| `nvram_power` | bootable after any power failure, boots end, resets complete, denials respected, implements SettingsStore | two key pairs; 65271 states |
| `txdata_sessions` | an honest host is served, its prehash is whole, signatures are on what was hashed, nothing comes from another session | two outputs, inputs and pieces, three sessions; 56936 states |
| `keys_accounts` | a transaction opens only what it sealed, secrets never mix accounts | two pairs, two transactions, two values held; 725562 states |
| `io_commands` | fields are read where they were sent, pointers while the message is there, answers fit and hold nothing else, questions can be answered | the real handlers, and the real lengths, 288 and 254; 44717 states |
| `seed_tool` | messages fit, one dictionary on the device, words give the key back, nothing is erased in vain | the real dictionaries; the example key of the source and extreme ones, three checksums; 35950 states |
| `dispatch_order`, `nvram_answer`, `nvram_pairs`, `txdata_lowlevel`, `io_refusal`, `seed_offline` | a statement of the repository that the code does not keep (section 6) | as above |

**Why these bounds are enough.** `MaxP2` stands for 255: with 2 a piece counter
starts, follows, and wraps from its largest value to 1. `MaxSign` stands for
2^32 - 1: with 2 there are nonces that are prepared and not used, one reuse to be
refused, and the wrap to 0 at which the device locks. Two transaction types are
needed for the type to change unnoticed, and STANDARD is the only one with a
timelock question. Two key pairs are the least that can be mixed. In OxenTxData two
pieces, outputs and inputs distinguish first, last and next; three sessions let data
of the first pass through the second. In OxenKeys two transactions and two pairs are
the least for a value to be brought from the other one, and two values are what the
longest formula takes; a key kept by the device is a third. OxenIo and SeedTool have
no bound to choose but the keys tried: those whose groups are all zero and all ones
are among them. Lengths of messages are whole, one too long, and cut after each field
and inside it; the counters are compared with nothing but the starts and ends of
fields. Every safety property is moreover proved for all values of the constants that
the named assumptions admit (section 4).

**Fairness.** For its three liveness properties `dispatch` assumes that the host goes
on: it sends a low-level command now and then and closes what it started. It assumes
that the user answers questions, presses the one button of an information screen,
and enters the PIN when asked. None of that is in the code; it is what the code needs from its
environment, and without it a device in a drawer waits for ever. Strong fairness is
needed where the PIN may time out again and again before the action is taken
(answers, buttons, commands); weak fairness is enough for the PIN, which nothing
else disables. `nvram_power` assumes weak fairness of `Boot` (`monero_init` and
pending writes): the processor runs while it has power; the property lets a boot
end by losing it. The other modules state no fairness: what they promise is safety.

`CHECK_DEADLOCK` is nowhere switched off.

## 4. Proofs

`OxenDispatchProofs`, for every `MaxP2`, `MaxSign` in Nat \ {0} and every set of
transaction types. The properties are not inductive: that a nonce signs once
depends on the nonces being named by past values of the counter and on the present
one not having signed between PREPARE and SIGN (`NonceInv`); that a special
sequence has its own consent depends on the pending question being about the
recorded place (`SpecialInv`). The invariant is

    IInv == TypeOK /\ ControlInv /\ NonceInv

`TypeStep`, `ControlStep` and `NonceStep` show that each action keeps its part; the
safety theorems are read off, the three action properties with the lemma
`WhoMoves`, which says which action moves the variables they are about.

`OxenSessionProofs` proves the refinement: each action of the dispatcher is one
action of SigningSession or none. Besides `IInv` it needs `SessionInv`: outside a
transaction nothing of an earlier one is left.

`OxenNvramProofs`, for every set of pairs whose names are not "zero", "torn" or
"seed". A job is one of four shapes, and at each position of an installation the
fields already written are known (`JobInv`); from that, `UsableInv` and `DenialInv`.
The refinement to SettingsStore follows the same shapes, one lemma for each.

`OxenTxDataProofs`, for every number of outputs, inputs, pieces and sessions. The four
properties speak of answers; what makes them inductive is a conjunct for each
context that says what it has absorbed at the host's position (`OutputInv`,
`PrefixInv`, `PrehashInv`, `SigningInv`): for instance that `keccak_alt` is all the
pieces before the next one, unless the session was disturbed. `OriginInv` says the
weaker thing that holds even then: that nothing in a context which can still reach
an answer is of another session.

`OxenKeysProofs`, for every set of pairs, any number of transactions and a host that
keeps any number of values. The invariant describes each sealed value (`ItemInv`): its
tag is of the transaction and the type it was computed for, its keys are of the pair
it is sealed under, and in the transaction that sealed it, it is good as long as no
other pair was loaded. `TransactionInv` says that `hmac_key` is that of the present
transaction, `LastInv` that the two keys kept are each of one pair. That placeholders
opened by mistake stay out of the sums of a transaction rests on the comparison in
`monero_apdu_sc_add` (`AddStep`).

`OxenIoProofs`, for all handlers that keep to the assumptions above and every length
of buffer and transport. The properties are about what a handler finds at
`io_offset` and what it leaves at `io_length`, and neither is inductive without
knowing what the two counters are at each step. While it reads (`ReadingInv`), the
offset is the start of the field the step takes, or one tag before it once a
placeholder of the spend key was taken in a transaction; so what is read is the field
that lies there (`PartsApart`, `FieldIs`). After the discard (`AnswerInv`), the
length is the size of the pieces of the answer and at most `Written`. The message is in the buffer
until the first step that may write over it (`MessageInv`). What an answer leaves
behind has room for one more status as long as "Back" may send it again
(`LengthInv`), and the mode is that of the question on the display (`ScreenInv`).
Below this are lemmas on counting bytes: a part ends where the next starts, and only
the parts before a place count.

`SeedToolProofs`, for any dictionaries of 1626 words of at most 127 bytes and any keys
of 32 bytes. The invariant `UploadInv` says that the messages the device holds tile
the words already sent, in their places, or that it was not told the length of a
prefix. `WordsDecode` is arithmetic: three words of a list of n give back the four
bytes they were made of whenever n cubed is at least 2^32, which is what makes 1626
enough. `WordsGiveBack` carries that to the sequence of words of a whole key, of any
number of groups from eight on, and `WordsCorrect` to what a run prints; the
documented words of the example key are computed step by step in its proof.

What the proofs take for granted: that `nvm_write` erases and writes in the order of
addresses and that a byte is never torn (section 5), and the named assumptions on
the constants; for OxenKeys, that sealing and tags are perfect. What is only
model-checked is liveness (`LockIsReleased`, `QuestionIsAnswered`, `SequenceIsFreed`,
`BootEnds`), which is beyond this prover, and that the handlers of OxenCommands keep to
`HandlersAssumption`, which TLC evaluates without any bound: they are finitely many
and so are their steps.

One remark on the prover. Its encoding of sequences for SMT says of every value, not
only of functions, that its domain is 1..N exactly when its length is N, which is
more than TLA+ says of `Len`. No proof here leans on that: with the axiom
restricted, all of them still go through.

## 5. What is abstracted, and what is not modelled

- Protocol versions: in OxenIo the host is free to send a wrong one. Which status a
  refusal has is in OxenIo only; in the other modules the properties do not tell one
  refusal from another. Unknown instructions, which `check_ins_access` refuses too,
  are not among the commands.
- What commands compute on the curve, and whether a commitment opens to its amount:
  an outcome (success, throw or lock).
- `truncate_addrs_mode`, `confirm_fee_mode` and `confirm_change_mode` are one field,
  `confirm`, of OxenNvram; in OxenDispatch whether a question is asked is a free
  choice, so every setting is covered.
- `nvm_write` is taken to erase and write a range in ascending order. A field of a
  single byte is written or not; a wider one may be torn.
- A hash context after its final result (`Spent`) never yields a good hash again
  until it is initialised. That is the weakest reading of `CX_LAST`.
- FAKE mode is modelled where it differs from REAL in what is checked; what the
  device computes in FAKE mode is not compared with anything.
- `OXEN_ALPHA` and `OXEN_BETA` builds, which install TESTNET, and `DEBUG_HWDEVICE`
  builds, which fix `hmac_key`, are left out.
- Sealing and tags are perfect in OxenKeys: no two values or keys collide. There the
  PIN guards no command, which only adds behaviours, and nonces are left out.
- OxenIo takes the commands as the handlers read them; which value a tag belongs to is
  told by where it lies. Of the two ways a "may ask" step can go, settings and amounts
  decide; both are taken. The longest answer is that of OPEN_TX, 226 bytes. Exceptions
  in the ranges 0x9000 and 0x6400, whose answers would not be discarded, are thrown
  nowhere, so `Catch` has one form. The two always-forms of the view key setting are
  answered inside the handler.
- In the seed tool `retrieve_language` accepts what Python can index with, so also
  negative numbers: they name the same languages. It prints that a dictionary of a
  wrong length is skipped and goes on; all of those in the repository have 1626
  words. `clear_online_seed` is called nowhere. Hashes and derivations are told by
  what went into them; `crc32` is any of three values.
- What is pure computation is left out: curve arithmetic, base58, the texts of amounts
  and addresses. So are transport and display driver, and the counter that selects an
  icon (`tx_cnt`). The test client sends one command after the other and keeps no state
  that the device relies on; documents, images and build files have no behaviour.

## 6. Where the code and its statements part

1. `dispatch_order`: "their sequence shall be enforced" (`oxen_dispatch.c:236`), but
   GEN_COMMITMENT_MASK is served at any place of a transaction and moves it.
2. `nvram_answer`: `REJECT` is `~ACCEPT` and carries the bit 0x10000 that means
   "remember" (`oxen_ux_nano.c:298`): a plain refusal to export the view key is
   stored as a permanent one.
3. `nvram_pairs`: PUT_KEY stores the view key before it has checked the spend key
   (`oxen_key.c:109`), where the command reference checks both and then stores.
4. `txdata_lowlevel`: "low level API remains available" during a transaction, but
   GEN_KEY_IMAGE_SIGNATURE works in `keccak_alt`, the running hash of the
   transaction. An address shown at the wrong moment and a PIN entry have the same
   effect; `HonestHostIsServed` and `StillNeeded` in OxenTxData say exactly when.
5. `io_refusal`: a parenthesis at `oxen_dispatch.c:134` makes every refusal of
   `check_ins_access` answer 0x0001 instead of its status: a missing PIN for OPEN_TX,
   SET_SIGNATURE_MODE and the commands of a transaction, and for the latter also that
   none is open. The refusals of `check_protocol`, that of a locked device among them,
   keep their status.
6. `seed_offline`: the tool derives along 44'/10343'/0'/0/0, the application along
   44'/240'/0'/0/0, so the words the tool prints are for another wallet.

None of these is a proved property, and the proved ones hold in spite of them: a
transaction whose hash is lost ends with a lock or an invalid signature, not with a
signature on other data (`NothingFromElsewhere`); a pair loaded in the middle of a
transaction makes sealed values unusable and never mixes with the other
(`SecretsBelongTogether`).

Smaller things met on the way, which no run is about:

- The comment at `oxen_key.c:504` requires an open UNLOCK transaction for the unlock
  signature; the dispatcher requires that none is open.
- The fee of the first VALIDATE is decoded from ten bytes whatever `io_length` says
  (`oxen_prehash.c:56`), and after a placeholder of the spend key VERIFY_KEY reads
  the public key from the tag (`oxen_io.c:290`). `FieldsReadWhereSent` names both as
  the only two exceptions.
- `disp_addr_mode` lies in `tmp`: a signature or a proof computed while an address is
  shown makes "Back" send an answer nobody waits for
  (`OnlyAnOverwrittenModeAnswersUnasked` says that this is the only way).
- The command reference gives the path as 44'/128', VERIFY_KEY an answer of 32 bytes
  where the code answers four, UNBLIND and BLIND the values in the other order, and
  the payment ID a length of 0x20 where the code takes 8.

## 7. Plan

Built in this order: OxenProtocol and OxenDispatch with their proofs, SigningSession
with the refinement and its proof, OxenNvram and SettingsStore with theirs,
OxenTxData and its proofs, OxenCommands and OxenIo, SeedWords and SeedTool with
proofs, OxenKeys and its proofs, and OxenIoProofs, for which the handlers became a
constant of OxenIo.

What is left: reference definitions for the pure algorithms (base58 block sizes,
amount formatting, address truncation, variable-length integers) and the texts on the
display.
