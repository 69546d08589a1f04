---------------------------- MODULE OxenDispatch ----------------------------
(***************************************************************************)
(* The command dispatcher of the Oxen Ledger application, with the effect  *)
(* each handler, each user answer and each operating system event has on   *)
(* the control state of the device.                                        *)
(*                                                                         *)
(* The application is one thread: it answers one command at a time, and a  *)
(* command whose handler returns 0 stays unanswered until the user decides *)
(* (variable prompt).  The interleavings are those of the host, the user   *)
(* (buttons, menus, PIN), and the system (PIN time-out, USB reset, quit).  *)
(* What a handler computes is abstracted to its outcome: it succeeds, asks *)
(* the user, throws, or locks the device and throws.                       *)
(***************************************************************************)
EXTENDS OxenProtocol, Sequences

VARIABLES
    protocol_barrier,      \* whether commands are served
    pin_verified,          \* os_global_pin_is_validated() (operating system)
    tx_in_progress,
    tx_type,
    tx_sig_mode,
    tx_state,              \* tx_state_ins, tx_state_p1, tx_state_p2
    tx_special_confirmed,
    tx_sign_cnt,
    prompt,                \* the question an unanswered command waits on
    screen,                \* the flow the display shows
    steps,                 \* history: steps of the open transaction that were
                           \*   completed, and accepted where they ask
    alphas,                \* the nonces sealed under the present hmac_key, each
                           \*   named by the tx_sign_cnt its tag binds
    signed,                \* history: the nonces consumed by CLSAG signatures
                           \*   under the present hmac_key
    accepted               \* history: the special request accepted last

history == <<steps, alphas, signed>>
vars == <<protocol_barrier, pin_verified, tx_in_progress, tx_type, tx_sig_mode,
          tx_state, tx_special_confirmed, tx_sign_cnt, prompt, screen,
          steps, alphas, signed, accepted>>

AmountPrompts == {"timelock", "fee", "output", "change"}
Prompts == AmountPrompts \cup SpecialInstructions \cup {"viewkey", "address", "none"}
Screens == {"main", "settings", "address", "processing", "info", "question"}

\* One round of VALIDATE: begin, destinations, commitments.
Round == {"init", "update", "finalize"}
Steps == Round \cup {"prefix"}

\* The step an accepted question completes.
StepOf(p) == CASE p = "fee" -> {"init"}
               [] p \in {"output", "change"} -> {"update"}
               [] OTHER -> {}

TypeOK ==
    /\ protocol_barrier \in Barriers
    /\ pin_verified \in BOOLEAN
    /\ tx_in_progress \in BOOLEAN
    /\ tx_type \in AllTxTypes
    /\ tx_sig_mode \in SigModes
    /\ tx_state \in TxStates
    /\ tx_special_confirmed \in BOOLEAN
    /\ tx_sign_cnt \in 0 .. MaxSign
    /\ prompt \in Prompts
    /\ screen \in Screens
    /\ steps \subseteq Steps
    /\ alphas \subseteq 1 .. MaxSign
    /\ signed \in Seq(1 .. MaxSign)
    /\ accepted \in SpecialInstructions \cup {"NONE"}

-----------------------------------------------------------------------------
(* What several handlers share. *)

\* A fresh G_oxen_state: monero_init clears everything and serves commands.
MoneroInit ==
    /\ protocol_barrier' = "UNLOCKED"
    /\ tx_in_progress' = FALSE
    /\ tx_type' = "STANDARD"
    /\ tx_sig_mode' = "NONE"
    /\ tx_state' = Idle
    /\ tx_special_confirmed' = FALSE
    /\ tx_sign_cnt' = 0
    /\ steps' = {}
    /\ alphas' = {}
    /\ signed' = <<>>
    /\ accepted' = "NONE"
    /\ prompt' = "none"

\* Mutant: the hmac_key is kept.
ResetTxKeepsKey ==
    /\ tx_in_progress' = FALSE
    /\ steps' = {}
    /\ UNCHANGED <<alphas, signed>>

\* monero_reset_tx: no transaction, and a new hmac_key, so that no value sealed
\* before is accepted again.  The place in the sequence is left alone.
ResetTx ==
    /\ tx_in_progress' = FALSE
    /\ steps' = {}
    /\ alphas' = {}
    /\ signed' = <<>>

\* A command is looked at only when no question is pending and the barrier is
\* up, or is raised now because the PIN was entered after a lock.
Served ==
    /\ prompt = "none"
    /\ \/ protocol_barrier = "UNLOCKED"
       \/ protocol_barrier = "LOCKED_UNLOCKABLE" /\ pin_verified
ServedWithPin == Served /\ pin_verified
ServedInTx == ServedWithPin /\ tx_in_progress

\* The handler returned a status word: update_protocol records the command.
Answered(place) ==
    /\ protocol_barrier' = "UNLOCKED"
    /\ tx_state' = place
    /\ UNCHANGED <<pin_verified, tx_sig_mode, tx_special_confirmed, prompt, accepted>>

\* The handler returned 0 after it put a question on the display: the place is
\* recorded at once, before the user answers.
Asked(question, place) ==
    /\ protocol_barrier' = "UNLOCKED"
    /\ tx_state' = place
    /\ prompt' = question
    /\ screen' = "question"
    /\ UNCHANGED <<pin_verified, tx_sig_mode, tx_special_confirmed>>

\* An exception reached the main loop: the transaction is reset.
Thrown ==
    /\ ResetTx
    /\ protocol_barrier' = "UNLOCKED"
    /\ UNCHANGED <<pin_verified, tx_type, tx_special_confirmed, prompt, screen, accepted>>

\* Mutant: the lock is not followed by the reset of the transaction.
LockedInTx ==
    /\ protocol_barrier' = "LOCKED"
    /\ screen' = "info"
    /\ UNCHANGED <<pin_verified, tx_in_progress, tx_type, tx_special_confirmed, prompt,
                   history, accepted>>

\* monero_lock_and_throw.
LockedAndThrown ==
    /\ ResetTx
    /\ protocol_barrier' = "LOCKED"
    /\ screen' = "info"
    /\ UNCHANGED <<pin_verified, tx_type, tx_special_confirmed, prompt, accepted>>

-----------------------------------------------------------------------------
(* Commands that leave the place in the sequence alone. *)

\* A command with no effect on the control state: the low-level commands and
\* the ones check_ins_access denies.  It raises the barrier after a PIN entry.
LowLevelCommand ==
    /\ Served
    /\ protocol_barrier' = "UNLOCKED"
    /\ UNCHANGED <<pin_verified, tx_in_progress, tx_type, tx_sig_mode, tx_state,
                   tx_special_confirmed, tx_sign_cnt, prompt, screen, history, accepted>>

\* Any command may throw: no data at all, a command out of sequence, wrong P1
\* and P2, or data the handler refuses.
CommandThrows ==
    /\ Served
    /\ Thrown
    /\ UNCHANGED <<tx_state, tx_sig_mode, tx_sign_cnt>>

\* LOCK_DISPLAY does nothing but lock, and any command that meets a value with
\* a wrong tag, or fails one of the checks on the transaction, locks as well.
CommandLocks ==
    /\ Served
    /\ LockedAndThrown
    /\ UNCHANGED <<tx_state, tx_sig_mode, tx_sign_cnt>>

\* INS_RESET from a supported client.  The display keeps what it showed.
ResetCommand ==
    /\ Served
    /\ MoneroInit
    /\ UNCHANGED <<pin_verified, screen>>

\* GET_KEY for the view key when the user must decide, and DISPLAY_ADDRESS.
AskViewKey ==
    /\ Served
    /\ Asked("viewkey", tx_state)
    /\ UNCHANGED <<tx_in_progress, tx_type, tx_sign_cnt, history, accepted>>
AskAddress ==
    /\ Served
    /\ protocol_barrier' = "UNLOCKED"
    /\ prompt' = "address"
    /\ screen' = "address"
    /\ UNCHANGED <<pin_verified, tx_in_progress, tx_type, tx_sig_mode, tx_state,
                   tx_special_confirmed, tx_sign_cnt, history, accepted>>

\* GET_KEY for the view key when a remembered decision answers at once.
ViewKeyRemembered ==
    /\ Served
    /\ protocol_barrier' = "UNLOCKED"
    /\ screen' = "main"
    /\ UNCHANGED <<pin_verified, tx_in_progress, tx_type, tx_sig_mode, tx_state,
                   tx_special_confirmed, tx_sign_cnt, prompt, history, accepted>>

-----------------------------------------------------------------------------
(* Opening, closing, signature mode. *)

\* OPEN_TX does not check its P1 and P2 and no later check reads them.
OpenTx(t) ==
    /\ ServedWithPin
    /\ tx_state.ins \in {"NONE", "GEN_LNS_SIGNATURE"}
    /\ Answered(At("OPEN_TX", 1, 0))
    /\ tx_in_progress' = TRUE
    /\ tx_type' = t
    /\ steps' = {} /\ alphas' = {} /\ signed' = <<>>
    /\ screen' = "processing"
    /\ UNCHANGED tx_sign_cnt

\* Mutants: the place is cleared and the transaction is not, or the reverse.
ClosePlaceOnly ==
    /\ Served
    /\ Answered(Idle)
    /\ screen' = "main"
    /\ UNCHANGED <<tx_in_progress, tx_type, tx_sign_cnt, history>>
CloseTxOnly ==
    /\ Served
    /\ Answered(tx_state)
    /\ ResetTx
    /\ screen' = "main"
    /\ UNCHANGED <<tx_type, tx_sign_cnt>>

CloseTx ==
    /\ Served
    /\ Answered(Idle)
    /\ ResetTx
    /\ screen' = "main"
    /\ UNCHANGED <<tx_type, tx_sign_cnt>>

\* Mutant: the mode is also set during a transaction.
SetSignatureModeAnytime(mode) ==
    /\ ServedWithPin
    /\ protocol_barrier' = "UNLOCKED"
    /\ tx_sig_mode' = mode
    /\ UNCHANGED <<pin_verified, tx_in_progress, tx_type, tx_state, tx_special_confirmed,
                   tx_sign_cnt, prompt, screen, history, accepted>>

SetSignatureMode(mode) ==
    /\ ServedWithPin
    /\ ~tx_in_progress
    /\ protocol_barrier' = "UNLOCKED"
    /\ tx_sig_mode' = mode
    /\ UNCHANGED <<pin_verified, tx_in_progress, tx_type, tx_state, tx_special_confirmed,
                   tx_sign_cnt, prompt, screen, history, accepted>>

\* The mode is FAKE before the argument is read: an unknown mode locks, a
\* missing one throws, and both leave FAKE behind.
SetSignatureModeFails ==
    /\ ServedWithPin
    /\ ~tx_in_progress
    /\ tx_sig_mode' = "FAKE"
    /\ Thrown \/ LockedAndThrown
    /\ UNCHANGED <<tx_state, tx_sign_cnt>>

-----------------------------------------------------------------------------
(* The outputs and the prefix. *)

\* Outside a transaction ENCRYPT_PAYMENT_ID is a low-level command.
EncryptPaymentId ==
    /\ Served
    /\ tx_in_progress
    /\ tx_state.ins \in {"OPEN_TX", "ENCRYPT_PAYMENT_ID"}
    /\ Answered(At("ENCRYPT_PAYMENT_ID", 0, 0))
    /\ UNCHANGED <<tx_in_progress, tx_type, tx_sign_cnt, screen, history>>

GenTxoutKeys ==
    /\ ServedInTx
    /\ tx_state.ins \in {"OPEN_TX", "GEN_TXOUT_KEYS", "ENCRYPT_PAYMENT_ID"}
    /\ Answered(At("GEN_TXOUT_KEYS", 0, 0))
    /\ UNCHANGED <<tx_in_progress, tx_type, tx_sign_cnt, screen, history>>

\* The first PREFIX_HASH after the outputs moves the place to [PREFIX_HASH,0,0]
\* before anything else is checked, and stays there if the command throws.
PrefixStarts == tx_state.ins = "GEN_TXOUT_KEYS"
PrefixIn(p1) == tx_state.ins = "PREFIX_HASH" /\ tx_state.p1 = p1

PrefixInit(b, ask) ==
    /\ ServedInTx
    /\ PrefixStarts \/ PrefixIn(0)
    /\ ask => tx_sig_mode = "REAL" /\ tx_type = "STANDARD"
    /\ IF ask
       THEN Asked("timelock", At("PREFIX_HASH", 1, b)) /\ UNCHANGED accepted
       ELSE Answered(At("PREFIX_HASH", 1, b)) /\ UNCHANGED screen
    /\ steps' = steps \ {"prefix"}
    /\ UNCHANGED <<tx_in_progress, tx_type, tx_sign_cnt, alphas, signed>>

PrefixUpdate(b) ==
    /\ ServedInTx
    /\ \/ PrefixIn(1) /\ FirstPiece(b)
       \/ PrefixIn(2) /\ PieceFollows(tx_state.p2, b)
    /\ Answered(At("PREFIX_HASH", 2, b))
    /\ steps' = IF b = 0 THEN steps \cup {"prefix"} ELSE steps
    /\ UNCHANGED <<tx_in_progress, tx_type, tx_sign_cnt, screen, alphas, signed>>

PrefixThrows ==
    /\ ServedInTx
    /\ PrefixStarts
    /\ Thrown
    /\ tx_state' = At("PREFIX_HASH", 0, 0)
    /\ UNCHANGED <<tx_sig_mode, tx_sign_cnt>>

-----------------------------------------------------------------------------
(* Commitments and the validation round. *)

\* GEN_COMMITMENT_MASK checks P1 and P2 only: it is served at any place.
GenCommitmentMask ==
    /\ ServedInTx
    /\ Answered(At("GEN_COMMITMENT_MASK", 0, 0))
    /\ UNCHANGED <<tx_in_progress, tx_type, tx_sign_cnt, screen, history>>

Blind ==
    /\ ServedInTx
    /\ \/ tx_sig_mode = "FAKE"
       \/ tx_sig_mode = "REAL" /\ tx_state.ins \in {"GEN_COMMITMENT_MASK", "BLIND"}
    /\ Answered(At("BLIND", 0, 0))
    /\ UNCHANGED <<tx_in_progress, tx_type, tx_sign_cnt, screen, history>>

\* VALIDATE [a,b] follows BLIND as [1,1]; then b counts the pieces of phase a,
\* and the next phase starts again at 1.
ValidateStarts == tx_state.ins = "BLIND"
ValidateFollows(a, b) ==
    \/ ValidateStarts /\ a = 1 /\ b = 1
    \/ tx_state.ins = "VALIDATE" /\ tx_state.p1 = a /\ b = tx_state.p2 + 1
    \/ tx_state.ins = "VALIDATE" /\ tx_state.p1 + 1 = a /\ b = 1

\* The first piece carries the fee: a real transaction may ask for it.
ValidateInit(b, ask) ==
    /\ ServedInTx
    /\ ValidateFollows(1, b)
    /\ ask => tx_sig_mode = "REAL" /\ b = 1
    /\ IF ask
       THEN Asked("fee", At("VALIDATE", 1, b)) /\ UNCHANGED accepted
       ELSE Answered(At("VALIDATE", 1, b)) /\ UNCHANGED screen
    /\ steps' = IF b > 1 THEN steps
                ELSE (steps \ Round) \cup (IF ask THEN {} ELSE {"init"})
    /\ UNCHANGED <<tx_in_progress, tx_type, tx_sign_cnt, alphas, signed>>

\* One destination and its amount: a real transaction asks for it, unless the
\* amount is zero or it is change and the settings do not ask for change.
ValidateUpdate(b, ask) ==
    /\ ServedInTx
    /\ ValidateFollows(2, b)
    /\ ask # "none" => tx_sig_mode = "REAL"
    /\ IF ask # "none"
       THEN Asked(ask, At("VALIDATE", 2, b)) /\ UNCHANGED <<accepted, steps>>
       ELSE /\ Answered(At("VALIDATE", 2, b))
            /\ steps' = steps \cup {"update"}
            /\ UNCHANGED screen
    /\ UNCHANGED <<tx_in_progress, tx_type, tx_sign_cnt, alphas, signed>>

ValidateFinalize(b) ==
    /\ ServedInTx
    /\ ValidateFollows(3, b)
    /\ Answered(At("VALIDATE", 3, b))
    /\ steps' = steps \cup {"finalize"}
    /\ UNCHANGED <<tx_in_progress, tx_type, tx_sign_cnt, screen, alphas, signed>>

ValidateThrows ==
    /\ ServedInTx
    /\ ValidateStarts
    /\ Thrown
    /\ tx_state' = At("VALIDATE", 1, 0)
    /\ UNCHANGED <<tx_sig_mode, tx_sign_cnt>>

-----------------------------------------------------------------------------
(* The ring signature: prepare a nonce, hash, sign; once per input. *)

\* Mutants: VALIDATE is left too early; the counter does not stop, or wraps to
\* a value that PREPARE takes for a good one.
PrepareAllowedEarly ==
    \/ tx_state.ins = "VALIDATE" /\ tx_state.p1 >= 2
    \/ tx_state = At("CLSAG", 3, 0)
NextSignCntUnbounded == tx_sign_cnt + 1
NextSignCntToOne == IF tx_sign_cnt = MaxSign THEN 1 ELSE tx_sign_cnt + 1

PrepareAllowed ==
    \/ tx_state.ins = "VALIDATE" /\ tx_state.p1 = 3
    \/ tx_state = At("CLSAG", 3, 0)
NextSignCnt == IF tx_sign_cnt = MaxSign THEN 0 ELSE tx_sign_cnt + 1

\* The nonce is sealed with a tag that binds the counter.
ClsagPrepare ==
    /\ ServedInTx
    /\ PrepareAllowed
    /\ NextSignCnt # 0
    /\ tx_sign_cnt' = NextSignCnt
    /\ alphas' = alphas \cup {NextSignCnt}
    /\ Answered(At("CLSAG", 1, 0))
    /\ UNCHANGED <<tx_in_progress, tx_type, screen, steps, signed>>

\* The counter moves before anything is read; at zero the device locks.
ClsagPrepareFails ==
    /\ ServedInTx
    /\ PrepareAllowed
    /\ tx_sign_cnt' = NextSignCnt
    /\ \/ NextSignCnt # 0 /\ Thrown
       \/ LockedAndThrown
    /\ UNCHANGED <<tx_state, tx_sig_mode>>

ClsagHash(b) ==
    /\ ServedInTx
    /\ tx_state.ins = "CLSAG"
    /\ \/ (tx_state.p1 = 1 \/ tx_state = At("CLSAG", 2, 0)) /\ FirstPiece(b)
       \/ tx_state.p1 = 2 /\ tx_state.p2 # 0 /\ PieceFollows(tx_state.p2, b)
    /\ Answered(At("CLSAG", 2, b))
    /\ UNCHANGED <<tx_in_progress, tx_type, tx_sign_cnt, screen, history>>

\* Mutant: SIGN is not recorded, so it can be repeated.
ClsagSignUnrecorded(alpha) ==
    /\ ServedInTx
    /\ tx_state = At("CLSAG", 2, 0)
    /\ tx_sig_mode = "REAL"
    /\ alpha \in alphas
    /\ alpha = tx_sign_cnt
    /\ signed' = Append(signed, alpha)
    /\ Len(signed) <= MaxSign
    /\ Answered(tx_state)
    /\ UNCHANGED <<tx_in_progress, tx_type, tx_sign_cnt, screen, steps, alphas>>

\* In a real transaction the nonce is one sealed under the present hmac_key,
\* and its tag must verify for the present counter; otherwise the device locks
\* (CommandLocks).
ClsagSign(alpha) ==
    /\ ServedInTx
    /\ tx_state = At("CLSAG", 2, 0)
    /\ tx_sig_mode = "REAL"
    /\ alpha \in alphas
    /\ alpha = tx_sign_cnt
    /\ signed' = Append(signed, alpha)
    /\ Answered(At("CLSAG", 3, 0))
    /\ UNCHANGED <<tx_in_progress, tx_type, tx_sign_cnt, screen, steps, alphas>>

\* In a fake one the host brings all the secrets.
ClsagSignFake ==
    /\ ServedInTx
    /\ tx_state = At("CLSAG", 2, 0)
    /\ tx_sig_mode = "FAKE"
    /\ Answered(At("CLSAG", 3, 0))
    /\ UNCHANGED <<tx_in_progress, tx_type, tx_sign_cnt, screen, history>>

-----------------------------------------------------------------------------
(* The special signatures: ask, then (for a name) hash, then sign. *)

AskSpecial(ins) ==
    /\ Served
    /\ ~tx_in_progress
    /\ tx_state.ins = "NONE"
    /\ Asked(ins, At(ins, 0, 0))
    /\ accepted' = "NONE"
    /\ UNCHANGED <<tx_in_progress, tx_type, tx_sign_cnt, history>>

UnlockSign ==
    /\ Served
    /\ ~tx_in_progress
    /\ tx_state = At("GEN_UNLOCK_SIGNATURE", 0, 0)
    /\ tx_special_confirmed
    /\ Answered(At("GEN_UNLOCK_SIGNATURE", 1, 0))
    /\ UNCHANGED <<tx_in_progress, tx_type, tx_sign_cnt, screen, history>>

LnsHash(b) ==
    /\ Served
    /\ ~tx_in_progress
    /\ tx_state.ins = "GEN_LNS_SIGNATURE"
    /\ tx_special_confirmed
    /\ \/ tx_state.p1 = 0 /\ FirstPiece(b)
       \/ tx_state.p1 = 1 /\ PieceFollows(tx_state.p2, b)
    /\ Answered(At("GEN_LNS_SIGNATURE", 1, b))
    /\ UNCHANGED <<tx_in_progress, tx_type, tx_sign_cnt, screen, history>>

LnsSign ==
    /\ Served
    /\ ~tx_in_progress
    /\ tx_state = At("GEN_LNS_SIGNATURE", 1, 0)
    /\ Answered(At("GEN_LNS_SIGNATURE", 2, 0))
    /\ UNCHANGED <<tx_in_progress, tx_type, tx_sign_cnt, screen, history>>

-----------------------------------------------------------------------------
(* The user: answers, buttons and menus.  The buttons reach the application *)
(* only while the system does not hold the display for its PIN.             *)

\* Mutant: the question stays on the display.
AcceptAmountSilently ==
    /\ pin_verified
    /\ prompt \in AmountPrompts
    /\ prompt' = "none"
    /\ steps' = steps \cup StepOf(prompt)
    /\ UNCHANGED <<protocol_barrier, pin_verified, tx_in_progress, tx_type, tx_sig_mode,
                   tx_state, tx_special_confirmed, tx_sign_cnt, screen, alphas, signed,
                   accepted>>

AcceptAmount ==
    /\ pin_verified
    /\ prompt \in AmountPrompts
    /\ prompt' = "none"
    /\ screen' = "processing"
    /\ steps' = steps \cup StepOf(prompt)
    /\ UNCHANGED <<protocol_barrier, pin_verified, tx_in_progress, tx_type, tx_sig_mode,
                   tx_state, tx_special_confirmed, tx_sign_cnt, alphas, signed, accepted>>

\* Mutant: a refusal answers SW_DENY and leaves the transaction open.
RejectAmountOnly ==
    /\ pin_verified
    /\ prompt \in AmountPrompts
    /\ prompt' = "none"
    /\ screen' = "processing"
    /\ UNCHANGED <<protocol_barrier, pin_verified, tx_in_progress, tx_type, tx_sig_mode,
                   tx_state, tx_special_confirmed, tx_sign_cnt, history, accepted>>

\* The transaction is aborted; the place in the sequence is left alone, and the
\* "Aborted" screen is overwritten at once.
RejectAmount ==
    /\ pin_verified
    /\ prompt \in AmountPrompts
    /\ ResetTx
    /\ prompt' = "none"
    /\ screen' = "processing"
    /\ UNCHANGED <<protocol_barrier, pin_verified, tx_type, tx_sig_mode, tx_state,
                   tx_special_confirmed, tx_sign_cnt, accepted>>

AcceptSpecial ==
    /\ pin_verified
    /\ prompt \in SpecialInstructions
    /\ tx_special_confirmed' = TRUE
    /\ accepted' = prompt
    /\ prompt' = "none"
    /\ screen' = "main"
    /\ UNCHANGED <<protocol_barrier, pin_verified, tx_in_progress, tx_type, tx_sig_mode,
                   tx_state, tx_sign_cnt, history>>

\* Mutant: a refusal leaves the place where the question put it.
RejectSpecialOnly ==
    /\ pin_verified
    /\ prompt \in SpecialInstructions
    /\ prompt' = "none"
    /\ screen' = "main"
    /\ UNCHANGED <<protocol_barrier, pin_verified, tx_in_progress, tx_type, tx_sig_mode,
                   tx_state, tx_special_confirmed, tx_sign_cnt, history, accepted>>

RejectSpecial ==
    /\ pin_verified
    /\ prompt \in SpecialInstructions
    /\ tx_state' = Idle
    /\ prompt' = "none"
    /\ screen' = "main"
    /\ UNCHANGED <<protocol_barrier, pin_verified, tx_in_progress, tx_type, tx_sig_mode,
                   tx_special_confirmed, tx_sign_cnt, history, accepted>>

\* Mutant: the answer is not sent.
AnswerNotSent ==
    /\ pin_verified
    /\ prompt = "viewkey" \/ screen = "address"
    /\ screen' = "main"
    /\ UNCHANGED <<protocol_barrier, pin_verified, tx_in_progress, tx_type, tx_sig_mode,
                   tx_state, tx_special_confirmed, tx_sign_cnt, prompt, history, accepted>>

\* "Back" on an address, or any of the four answers on the view key; both
\* answer the command that waits, if one does.
AnswerOnMain ==
    /\ pin_verified
    /\ prompt = "viewkey" \/ screen = "address"
    /\ prompt' = "none"
    /\ screen' = "main"
    /\ UNCHANGED <<protocol_barrier, pin_verified, tx_in_progress, tx_type, tx_sig_mode,
                   tx_state, tx_special_confirmed, tx_sign_cnt, history, accepted>>

\* Mutant: the button returns to the menu without asking for the PIN.
InfoButtonToMenu ==
    /\ pin_verified
    /\ screen \in {"info", "processing"}
    /\ screen' = "main"
    /\ UNCHANGED <<protocol_barrier, pin_verified, tx_in_progress, tx_type, tx_sig_mode,
                   tx_state, tx_special_confirmed, tx_sign_cnt, prompt, history, accepted>>

\* The button on an information screen: from a locked device it invalidates
\* the PIN and has the system ask for it.
InfoButton ==
    /\ pin_verified
    /\ screen \in {"info", "processing"}
    /\ IF protocol_barrier = "LOCKED"
       THEN pin_verified' = FALSE /\ protocol_barrier' = "LOCKED_UNLOCKABLE"
       ELSE UNCHANGED <<pin_verified, protocol_barrier>>
    /\ screen' = "main"
    /\ UNCHANGED <<tx_in_progress, tx_type, tx_sig_mode, tx_state, tx_special_confirmed,
                   tx_sign_cnt, prompt, history, accepted>>

\* Menus without effect on a setting.
Browse(from, to) ==
    /\ pin_verified
    /\ screen = from
    /\ screen' = to
    /\ UNCHANGED <<protocol_barrier, pin_verified, tx_in_progress, tx_type, tx_sig_mode,
                   tx_state, tx_special_confirmed, tx_sign_cnt, prompt, history, accepted>>

\* Choosing a setting runs monero_init, whatever is going on.  The network and
\* the reset return to the main menu, the others to the settings.
ChooseSetting ==
    /\ pin_verified
    /\ screen = "settings"
    /\ MoneroInit
    /\ screen' \in {"settings", "main"}
    /\ UNCHANGED pin_verified

-----------------------------------------------------------------------------
(* The operating system. *)

EnterPin ==
    /\ ~pin_verified
    /\ pin_verified' = TRUE
    /\ UNCHANGED <<protocol_barrier, tx_in_progress, tx_type, tx_sig_mode, tx_state,
                   tx_special_confirmed, tx_sign_cnt, prompt, screen, history, accepted>>

\* The device locks itself after a time; the application does not react.
PinTimeout ==
    /\ pin_verified
    /\ pin_verified' = FALSE
    /\ UNCHANGED <<protocol_barrier, tx_in_progress, tx_type, tx_sig_mode, tx_state,
                   tx_special_confirmed, tx_sign_cnt, prompt, screen, history, accepted>>

\* A reset of the USB transport, or leaving the application and coming back.
Restart ==
    /\ MoneroInit
    /\ screen' = "main"
    /\ UNCHANGED pin_verified

-----------------------------------------------------------------------------
Init ==
    /\ protocol_barrier = "UNLOCKED"
    /\ pin_verified = TRUE
    /\ tx_in_progress = FALSE
    /\ tx_type = "STANDARD"
    /\ tx_sig_mode = "NONE"
    /\ tx_state = Idle
    /\ tx_special_confirmed = FALSE
    /\ tx_sign_cnt = 0
    /\ prompt = "none"
    /\ screen = "main"
    /\ steps = {}
    /\ alphas = {}
    /\ signed = <<>>
    /\ accepted = "NONE"

OtherCommand ==
    \/ LowLevelCommand \/ CommandThrows \/ CommandLocks \/ ResetCommand
    \/ AskViewKey \/ AskAddress \/ ViewKeyRemembered
    \/ \E mode \in {"REAL", "FAKE"} : SetSignatureMode(mode)
    \/ SetSignatureModeFails

BuildCommand ==
    \/ \E t \in TxTypes : OpenTx(t)
    \/ CloseTx
    \/ EncryptPaymentId
    \/ GenTxoutKeys
    \/ \E b \in P2s, ask \in BOOLEAN : PrefixInit(b, ask)
    \/ \E b \in P2s : PrefixUpdate(b)
    \/ PrefixThrows
    \/ GenCommitmentMask
    \/ Blind

SignCommand ==
    \/ \E b \in P2s, ask \in BOOLEAN : ValidateInit(b, ask)
    \/ \E b \in P2s, ask \in {"none", "output", "change"} : ValidateUpdate(b, ask)
    \/ \E b \in P2s : ValidateFinalize(b)
    \/ ValidateThrows
    \/ ClsagPrepare \/ ClsagPrepareFails
    \/ \E b \in P2s : ClsagHash(b)
    \/ \E alpha \in 1 .. MaxSign : ClsagSign(alpha)
    \/ ClsagSignFake

SpecialCommand ==
    \/ \E ins \in SpecialInstructions : AskSpecial(ins)
    \/ UnlockSign
    \/ \E b \in P2s : LnsHash(b)
    \/ LnsSign

Answer ==
    \/ AcceptAmount \/ RejectAmount \/ AcceptSpecial \/ RejectSpecial \/ AnswerOnMain

Menu ==
    \/ InfoButton
    \/ \E to \in {"address", "settings"} : Browse("main", to)
    \/ Browse("settings", "main")
    \/ ChooseSetting

System == EnterPin \/ PinTimeout \/ Restart

Next ==
    \/ OtherCommand \/ BuildCommand \/ SignCommand \/ SpecialCommand
    \/ Answer \/ Menu \/ System

Spec == Init /\ [][Next]_vars

-----------------------------------------------------------------------------
(* Safety. *)

\* While a transaction is open no other one can be started and no special
\* signature asked for: whatever sequence of commands was served, the recorded
\* place is never one from which OPEN_TX or a special request is accepted.
OneTransactionAtATime ==
    tx_in_progress => tx_state.ins \in TxInstructions

\* The round of VALIDATE a place in the sequence presupposes.
RoundBefore(place) ==
    CASE place.ins = "CLSAG" -> Round
      [] place.ins = "VALIDATE" /\ place.p1 = 3 -> Round
      [] place.ins = "VALIDATE" /\ place.p1 = 2 -> {"init", "update"}
      [] place.ins = "VALIDATE" /\ place.p1 = 1 -> {"init"}
      [] OTHER -> {}

\* In an open transaction the place never runs ahead of what the user agreed
\* to: each phase it presupposes was served, and accepted if it asked, but for
\* the question that is on the display now.
PlaceIsEarned ==
    tx_in_progress => RoundBefore(tx_state) \subseteq steps \cup StepOf(prompt)

\* A ring signature is made only when every phase of VALIDATE was served in
\* this very transaction and no question of it was refused.  A refusal comes
\* after the place has already moved on, so it must end the transaction.
SignsOnlyAccepted ==
    [][ signed' # signed /\ signed' # <<>> => Round \subseteq steps /\ prompt = "none" ]_vars

\* No nonce signs twice under one hmac_key: two signatures with one nonce give
\* the spend key away.
NonceSignsOnce ==
    \A i, j \in 1 .. Len(signed) : i # j => signed[i] # signed[j]

\* A nonce is never sealed under a counter that already names a nonce of the
\* same hmac_key, also when the counter wraps around.
NonceIsFresh ==
    [][ tx_in_progress' /\ tx_sign_cnt' # tx_sign_cnt => tx_sign_cnt' \notin alphas ]_vars

\* A locked device has no open transaction and no pending question, and while
\* it waits for the user it shows the screen whose button asks for the PIN.
LockedIsQuiet ==
    /\ protocol_barrier # "UNLOCKED" => ~tx_in_progress /\ prompt = "none"
    /\ protocol_barrier = "LOCKED" => screen = "info"

\* Type and signature mode are those the transaction was opened with, until
\* it ends.
TransactionIsFixed ==
    [][ tx_in_progress /\ tx_in_progress' =>
            tx_type' = tx_type /\ tx_sig_mode' = tx_sig_mode ]_vars

\* tx_special_confirmed is never cleared, yet a special sequence goes on only
\* after its own question was accepted, not an earlier one of either kind.
SpecialHasItsOwnConsent ==
    tx_state.ins \in SpecialInstructions /\ prompt = "none" => accepted = tx_state.ins

\* The question an unanswered command waits on is the one on the display, and
\* no question stays on the display once its command was answered.
QuestionIsOnDisplay ==
    /\ prompt = "address" => screen = "address"
    /\ prompt \notin {"none", "address"} <=> screen = "question"

-----------------------------------------------------------------------------
(* Liveness. The host goes on sending commands and ends what it started; the *)
(* user answers, presses the button of an information screen and enters the  *)
(* PIN.  Both are only able to act from time to time (the PIN may time out   *)
(* again and again), hence strong fairness.                                  *)

Fairness ==
    /\ SF_vars(Answer)
    /\ SF_vars(InfoButton)
    /\ WF_vars(EnterPin)
    /\ SF_vars(LowLevelCommand)
    /\ SF_vars(CloseTx)

FairSpec == Spec /\ Fairness

\* A locked device can be brought back by its PIN.
LockIsReleased == protocol_barrier = "LOCKED" ~> protocol_barrier = "UNLOCKED"

\* An unanswered command is answered.
QuestionIsAnswered == prompt # "none" ~> prompt = "none"

\* After an abandoned, aborted or failed sequence the place, which exceptions
\* and refusals leave where it was, becomes free for a new transaction.
SequenceIsFreed == tx_state.ins # "NONE" ~> tx_state.ins = "NONE"
=============================================================================
