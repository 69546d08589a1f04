-------------------------------- MODULE OxenIo --------------------------------
(***************************************************************************)
(* The exchange buffer of the Oxen Ledger application, byte counts and all: *)
(* oxen_io.c, the loop of monero_main around it, and the callbacks of the   *)
(* user interface that complete an answer.                                  *)
(*                                                                         *)
(* The host sends a command as the handler reads it, with an HMAC after     *)
(* every sealed value and placeholder while a transaction is open, whole,   *)
(* cut anywhere or too long.  One step of the handler (OxenCommands) is one *)
(* action.  What a byte is, is told by the field of the message it is in.   *)
(***************************************************************************)
EXTENDS Naturals, Sequences, FiniteSets

CONSTANTS
    Program,          \* the steps of each command, each an op, a field and a size
    PinRequired, TransactionRequired,
                      \* the commands that check_ins_access serves only after the PIN
                      \* was entered, and only in a transaction
    Inside, Outside,  \* the commands whose handler throws outside a transaction, and
                      \* those the dispatcher throws for in one
    Locking,          \* the commands whose handler may lock the device
    MONERO_IO_BUFFER_LENGTH, MONERO_APDU_LENGTH

Commands == DOMAIN Program

\* The steps that take a part of the message, and those among them that move the
\* offset by its size; looking at what is left; and writing the answer.
Moves    == {"fetch", "point", "open", "key", "varint"}
Received == Moves \cup {"unbounded", "remaining", "unread"}
Looks    == {"rest", "exactly", "nothing left"}
Writes   == {"put", "seal", "tag", "inserted"}
Asks     == {"ask", "may ask"}
Others   == {"discard", "use", "scratch", "tmp", "transaction", "init", "show", "lock"}
Ops      == Received \cup Looks \cup Writes \cup Asks \cup Others

ASSUME LengthsAssumption ==
    /\ MONERO_IO_BUFFER_LENGTH \in Nat /\ MONERO_APDU_LENGTH \in Nat
    /\ 255 <= MONERO_IO_BUFFER_LENGTH /\ 36 <= MONERO_APDU_LENGTH
    /\ MONERO_APDU_LENGTH <= MONERO_IO_BUFFER_LENGTH

Step(i, n) == Program[i][n]

IsSecret(step) == step.op \in {"open", "key"}

Steps == [op: Ops, field: STRING, size: 0 .. MONERO_IO_BUFFER_LENGTH]

ASSUME StepsAssumption ==
    \A i \in Commands :
        /\ Program[i] \in Seq(Steps)
        /\ \A n \in 1 .. Len(Program[i]) :
            LET step == Step(i, n)
            IN  /\ step.op \in Received => step.size > 0
                /\ IsSecret(step) \/ step.op = "seal" => step.size = 32
                /\ step.op \in {"varint", "unbounded"} => step.size = 2
                /\ step.op \in Asks => step.field \in {"amount", "special", "address", "view key"}
                /\ step.op = "show" => step.field \in {"menu", "info"}

-----------------------------------------------------------------------------
(* Byte counts.                                                             *)

\* How many bytes n - 1 parts of these sizes have, counted one by one.
Bytes(sizes, n) == UNION {{k} \X (1 .. sizes[k]) : k \in 1 .. n - 1}
Before(sizes, n) == Cardinality(Bytes(sizes, n))

SizeOf(parts) == Before([k \in 1 .. Len(parts) |-> parts[k].size], Len(parts) + 1)

\* What a step takes up in the message: in a transaction a secret brings its tag.
PartSize(step, tagged) ==
    IF step.op \notin Received THEN 0
    ELSE IF IsSecret(step) /\ tagged THEN step.size + 32 ELSE step.size

\* Where the part of each step starts.
Start ==
    [i \in Commands |-> [tagged \in BOOLEAN |->
        LET sizes == [k \in 1 .. Len(Program[i]) |-> PartSize(Step(i, k), tagged)]
        IN  [n \in 1 .. Len(Program[i]) + 1 |-> Before(sizes, n)]]]

\* The most that is written before each step.
WrittenSize(step) ==
    IF step.op \notin Writes THEN 0 ELSE IF step.op = "seal" THEN 64 ELSE step.size

Written ==
    [i \in Commands |->
        LET sizes == [k \in 1 .. Len(Program[i]) |-> WrittenSize(Step(i, k))]
        IN  [n \in 1 .. Len(Program[i]) + 1 |-> Before(sizes, n)]]

-----------------------------------------------------------------------------
(* What every handler keeps to.  The proofs hold for all handlers that do.  *)

\* Some step, or none, before the n-th is one of these operations.
Did(ops, i, n) == \E k \in 1 .. n - 1 : Step(i, k).op \in ops
OnlyDid(ops, i, n) == \A k \in 1 .. n - 1 : Step(i, k).op \in ops

Clears(step) == step.op = "discard" /\ step.field = "clear"
Clobbers(step) == step.op \in Writes \cup {"scratch", "init"} \/ Clears(step)
Clobbered(i, n) == \E k \in 1 .. n - 1 : Clobbers(Step(i, k))

\* The fields are taken in the order they are sent, before anything else.
ReadsFirst(i, n) ==
    Step(i, n).op \in Moves \cup {"unbounded"} => OnlyDid(Moves \cup Looks, i, n)

\* The answer begins, a question is asked and the handler ends after a discard, and
\* nothing is discarded or cleared once the answer has begun.
DiscardsBetween(i, n) ==
    /\ Step(i, n).op \in Writes \cup Asks => Did({"discard"}, i, n)
    /\ Step(i, n).op \in {"discard", "init"} => ~Did(Writes, i, n)
    /\ Did({"discard"}, i, Len(Program[i]) + 1)

\* Pointers are followed only while nothing has been written over the message.
FollowsInTime(i, n) == Step(i, n).op = "use" => ~Clobbered(i, n)

\* The answer leaves room for the statuses of itself and of an unasked answer.
LeavesRoom(i) == Written[i][Len(Program[i]) + 1] + 4 <= MONERO_APDU_LENGTH

\* The fee is the only field decoded without regard to the length.
OnlyFeeUnbounded(i, n) ==
    Step(i, n).op = "unbounded" => i = "VALIDATE fee" /\ Step(i, n).field = "fee"

\* The two commands that take a placeholder of the spend key take it as their last
\* field, or have a public key after it.
TakesSpendKey == {"VERIFY_KEY", "DERIVE_SECRET_KEY"}

NothingAfterSpendKey(i, n) ==
    Step(i, n).op \in Moves \cup {"unbounded"} /\ Did({"key"}, i, n) /\ i \in TakesSpendKey =>
        /\ i = "VERIFY_KEY" /\ Step(i, n - 1).op = "key" /\ ~Did({"key"}, i, n - 1)
        /\ Step(i, n) = [op |-> "fetch", field |-> "pub", size |-> 32]

ASSUME HandlersAssumption ==
    \A i \in Commands :
        /\ LeavesRoom(i)
        /\ Program[i] # <<>>
        /\ \A n \in 1 .. Len(Program[i]) :
            /\ ReadsFirst(i, n) /\ DiscardsBetween(i, n) /\ FollowsInTime(i, n)
            /\ OnlyFeeUnbounded(i, n) /\ NothingAfterSpendKey(i, n)

-----------------------------------------------------------------------------
VARIABLES
    phase,           \* "idle": answered, the host's turn; "run"; "asked"
    ins, secret,     \* the command, and what its keys are: sealed, view or spend
    tagged,          \* host: it sent a tag after every secret
    pc,              \* the next step of the handler
    io_offset, io_length,
    intact,          \* the received bytes are still in io_buffer
    reads,           \* history: what was read, and the field it was read from
    misused,         \* history: pointers followed after the bytes had gone
    pieces,          \* the answer so far
    tx_in_progress,
    protocol_barrier,
    pin_verified,    \* os_global_pin_is_validated() (operating system)
    display,         \* the flow on the display, "question" for any question
    question,        \* the question the host waits for
    disp_addr_mode,  \* "zero", "mode", or "other": overwritten through tmp
    sent             \* the last answer

buffer == <<io_offset, io_length, intact>>
command == <<ins, secret, tagged, pc>>
history == <<reads, misused>>
screen == <<display, question, disp_addr_mode>>
access == <<protocol_barrier, pin_verified>>
vars == <<phase, command, buffer, history, pieces, tx_in_progress, access, screen, sent>>

Secrets == {"sealed", "view", "spend"}
NoAnswer == [status |-> "none", pieces |-> <<>>, leftover |-> 0, length |-> 0]

-----------------------------------------------------------------------------
(* The host.                                                                *)

\* The parts of a message, and where each begins: the fields the handler takes, and
\* the tags after the secrets among them.
Layout ==
    [i \in Commands |-> [tag \in BOOLEAN |->
        LET taken == {n \in 1 .. Len(Program[i]) : Step(i, n).op \in Received}
            secrets == IF tag THEN {n \in taken : IsSecret(Step(i, n))} ELSE {}
        IN  {[field |-> Step(i, n).field, start |-> Start[i][tag][n], size |-> Step(i, n).size]
                : n \in taken}
            \cup {[field |-> "hmac", start |-> Start[i][tag][n] + 32, size |-> 32]
                : n \in secrets}]]

\* The length of the whole message, with a byte too many, and cut after a part or
\* one byte before its end.
Lengths(i, tag) ==
    LET whole == Start[i][tag][Len(Program[i]) + 1]
    IN  {whole, whole + 1} \cup UNION {{part.start, part.start + part.size - 1} : part \in Layout[i][tag]}

\* Placeholders are sent only where a command takes a key.
SecretsOf(i) ==
    IF \E n \in 1 .. Len(Program[i]) : Step(i, n).op = "key" THEN Secrets ELSE {"sealed"}

\* The field of the message that lies at the offset, whole.
FieldAt(offset, size) ==
    LET there == {part \in Layout[ins][tagged] : part.start = offset /\ part.size = size}
    IN  IF offset + size > io_length \/ there = {} THEN "none"
        ELSE (CHOOSE part \in there : TRUE).field

-----------------------------------------------------------------------------
Init ==
    /\ phase = "idle" /\ ins = "none" /\ secret = "sealed" /\ tagged = FALSE
    /\ pc = 0 /\ io_offset = 0 /\ io_length = 0 /\ intact = FALSE
    /\ reads = {} /\ misused = {} /\ pieces = <<>> /\ tx_in_progress = FALSE
    /\ protocol_barrier = "UNLOCKED" /\ pin_verified = TRUE
    /\ display = "menu" /\ question = "none" /\ disp_addr_mode = "zero"
    /\ sent = NoAnswer

\* The command is over; its part of the state is forgotten.
Over ==
    /\ phase' = "idle" /\ ins' = "none" /\ secret' = "sealed" /\ tagged' = FALSE
    /\ pc' = 0 /\ reads' = {} /\ misused' = {} /\ pieces' = <<>> /\ intact' = FALSE

\* monero_io_insert_u16 of the status and the sending half of monero_io_do. An
\* answer longer than the transport takes is thrown away for SW_IO_FULL.
Answer(status, length, parts) ==
    LET total == length + 2
    IN  /\ Over
        /\ io_offset' = 0
        /\ IF total <= MONERO_APDU_LENGTH
           THEN /\ io_length' = total
                /\ sent' = [status |-> status, pieces |-> parts, length |-> total,
                            leftover |-> length - SizeOf(parts)]
           ELSE /\ io_length' = 2
                /\ sent' = [status |-> "IO_FULL", pieces |-> <<>>, length |-> 2,
                            leftover |-> 0]

\* The first lines of check_protocol: a lock is over once the PIN was entered.
Unlock ==
    protocol_barrier' =
        IF protocol_barrier = "LOCKED_UNLOCKABLE" /\ pin_verified THEN "UNLOCKED"
        ELSE protocol_barrier

\* The second half of monero_io_do; monero_dispatch begins at once.
Receive(i) ==
    /\ phase = "idle"
    /\ phase' = "run" /\ ins' = i /\ pc' = 1
    /\ secret' \in SecretsOf(i)
    /\ tagged' = tx_in_progress
    /\ io_length' \in {io_lc \in Lengths(i, tx_in_progress) : io_lc <= 255}
    /\ io_offset' = 0 /\ intact' = TRUE
    /\ reads' = {} /\ misused' = {} /\ pieces' = <<>> /\ sent' = NoAnswer
    /\ Unlock
    /\ UNCHANGED <<tx_in_progress, pin_verified, screen>>

\* The rest of check_protocol. The version of the protocol is the host's choice.
check_protocol ==
    IF protocol_barrier # "UNLOCKED" THEN {"SW_SECURITY_LOCKED"}
    ELSE {"SW_OK", "SW_PROTOCOL_NOT_SUPPORTED"}

\* Keys are set from monero_init on, and every command of Commands has its case.
check_ins_access ==
    IF ins \in PinRequired /\ ~pin_verified THEN "SW_SECURITY_PIN_LOCKED"
    ELSE IF ins \in TransactionRequired /\ ~tx_in_progress THEN "SW_COMMAND_NOT_ALLOWED"
    ELSE "SW_OK"

\* What monero_dispatch answers at once. Of check_ins_access only whether it said
\* SW_OK reaches sw: the parenthesis closes after the comparison.
Refusals ==
    (check_protocol \ {"SW_OK"})
    \cup {"0x0001" : sw \in {check_ins_access} \ {"SW_OK"}}

\* Both let the command through.
Admitted == "SW_OK" \in check_protocol /\ check_ins_access = "SW_OK"

Refuse ==
    /\ phase = "run" /\ pc = 1
    /\ \E sw \in Refusals : Answer(sw, 0, <<>>)
    /\ UNCHANGED <<tx_in_progress, access, screen>>

\* Mutant: monero_io_discard is forgotten; what was inserted is sent.
CatchWithoutDiscard(status) ==
    /\ Answer(status, io_length, pieces)
    /\ tx_in_progress' = FALSE

\* CATCH_OTHER of monero_main; an exception that is not a status word is sent
\* in four bytes before one that is.
Catch(status) ==
    /\ \E code \in {<<>>, <<[field |-> "exception", size |-> 4]>>} :
            Answer(status, SizeOf(code), code)
    /\ tx_in_progress' = FALSE

Now == Step(ins, pc)
Available == io_length - io_offset

\* The case in monero_dispatch sends some commands away in a transaction, and the
\* handler some outside one, after its first step.
Served ==
    /\ pc = 1 => Admitted
    /\ ins \in Outside => ~tx_in_progress
    /\ ins \in Inside /\ pc > 1 => tx_in_progress

At(op) ==
    /\ phase = "run" /\ pc <= Len(Program[ins])
    /\ Now.op = op
    /\ Served

\* monero_lock_and_throw: called by some handlers, and for a tag that does not verify.
MayLock == ins \in Locking \/ (IsSecret(Now) /\ tx_in_progress) \/ Now.op = "lock"

\* A check or a computation before the next step throws, or the message is
\* too short for it. A lock shows its reason.
Throws ==
    /\ phase = "run" /\ pc <= Len(Program[ins])
    /\ pc = 1 => Admitted
    /\ Catch("exception")
    /\ \/ Now.op # "lock" /\ UNCHANGED <<protocol_barrier, display>>
       \/ Served /\ MayLock /\ protocol_barrier' = "LOCKED" /\ display' = "info"
    /\ UNCHANGED <<pin_verified, question, disp_addr_mode>>

\* To the next step of the handler.
Proceed ==
    /\ pc' = pc + 1
    /\ UNCHANGED <<phase, ins, secret, tagged, sent>>

Read(field, got) ==
    /\ reads' = reads \cup {[field |-> field, got |-> got]}
    /\ UNCHANGED <<misused, io_length, intact, pieces, tx_in_progress, access, screen>>

-----------------------------------------------------------------------------
(* Fetching.                                                                *)

\* monero_io_fetch, with or without a place to copy to.
FetchStep ==
    /\ At("fetch") \/ At("point")
    /\ Available >= Now.size
    /\ io_offset' = io_offset + Now.size
    /\ Read(Now.field, FieldAt(io_offset, Now.size))
    /\ Proceed

\* Mutant: the tag is checked and not stepped over.
FetchDecryptStaysAtTag ==
    /\ At("open")
    /\ Available >= IF tx_in_progress THEN 64 ELSE 32
    /\ tx_in_progress => FieldAt(io_offset + 32, 32) = "hmac"
    /\ io_offset' = io_offset + 32
    /\ Read(Now.field, FieldAt(io_offset, 32))
    /\ Proceed

\* monero_io_fetch_decrypt: in a transaction the tag must follow, and verify.
FetchDecrypt ==
    /\ At("open")
    /\ Available >= IF tx_in_progress THEN 64 ELSE 32
    /\ tx_in_progress => FieldAt(io_offset + 32, 32) = "hmac"
    /\ io_offset' = io_offset + IF tx_in_progress THEN 64 ELSE 32
    /\ Read(Now.field, FieldAt(io_offset, 32))
    /\ Proceed

\* The bytes at the offset are the key that was sent there, of the given kind.
KeyIs(kind) == secret = kind /\ FieldAt(io_offset, 32) = Now.field

\* monero_io_fetch_decrypt_key: the placeholder of the spend key is accepted by
\* two commands, and its tag is checked and not stepped over.
FetchDecryptKey ==
    /\ At("key")
    /\ Available >= IF tx_in_progress THEN 64 ELSE 32
    /\ tx_in_progress => FieldAt(io_offset + 32, 32) = "hmac"
    /\ KeyIs("spend") => ins \in TakesSpendKey
    /\ io_offset' = io_offset + IF tx_in_progress /\ ~KeyIs("spend") THEN 64 ELSE 32
    /\ Read(Now.field, FieldAt(io_offset, 32))
    /\ Proceed

\* monero_io_fetch_varint: at most the bytes that are there. The values sent
\* take two bytes; a byte alone has its continuation bit set, and throws.
FetchVarint ==
    /\ At("varint")
    /\ Available >= 2
    /\ io_offset' = io_offset + 2
    /\ Read(Now.field, FieldAt(io_offset, 2))
    /\ Proceed

\* monero_apdu_clsag_prehash_init decodes the fee from ten bytes at the offset,
\* whatever io_length is, and leaves the offset.
DecodeUnbounded ==
    /\ At("unbounded")
    /\ Read(Now.field, FieldAt(io_offset, 2))
    /\ Proceed
    /\ UNCHANGED io_offset

\* monero_apdu_reset takes all that is left, if it is short enough.
FetchRemaining ==
    /\ At("remaining")
    /\ Available <= 14
    /\ io_offset' = io_length
    /\ UNCHANGED <<history, io_length, intact, pieces, tx_in_progress, access, screen>>
    /\ Proceed

\* The rest of the message is hashed, a length is compared, a field ignored.
LookAtRest ==
    /\ \/ At("rest") \/ At("unread")
       \/ At("exactly") /\ io_length = Now.size
       \/ At("nothing left") /\ Available = 0
    /\ Proceed
    /\ UNCHANGED <<buffer, history, pieces, tx_in_progress, access, screen>>

-----------------------------------------------------------------------------
(* The buffer between reading and writing.                                  *)

\* Mutant: only the length is reset.
DiscardKeepsOffset ==
    /\ At("discard")
    /\ io_offset' = io_offset /\ io_length' = 0
    /\ intact' = (intact /\ Now.field # "clear")
    /\ Proceed
    /\ UNCHANGED <<history, pieces, tx_in_progress, access, screen>>

\* Mutant: the buffer is always cleared.
DiscardAlwaysClears ==
    /\ At("discard")
    /\ io_offset' = 0 /\ io_length' = 0 /\ intact' = FALSE
    /\ Proceed
    /\ UNCHANGED <<history, pieces, tx_in_progress, access, screen>>

\* Mutant: only the offset is reset.
DiscardKeepsLength ==
    /\ At("discard")
    /\ io_offset' = 0 /\ io_length' = io_length
    /\ intact' = (intact /\ Now.field # "clear")
    /\ Proceed
    /\ UNCHANGED <<history, pieces, tx_in_progress, access, screen>>

\* monero_io_discard; with an argument it also clears the buffer.
DiscardStep ==
    /\ At("discard")
    /\ io_offset' = 0 /\ io_length' = 0
    /\ intact' = (intact /\ Now.field # "clear")
    /\ Proceed
    /\ UNCHANGED <<history, pieces, tx_in_progress, access, screen>>

\* Bytes are read through a pointer into io_buffer.
UseStep ==
    /\ At("use")
    /\ misused' = IF intact THEN misused ELSE misused \cup {Now.field}
    /\ Proceed
    /\ UNCHANGED <<reads, buffer, pieces, tx_in_progress, access, screen>>

\* monero_ge_fromfe_frombytes keeps nine field elements in io_buffer.
ScratchStep ==
    /\ At("scratch")
    /\ intact' = FALSE
    /\ Proceed
    /\ UNCHANGED <<history, io_offset, io_length, pieces, tx_in_progress, access, screen>>

\* Bytes 96 to 127 of tmp are written, and with them disp_addr_mode.
TmpStep ==
    /\ At("tmp")
    /\ disp_addr_mode' \in IF Now.field = "zero" THEN {"zero"} ELSE {"zero", "other"}
    /\ Proceed
    /\ UNCHANGED <<history, buffer, pieces, tx_in_progress, access, display, question>>

\* monero_reset_tx, the end of monero_apdu_open_tx, and flows of the display.
TransactionStep ==
    /\ At("transaction")
    /\ tx_in_progress' = (Now.field = "begin")
    /\ Proceed
    /\ UNCHANGED <<history, buffer, pieces, access, screen>>

ShowStep ==
    /\ At("show")
    /\ display' = Now.field
    /\ Proceed
    /\ UNCHANGED <<history, buffer, pieces, tx_in_progress, access, question, disp_addr_mode>>

\* monero_init clears the whole state.
MoneroInit ==
    /\ io_offset' = 0 /\ io_length' = 0 /\ intact' = FALSE
    /\ disp_addr_mode' = "zero" /\ tx_in_progress' = FALSE
    /\ protocol_barrier' = "UNLOCKED"
    /\ UNCHANGED pin_verified

InitStep ==
    /\ At("init")
    /\ MoneroInit
    /\ Proceed
    /\ UNCHANGED <<history, pieces, display, question>>

-----------------------------------------------------------------------------
(* Inserting.                                                               *)

Size == IF At("seal") /\ tx_in_progress THEN 64 ELSE Now.size

\* monero_io_insert, insert_encrypt (with its tag in a transaction) and
\* insert_hmac_for, each through monero_io_hole, which throws ERROR_IO_FULL;
\* monero_io_inserted only counts what was written to the buffer directly.
InsertStep ==
    /\ \E op \in {"put", "seal", "tag", "inserted"} : At(op)
    /\ IF Now.op = "inserted" \/ io_length + Size <= MONERO_IO_BUFFER_LENGTH
       THEN /\ io_offset' = io_offset + Size /\ io_length' = io_length + Size
            /\ intact' = FALSE
            /\ pieces' = Append(pieces, [field |-> Now.field, size |-> Size])
            /\ Proceed
            /\ UNCHANGED <<history, tx_in_progress, access, screen>>
       ELSE Catch("IO_FULL") /\ UNCHANGED <<access, screen>>

\* The handler is through: monero_main appends SW_OK and sends.
Return ==
    /\ phase = "run" /\ pc > Len(Program[ins])
    /\ Answer("SW_OK", io_length, pieces)
    /\ UNCHANGED <<tx_in_progress, access, screen>>

\* Mutant: the address is shown and the mode is not set.
AskWithoutMode ==
    /\ At("ask") \/ At("may ask")
    /\ phase' = "asked"
    /\ question' = Now.field
    /\ display' = IF Now.field = "address" THEN "address" ELSE "question"
    /\ UNCHANGED <<command, buffer, history, pieces, tx_in_progress, access, disp_addr_mode, sent>>

\* A handler returns 0 with a question on the display.
AskStep ==
    /\ At("ask") \/ At("may ask")
    /\ phase' = "asked"
    /\ question' = Now.field
    /\ display' = IF Now.field = "address" THEN "address" ELSE "question"
    /\ disp_addr_mode' = IF Now.field = "address" THEN "mode" ELSE disp_addr_mode
    /\ UNCHANGED <<command, buffer, history, pieces, tx_in_progress, access, sent>>

\* The other way of a question that depends on a setting or an amount.
NoQuestion ==
    /\ At("may ask")
    /\ Proceed
    /\ UNCHANGED <<buffer, history, pieces, tx_in_progress, access, screen>>

-----------------------------------------------------------------------------
(* The user and the system. Buttons are the system's until the PIN was entered. *)

\* ui_menu_validation_action, ui_menu_amount_validation_action and
\* ui_menu_special_validation_action.
AnswerQuestion ==
    /\ pin_verified /\ phase = "asked" /\ question \in {"amount", "special"}
    /\ \E status \in {"SW_OK", "SW_DENY"} :
        /\ Answer(status, io_length, pieces)
        /\ tx_in_progress' = (tx_in_progress /\ ~(question = "amount" /\ status = "SW_DENY"))
    /\ display' = IF question = "amount" THEN "info" ELSE "menu"
    /\ question' = "none"
    /\ UNCHANGED <<access, disp_addr_mode>>

\* ui_menu_export_viewkey_action: the key, or zeros in its place.
AnswerViewKey ==
    /\ pin_verified /\ phase = "asked" /\ question = "view key"
    /\ Answer("SW_OK", 32, <<[field |-> "view_priv", size |-> 32]>>)
    /\ display' = "menu" /\ question' = "none"
    /\ UNCHANGED <<tx_in_progress, access, disp_addr_mode>>

\* ui_menu_pubaddr_action: "Back" below an address answers the host if the mode
\* is not 0. Anything else the buffer holds goes with it: the offset is 0 after
\* an answer, so the status is inserted before the previous one.
Back ==
    /\ pin_verified /\ display = "address" /\ phase # "run"
    /\ IF disp_addr_mode # "zero"
       THEN Answer("SW_OK", io_length, pieces) /\ question' = "none"
       ELSE UNCHANGED <<phase, command, buffer, history, pieces, sent, question>>
    /\ disp_addr_mode' = "zero" /\ display' = "menu"
    /\ UNCHANGED <<tx_in_progress, access>>

\* Mutant: the address of the menu is shown with the mode of a command.
ShowAddressWithMode ==
    /\ pin_verified /\ phase = "idle" /\ display = "menu"
    /\ disp_addr_mode' = "mode" /\ display' = "address"
    /\ UNCHANGED <<phase, command, buffer, history, pieces, tx_in_progress, access, question, sent>>

\* ui_menu_pubaddr_display, and the ways back to the main menu.
ShowAddress ==
    /\ pin_verified /\ phase = "idle" /\ display = "menu"
    /\ disp_addr_mode' = "zero" /\ display' = "address"
    /\ UNCHANGED <<phase, command, buffer, history, pieces, tx_in_progress, access, question, sent>>

\* ui_menu_info_action: behind the reason of a lock the PIN is asked for.
CloseInfo ==
    /\ pin_verified /\ phase = "idle" /\ display = "info"
    /\ IF protocol_barrier = "LOCKED"
       THEN protocol_barrier' = "LOCKED_UNLOCKABLE" /\ pin_verified' = FALSE
       ELSE UNCHANGED access
    /\ display' = "menu"
    /\ UNCHANGED <<phase, command, buffer, history, pieces, tx_in_progress, question,
                   disp_addr_mode, sent>>

\* Choosing a setting runs monero_init.
ChooseSetting ==
    /\ pin_verified /\ phase = "idle" /\ display = "menu"
    /\ MoneroInit
    /\ UNCHANGED <<phase, command, history, pieces, display, question, sent>>

\* The PIN is entered, or the device locks itself after a time: no command is at work.
PinChanges ==
    /\ phase # "run"
    /\ pin_verified' = ~pin_verified
    /\ UNCHANGED <<phase, command, buffer, history, pieces, tx_in_progress,
                   protocol_barrier, screen, sent>>

\* A reset of the transport while monero_io_do waits: main starts over.
Restart ==
    /\ phase # "run"
    /\ MoneroInit
    /\ Over
    /\ display' = "menu" /\ question' = "none"
    /\ UNCHANGED sent

Handle ==
    \/ FetchStep \/ FetchDecrypt \/ FetchDecryptKey \/ FetchVarint \/ DecodeUnbounded
    \/ FetchRemaining \/ LookAtRest \/ DiscardStep \/ UseStep \/ ScratchStep \/ TmpStep \/ TransactionStep
    \/ ShowStep \/ InitStep \/ InsertStep \/ AskStep \/ NoQuestion \/ Return

Next ==
    \/ \E i \in Commands : Receive(i)
    \/ Refuse \/ Throws \/ Handle
    \/ AnswerQuestion \/ AnswerViewKey \/ Back \/ ShowAddress \/ CloseInfo
    \/ ChooseSetting \/ PinChanges \/ Restart

Spec == Init /\ [][Next]_vars
-----------------------------------------------------------------------------
(* What is checked.                                                         *)

Statuses == {"none", "SW_OK", "SW_DENY", "SW_SECURITY_LOCKED",
             "SW_PROTOCOL_NOT_SUPPORTED", "0x0001", "exception", "IO_FULL"}

ExchangeTypeOK ==
    /\ phase \in {"idle", "run", "asked"} /\ ins \in Commands \cup {"none"}
    /\ secret \in Secrets /\ tagged \in BOOLEAN /\ pc \in Nat
    /\ io_length \in 0 .. MONERO_IO_BUFFER_LENGTH
    /\ io_offset \in 0 .. io_length
    /\ intact \in BOOLEAN /\ tx_in_progress \in BOOLEAN
    /\ display \in {"menu", "info", "address", "question"}
    /\ question \in {"none", "amount", "special", "address", "view key"}
    /\ disp_addr_mode \in {"zero", "mode", "other"}
    /\ sent.status \in Statuses

AccessTypeOK ==
    protocol_barrier \in {"LOCKED", "LOCKED_UNLOCKABLE", "UNLOCKED"} /\ pin_verified \in BOOLEAN

\* Every variable has a value of its kind, both counters stay within the buffer,
\* and the offset is never past the length, whatever was cut, thrown or sent
\* meanwhile: monero_io_hole moves io_length - io_offset bytes.
TypeOK == ExchangeTypeOK /\ AccessTypeOK

\* Whatever a handler reads, it reads from the bytes where the host put that
\* field, with or without a transaction, for sealed values, placeholders and
\* clear ones, and for cut messages. Two reads of the code are excepted: the
\* public key after a placeholder of the spend key, whose tag was not stepped
\* over (oxen_io.c:290), and the fee, decoded past the end of the message
\* (oxen_prehash.c:56).
FieldsReadWhereSent ==
    \A r \in reads :
        \/ r.got = r.field
        \/ ins = "VERIFY_KEY" /\ secret = "spend" /\ tagged
           /\ r = [field |-> "pub", got |-> "hmac"]
        \/ ins = "VALIDATE fee" /\ r = [field |-> "fee", got |-> "none"]

\* A handler that keeps pointers into the buffer follows them only while the
\* message is still there: not after a clearing discard, not after scratch work
\* in the buffer, and not after it began its answer.
PointersReadTheMessage == misused = {}

\* No handler, in or out of a transaction, builds an answer that does not fit
\* the buffer or the transport.
AnswersFit == sent.length <= MONERO_APDU_LENGTH /\ sent.status # "IO_FULL"

\* An answer the host waits for holds nothing of what was received or answered
\* before, only what the handler put in, then the status; and when the handler
\* throws half way through its answer, none of that either. (The answer of "Back"
\* that nobody asked for is the one sent while idle: the status and, after it,
\* the answer before.)
AnswersAreFresh ==
    [][phase # "idle" =>
        /\ sent'.leftover = 0
        /\ sent'.status \notin {"SW_OK", "SW_DENY"} =>
              \A n \in DOMAIN sent'.pieces : sent'.pieces[n].field = "exception"]_vars

\* While the host waits for the user, the question is on the display and its
\* answer will be sent: an address has a mode that makes "Back" answer.
QuestionsCanBeAnswered ==
    phase = "asked" =>
        IF question = "address"
        THEN display = "address" /\ disp_addr_mode # "zero"
        ELSE question # "none" /\ display = "question"

\* A refusal tells the host why, by a status of the client's table
\* (src/tests/monero_client/exception/device_error.py).
RefusalsAreNamed == sent.status # "0x0001"

\* "Back" sends something to a host that does not wait only when a signature or
\* a proof has written over disp_addr_mode while the address was shown.
OnlyAnOverwrittenModeAnswersUnasked ==
    [][phase = "idle" /\ phase' = "idle" /\ sent' # sent => disp_addr_mode = "other"]_vars
=============================================================================
