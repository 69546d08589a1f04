------------------------------ MODULE OxenNvram ------------------------------
(***************************************************************************)
(* Boot, installation, settings and stored keys: the flash memory of the   *)
(* Oxen Ledger application (N_oxen_state), written field by field, with     *)
(* power failures between and inside the writes.                            *)
(*                                                                         *)
(* An operation puts the list of its flash writes in job; Write carries     *)
(* them out one at a time, and task says what comes after the last.  The    *)
(* operating system erases and writes a range in the order of its addresses *)
(* (an assumption about nvm_write); a field of more than a byte may be torn.*)
(***************************************************************************)
EXTENDS Naturals, Sequences

CONSTANT Pairs     \* the external key pairs the host knows

VARIABLES
    nv,                \* N_oxen_state, field by field
    job,               \* the flash writes of the present operation
    at,                \* the next one of them
    task,              \* what the application does when they are done
    loaded,            \* G_oxen_state.view_priv and spend_priv
    export_view_key,   \* G_oxen_state.export_view_key
    asked,             \* the question about the view key is on the display
    answered           \* history: the button whose answer is carried out

vars == <<nv, job, at, task, loaded, export_view_key, asked, answered>>

\* truncate_addrs_mode, confirm_fee_mode and confirm_change_mode are one field
\* here: "confirm" is "default" when all three are 0.
Fields == {"magic", "network", "key_mode", "export", "confirm", "spend", "view"}
WideFields == {"magic", "spend", "view"}
Networks == {"MAINNET", "TESTNET", "DEVNET"}
ExportModes == {"prompt", "allow", "deny"}
Confirmations == {"default", "changed"}
Halves == Pairs \cup {"zero", "torn"}

ValuesOf(f) ==
    CASE f = "magic" -> {"zero", "torn", "good"}
      [] f = "network" -> Networks
      [] f = "key_mode" -> {"zero", "seed", "external"}
      [] f = "export" -> ExportModes
      [] f = "confirm" -> Confirmations
      [] OTHER -> Halves

ASSUME PairsAssumption == Pairs \cap {"zero", "torn", "seed"} = {}

NoKeys == <<"zero", "zero">>
Writes == UNION {[field : {f}, value : ValuesOf(f)] : f \in Fields}
Tasks == {"off", "init", "load", "run", "failed"}
Buttons == {"export", "always export", "reject", "always reject"}

TypeOK ==
    /\ DOMAIN nv = Fields
    /\ \A f \in Fields : nv[f] \in ValuesOf(f)
    /\ job \in Seq(Writes) /\ at \in 1 .. Len(job) + 1
    /\ task \in Tasks
    /\ loaded \in (Halves \cup {"seed"}) \X (Halves \cup {"seed"})
    /\ export_view_key \in BOOLEAN /\ asked \in BOOLEAN
    /\ answered \in Buttons \cup {"none"}

Good == nv["magic"] = "good"

-----------------------------------------------------------------------------
(* Flash writes. *)

W(f, v) == [field |-> f, value |-> v]

\* Mutants: no erasure; the magic before the key mode; no key mode.
InstallOver(net) == <<W("key_mode", "seed"), W("network", net), W("magic", "good")>>
InstallMagicFirst(net) ==
    <<W("magic", "zero"), W("key_mode", "zero"), W("magic", "good"), W("key_mode", "seed")>>
InstallNoKeyMode(net) == <<W("magic", "zero"), W("key_mode", "zero"), W("magic", "good")>>

\* oxen_install: nvm_write(N_oxen_state, NULL, ...) makes every byte 0, which
\* means MAINNET, always prompt and the strictest confirmations; then come the
\* key mode, the network and, last, the magic.
InstallWrites(net) ==
    <<W("magic", "zero"), W("network", "MAINNET"), W("key_mode", "zero"),
      W("export", "prompt"), W("confirm", "default"), W("spend", "zero"),
      W("view", "zero"),
      W("key_mode", "seed"), W("network", net), W("magic", "good")>>

Writing == at <= Len(job)
Serving == task = "run" /\ ~Writing

Do(writes, then) == job' = writes /\ at' = 1 /\ task' = then
Nothing == job' = <<>> /\ at' = 1

Write ==
    /\ Writing
    /\ nv' = [nv EXCEPT ![job[at].field] = job[at].value]
    /\ at' = at + 1
    /\ UNCHANGED <<job, task, loaded, export_view_key, asked, answered>>

-----------------------------------------------------------------------------
(* Boot. *)

PowerOn ==
    /\ task = "off"
    /\ task' = "init"
    /\ UNCHANGED <<nv, job, at, loaded, export_view_key, asked, answered>>

\* The field being written may keep a part of its old bytes.
PowerOff ==
    /\ task # "off"
    /\ \/ UNCHANGED nv
       \/ /\ Writing
          /\ job[at].field \in WideFields
          /\ nv' = [nv EXCEPT ![job[at].field] = "torn"]
    /\ Do(<<>>, "off")
    /\ loaded' = NoKeys
    /\ export_view_key' = FALSE /\ asked' = FALSE /\ answered' = "none"

\* monero_init: the RAM state is cleared; without the magic the application is
\* installed first; then the keys are loaded.
MoneroInit ==
    /\ task = "init" /\ ~Writing
    /\ Do(IF Good THEN <<>> ELSE InstallWrites("MAINNET"), "load")
    /\ loaded' = NoKeys
    /\ export_view_key' = FALSE /\ asked' = FALSE /\ answered' = "none"
    /\ UNCHANGED nv

\* monero_init_private_key: an unknown key mode throws out of the boot.
LoadKeys ==
    /\ task = "load" /\ ~Writing
    /\ loaded' = CASE nv["key_mode"] = "seed" -> <<"seed", "seed">>
                   [] nv["key_mode"] = "external" -> <<nv["view"], nv["spend"]>>
                   [] OTHER -> loaded
    /\ task' = IF nv["key_mode"] \in {"seed", "external"} THEN "run" ELSE "failed"
    /\ UNCHANGED <<nv, job, at, export_view_key, asked, answered>>

\* INS_RESET, or a reset of the USB transport.
Reinit ==
    /\ Serving
    /\ task' = "init"
    /\ UNCHANGED <<nv, job, at, loaded, export_view_key, asked, answered>>

\* The keys are loaded again whenever the PIN is entered.
PinEntered ==
    /\ Serving
    /\ task' = "load"
    /\ UNCHANGED <<nv, job, at, loaded, export_view_key, asked, answered>>

-----------------------------------------------------------------------------
(* The export of the view key.  The values are the low 17 bits of the code's *)
(* unsigned integers, which is all that is tested of them.                   *)

RememberBit == 65536                         \* 0x10000
ACCEPT == 44238                              \* 0xACCE
REJECT == 2 * RememberBit - 1 - ACCEPT       \* ~0xACCE

Remembers(value) == value >= RememberBit
WithRemember(value) == IF Remembers(value) THEN value ELSE value + RememberBit
WithoutRemember(value) == value % RememberBit

ValueOf(button) ==
    CASE button = "export" -> ACCEPT
      [] button = "always export" -> WithRemember(ACCEPT)
      [] button = "reject" -> REJECT
      [] button = "always reject" -> WithRemember(REJECT)

\* ui_menu_export_viewkey_action
Decide(value) ==
    LET accepted == (IF Remembers(value) THEN WithoutRemember(value) ELSE value) = ACCEPT
    IN  /\ IF Remembers(value)
           THEN Do(<<W("export", IF accepted THEN "allow" ELSE "deny")>>, "run")
           ELSE Do(<<>>, "run")
        /\ export_view_key' = accepted
        /\ UNCHANGED <<nv, loaded>>

\* GET_KEY for the view key, when it was not exported yet.
GetViewKey ==
    /\ Serving /\ ~asked /\ ~export_view_key
    /\ CASE nv["export"] = "allow" -> Decide(ACCEPT) /\ UNCHANGED asked
         [] nv["export"] = "deny" -> Decide(REJECT) /\ UNCHANGED asked
         [] OTHER -> asked' = TRUE
                     /\ UNCHANGED <<nv, job, at, task, loaded, export_view_key>>
    /\ answered' = "none"

AnswerViewKey(button) ==
    /\ Serving /\ asked
    /\ Decide(ValueOf(button))
    /\ asked' = FALSE
    /\ answered' = button

-----------------------------------------------------------------------------
(* Keys and settings. *)

\* Mutant: the key mode is switched before the keys are stored.
StorePairModeFirst(k) == <<W("key_mode", "external"), W("view", k), W("spend", k)>>
StorePair(k) == <<W("view", k), W("spend", k), W("key_mode", "external")>>

\* PUT_KEY of a right pair, and of one whose spend key fails its check after
\* the view key was stored.  The keys in RAM stay as they are.
PutKey(k) ==
    /\ Serving /\ ~asked
    /\ Do(StorePair(k), "run")
    /\ answered' = "none"
    /\ UNCHANGED <<nv, loaded, export_view_key, asked>>

PutKeyBadSpend(k) ==
    /\ Serving /\ ~asked
    /\ Do(<<W("view", k)>>, "run")
    /\ answered' = "none"
    /\ UNCHANGED <<nv, loaded, export_view_key, asked>>

\* Mutants: the choice is not checked against the menu; the RAM is not cleared.
ChooseSettingUnchecked(f, v) ==
    /\ Serving /\ ~asked
    /\ Do(<<W(f, "beyond the menu")>>, "init")
    /\ answered' = "none"
    /\ UNCHANGED <<nv, loaded, export_view_key, asked>>
ChooseSettingNoInit(f, v) ==
    /\ Serving /\ ~asked
    /\ Do(<<W(f, v)>>, "run")
    /\ answered' = "none"
    /\ UNCHANGED <<nv, loaded, export_view_key, asked>>

\* A choice in one of the settings menus.
ChooseSetting(f, v) ==
    /\ Serving /\ ~asked
    /\ Do(<<W(f, v)>>, "init")
    /\ answered' = "none"
    /\ UNCHANGED <<nv, loaded, export_view_key, asked>>

SelectNetwork(net) ==
    /\ Serving /\ ~asked
    /\ Do(InstallWrites(net), "init")
    /\ answered' = "none"
    /\ UNCHANGED <<nv, loaded, export_view_key, asked>>

\* Half of the magic is erased; monero_init does the rest.
Reset ==
    /\ Serving /\ ~asked
    /\ Do(<<W("magic", "zero")>>, "init")
    /\ answered' = "none"
    /\ UNCHANGED <<nv, loaded, export_view_key, asked>>

-----------------------------------------------------------------------------
\* A device as it is delivered: nothing but zeros.
Init ==
    /\ nv = [f \in Fields |-> CASE f = "network" -> "MAINNET"
                                [] f = "export" -> "prompt"
                                [] f = "confirm" -> "default"
                                [] OTHER -> "zero"]
    /\ job = <<>> /\ at = 1
    /\ task = "off"
    /\ loaded = NoKeys
    /\ export_view_key = FALSE /\ asked = FALSE /\ answered = "none"

Boot == Write \/ MoneroInit \/ LoadKeys

Operation ==
    \/ Reinit \/ PinEntered \/ GetViewKey \/ Reset
    \/ \E button \in Buttons : AnswerViewKey(button)
    \/ \E k \in Pairs : PutKey(k) \/ PutKeyBadSpend(k)
    \/ \E mode \in ExportModes : ChooseSetting("export", mode)
    \/ \E value \in Confirmations : ChooseSetting("confirm", value)
    \/ \E net \in Networks : SelectNetwork(net)

Next == PowerOn \/ PowerOff \/ Boot \/ Operation

Spec == Init /\ [][Next]_vars

\* The application runs on while it has power.
FairSpec == Spec /\ WF_vars(Boot)

-----------------------------------------------------------------------------
(* Properties. *)

\* Wherever the power failed, a memory that bears the magic can be booted: its
\* key mode is a known one, so that monero_init never throws.
InstalledIsUsable ==
    /\ Good => nv["key_mode"] \in {"seed", "external"}
    /\ task # "failed"

\* A boot that is not cut off again ends with the application serving.
BootEnds == task = "init" ~> task \in {"run", "off"}

\* "Just installed" means it: when the magic appears, whatever was stored or
\* interrupted before, no setting and no key is left of it.
ResetIsComplete ==
    [][ ~Good /\ Good' =>
            /\ nv'["key_mode"] = "seed"
            /\ nv'["export"] = "prompt" /\ nv'["confirm"] = "default"
            /\ nv'["spend"] = "zero" /\ nv'["view"] = "zero" ]_vars

\* Once the user has chosen never to export the view key, the application does
\* not hold on to an earlier permission.
DenialIsRespected == Serving /\ nv["export"] = "deny" => ~export_view_key

\* "Reject", and the first "Export view key?", are answers to one question;
\* the stored mode changes only by the two buttons that say "always".
PlainAnswerIsNotStored ==
    [][ nv'["export"] # nv["export"] => answered \notin {"export", "reject"} ]_vars

\* Both keys are checked before both are stored: the application never works
\* with halves of different pairs.
LoadedKeysArePaired == loaded[1] = loaded[2]

\* The keys the application works with, or will after the next start.
Account ==
    CASE ~Good -> <<"none", "none">>
      [] Good /\ nv["key_mode"] = "seed" -> <<"seed", "seed">>
      [] OTHER -> <<nv["view"], nv["spend"]>>

Store == INSTANCE SettingsStore WITH
    None <- "none",
    installed <- Good,
    network <- IF Good THEN nv["network"] ELSE "none",
    export <- IF Good THEN nv["export"] ELSE "none",
    confirm <- IF Good THEN nv["confirm"] ELSE "none",
    account <- Account

\* Field by field and with the power failing anywhere, the memory behaves as
\* a store whose installation, reset and first key pair are atomic.
ImplementsStore == Store!Spec
=============================================================================
