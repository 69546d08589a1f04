---------------------------- MODULE SettingsStore ----------------------------
(***************************************************************************)
(* What the flash memory promises to the rest of the application: it holds *)
(* either nothing or a complete set of settings; installing and wiping are  *)
(* atomic, also when the power fails, and leave nothing of what was there.  *)
(* Only the replacement of an external key pair is not atomic.              *)
(***************************************************************************)
CONSTANTS Networks, ExportModes, Confirmations, Pairs, None

VARIABLES
    installed,
    network,
    export,      \* whether the view key is exported
    confirm,     \* what else must be confirmed
    account      \* view and spend key: the seed's, or those the host has set

vars == <<installed, network, export, confirm, account>>

Pair(k) == <<k, k>>

Wiped ==
    /\ installed' = FALSE
    /\ network' = None /\ export' = None /\ confirm' = None /\ account' = Pair(None)

Init ==
    /\ installed = FALSE
    /\ network = None /\ export = None /\ confirm = None /\ account = Pair(None)

Wipe == installed /\ Wiped

Install(net) ==
    /\ ~installed
    /\ installed' = TRUE
    /\ network' = net
    /\ export' = "prompt"
    /\ confirm' = "default"
    /\ account' = Pair("seed")

SetExport(mode) ==
    /\ installed
    /\ export' = mode
    /\ UNCHANGED <<installed, network, confirm, account>>

SetConfirm(value) ==
    /\ installed
    /\ confirm' = value
    /\ UNCHANGED <<installed, network, export, account>>

\* From the seed to an external pair: both halves at once, and matching.
UsePair(k) ==
    /\ installed
    /\ account = Pair("seed")
    /\ account' = Pair(k)
    /\ UNCHANGED <<installed, network, export, confirm>>

\* From one external pair to another: half by half, and a half may be lost.
ReplaceHalf(k) ==
    /\ installed
    /\ account # Pair("seed")
    /\ account' \in {<<k, account[2]>>, <<account[1], k>>}
    /\ UNCHANGED <<installed, network, export, confirm>>

Next ==
    \/ Wipe
    \/ \E net \in Networks : Install(net)
    \/ \E mode \in ExportModes : SetExport(mode)
    \/ \E value \in Confirmations : SetConfirm(value)
    \/ \E k \in Pairs : UsePair(k)
    \/ \E k \in Pairs \cup {"torn"} : ReplaceHalf(k)

Spec == Init /\ [][Next]_vars
=============================================================================
