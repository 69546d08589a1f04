---------------------------- MODULE MCOxenDispatch ----------------------------
(***************************************************************************)
(* Model checking of OxenDispatch and of its refinement of SigningSession,  *)
(* and a statement the repository makes about the order of commands that   *)
(* the dispatcher does not enforce.                                        *)
(***************************************************************************)
EXTENDS OxenSession

\* "Following command are only allowed during transaction and their sequence
\* shall be enforced" (oxen_dispatch.c:236): in a real transaction the
\* commitment masks come after the prefix was hashed, as in the state machine
\* that doc/developer/blue-app-commands.rst:1573 says is enforced.
DocumentedOrder ==
    tx_in_progress /\ tx_sig_mode = "REAL" /\ tx_state.ins = "GEN_COMMITMENT_MASK"
        => "prefix" \in steps
=============================================================================
