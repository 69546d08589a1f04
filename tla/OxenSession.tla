---------------------------- MODULE OxenSession ----------------------------
(***************************************************************************)
(* The dispatcher implements SigningSession: twenty-odd commands, answers  *)
(* and events of the system, seen as the few steps of a signing session.    *)
(***************************************************************************)
EXTENDS OxenDispatch

\* The nonces a history of signatures consumed.
Consumed(history_of_signatures) ==
    {history_of_signatures[i] : i \in 1 .. Len(history_of_signatures)}

Session == INSTANCE SigningSession WITH
    Nonces <- 1 .. MaxSign,
    open   <- tx_in_progress,
    agreed <- steps \cap Round,
    asking <- StepOf(prompt),
    sealed <- alphas,
    used   <- Consumed(signed)

\* Whatever the host, the user and the system do, what the device does with a
\* transaction is a behaviour of SigningSession: sealing and signing follow a
\* complete round of validation of this session without an open question, and
\* no end of a session leaves consent or a nonce to the next one.
ImplementsSession == Session!Spec
=============================================================================
