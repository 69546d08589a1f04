---------------------------- MODULE OxenProtocol ----------------------------
(***************************************************************************)
(* The vocabulary of the command protocol of the Oxen Ledger application:  *)
(* instructions, transaction types, signature modes, the recorded place in *)
(* the command sequence, and the numbering of the pieces of a multi-piece  *)
(* command.  No state: the modules that model the device extend this one.  *)
(***************************************************************************)
EXTENDS Naturals

CONSTANTS
    MaxP2,     \* largest value of the one-byte P2 counter (255 in the code)
    MaxSign,   \* largest value of tx_sign_cnt (2^32 - 1 in the code)
    TxTypes    \* the transaction types the host opens

AllTxTypes == {"STANDARD", "UNLOCK", "STAKE", "LNS"}

ASSUME MaxP2Assumption == MaxP2 \in Nat \ {0}
ASSUME MaxSignAssumption == MaxSign \in Nat \ {0}
ASSUME TxTypesAssumption == TxTypes \subseteq AllTxTypes

\* The instructions whose handler moves the recorded place in the sequence.
\* "NONE" is the value 0 that clear_protocol writes.
TxInstructions ==
    {"OPEN_TX", "ENCRYPT_PAYMENT_ID", "GEN_TXOUT_KEYS", "PREFIX_HASH",
     "GEN_COMMITMENT_MASK", "BLIND", "VALIDATE", "CLSAG"}
SpecialInstructions == {"GEN_UNLOCK_SIGNATURE", "GEN_LNS_SIGNATURE"}
Instructions == TxInstructions \cup SpecialInstructions \cup {"NONE"}

SigModes == {"NONE", "REAL", "FAKE"}
Barriers == {"UNLOCKED", "LOCKED", "LOCKED_UNLOCKABLE"}

P2s == 0 .. MaxP2

\* The place in the sequence: tx_state_ins, tx_state_p1, tx_state_p2.
TxStates == [ins : Instructions, p1 : 0 .. 3, p2 : P2s]
At(i, a, b) == [ins |-> i, p1 |-> a, p2 |-> b]
Idle == At("NONE", 0, 0)

\* A multi-piece command numbers its pieces 1, 2, ... in P2; after the largest
\* counter value it goes on at 1, and the last piece is always numbered 0.
NextPiece(prev) == IF prev < MaxP2 THEN prev + 1 ELSE 1
PieceFollows(prev, p2) == p2 = 0 \/ p2 = NextPiece(prev)
FirstPiece(p2) == p2 <= 1
=============================================================================
