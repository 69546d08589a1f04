------------------------- MODULE OxenDispatchProofs -------------------------
(***************************************************************************)
(* Proofs about OxenDispatch, for every value of its constants.            *)
(* IInv is the inductive invariant: the safety properties of OxenDispatch, *)
(* and what they lean on.  TypeStep and the Step lemmas below show that     *)
(* every action keeps it, one step per action; the theorems at the end are  *)
(* read off from it.                                                       *)
(***************************************************************************)
EXTENDS OxenDispatch, TLAPS

\* A pending special question is about the place in the sequence, and is put
\* only outside a transaction; once it is answered, the place stays special
\* only when it was accepted.
SpecialInv ==
    /\ prompt \in SpecialInstructions => tx_state.ins = prompt /\ ~tx_in_progress
    /\ tx_state.ins \in SpecialInstructions /\ prompt \notin SpecialInstructions
          => accepted = tx_state.ins

\* Nonces are named by past values of the counter, and between PREPARE and SIGN
\* the one named by the present value has not signed.
NonceInv ==
    /\ alphas \subseteq 1 .. tx_sign_cnt
    /\ \A i \in 1 .. Len(signed) : signed[i] <= tx_sign_cnt
    /\ tx_state.ins = "CLSAG" /\ tx_state.p1 \in {1, 2}
          => \A i \in 1 .. Len(signed) : signed[i] # tx_sign_cnt
    /\ NonceSignsOnce

ControlInv ==
    /\ OneTransactionAtATime
    /\ PlaceIsEarned
    /\ LockedIsQuiet
    /\ QuestionIsOnDisplay
    /\ SpecialInv

IInv == TypeOK /\ ControlInv /\ NonceInv

-----------------------------------------------------------------------------
(* Types. *)

\* A history that a reset cleared is a sequence of nonces.
LEMMA EmptySeq == <<>> \in Seq(1 .. MaxSign)
  OBVIOUS

\* Every place a handler records is a place.
LEMMA PlaceType ==
    /\ \A i \in Instructions, a \in 0 .. 3, b \in P2s : At(i, a, b) \in TxStates
    /\ 0 \in P2s
  BY MaxP2Assumption DEF At, TxStates, P2s

\* The place clear_protocol writes is a place.
LEMMA IdleType == Idle \in TxStates
  BY PlaceType DEF Idle, Instructions

\* monero_reset_tx writes well-typed values.
LEMMA ResetType ==
    ResetTx => /\ tx_in_progress' \in BOOLEAN
               /\ steps' \subseteq Steps
               /\ alphas' \subseteq 1 .. MaxSign
               /\ signed' \in Seq(1 .. MaxSign)
  BY EmptySeq DEF ResetTx

\* monero_init types every variable but the two it leaves alone.
LEMMA MoneroInitType ==
    ASSUME MoneroInit, pin_verified' \in BOOLEAN, screen' \in Screens
    PROVE  TypeOK'
<1>1. tx_state' \in TxStates
  BY IdleType DEF MoneroInit
<1>2. signed' \in Seq(1 .. MaxSign)
  BY EmptySeq DEF MoneroInit
<1>3. tx_sign_cnt' \in 0 .. MaxSign
  BY MaxSignAssumption DEF MoneroInit
<1> QED
  BY <1>1, <1>2, <1>3 DEF MoneroInit, TypeOK, Barriers, AllTxTypes, SigModes, Prompts

\* The initial state is well typed.
LEMMA TypeInit == Init => TypeOK
<1> SUFFICES ASSUME Init PROVE TypeOK
  OBVIOUS
<1>1. tx_state \in TxStates
  BY IdleType DEF Init
<1>2. signed \in Seq(1 .. MaxSign)
  BY EmptySeq DEF Init
<1>3. tx_sign_cnt \in 0 .. MaxSign
  BY MaxSignAssumption DEF Init
<1> QED
  BY <1>1, <1>2, <1>3
  DEF Init, TypeOK, Barriers, AllTxTypes, SigModes, Prompts, Screens

\* Every step keeps the types.
LEMMA TypeStep == TypeOK /\ [Next]_vars => TypeOK'
<1> SUFFICES ASSUME TypeOK, [Next]_vars PROVE TypeOK'
  OBVIOUS
<1>1. CASE OtherCommand
  <2>1. CASE LowLevelCommand
    BY <2>1 DEF LowLevelCommand, history, TypeOK, Barriers
  <2>2. CASE CommandThrows
    BY <2>2, ResetType DEF CommandThrows, Thrown, TypeOK, Barriers
  <2>3. CASE CommandLocks
    BY <2>3, ResetType DEF CommandLocks, LockedAndThrown, TypeOK, Barriers, Screens
  <2>4. CASE ResetCommand
    BY <2>4, MoneroInitType DEF ResetCommand, TypeOK
  <2>5. CASE AskViewKey
    BY <2>5 DEF AskViewKey, Asked, history, TypeOK, Barriers, Prompts, AmountPrompts,
      SpecialInstructions, Screens
  <2>6. CASE AskAddress
    BY <2>6 DEF AskAddress, history, TypeOK, Barriers, Prompts, AmountPrompts,
      SpecialInstructions, Screens
  <2>7. CASE ViewKeyRemembered
    BY <2>7 DEF ViewKeyRemembered, history, TypeOK, Barriers, Screens
  <2>8. ASSUME NEW mode \in {"REAL", "FAKE"}, SetSignatureMode(mode) PROVE TypeOK'
    BY <2>8 DEF SetSignatureMode, history, TypeOK, Barriers, SigModes
  <2>9. CASE SetSignatureModeFails
    BY <2>9, ResetType DEF SetSignatureModeFails, Thrown, LockedAndThrown, TypeOK,
      Barriers, SigModes, Screens
  <2> QED BY <1>1, <2>1, <2>2, <2>3, <2>4, <2>5, <2>6, <2>7, <2>8, <2>9 DEF OtherCommand
<1>2. CASE BuildCommand
  <2>1. ASSUME NEW t \in TxTypes, OpenTx(t) PROVE TypeOK'
    BY <2>1, EmptySeq, PlaceType, TxTypesAssumption DEF OpenTx, Answered, TypeOK,
      Barriers, AllTxTypes, Screens, Steps, Round, Instructions, TxInstructions
  <2>2. CASE CloseTx
    BY <2>2, IdleType, ResetType DEF CloseTx, Answered, TypeOK, Barriers, Screens
  <2>3. CASE EncryptPaymentId
    BY <2>3, PlaceType DEF EncryptPaymentId, Answered, history, TypeOK, Barriers,
      Instructions, TxInstructions
  <2>4. CASE GenTxoutKeys
    BY <2>4, PlaceType DEF GenTxoutKeys, Answered, history, TypeOK, Barriers,
      Instructions, TxInstructions
  <2>5. ASSUME NEW b \in P2s, NEW ask \in BOOLEAN, PrefixInit(b, ask) PROVE TypeOK'
    BY <2>5, PlaceType DEF PrefixInit, Asked, Answered, TypeOK, Barriers, Prompts,
      AmountPrompts, SpecialInstructions, Screens, Steps, Round, Instructions,
      TxInstructions
  <2>6. ASSUME NEW b \in P2s, PrefixUpdate(b) PROVE TypeOK'
    BY <2>6, PlaceType DEF PrefixUpdate, Answered, TypeOK, Barriers, Steps, Round,
      Instructions, TxInstructions
  <2>7. CASE PrefixThrows
    BY <2>7, ResetType, PlaceType DEF PrefixThrows, Thrown, TypeOK, Barriers,
      Instructions, TxInstructions
  <2>8. CASE GenCommitmentMask
    BY <2>8, PlaceType DEF GenCommitmentMask, Answered, history, TypeOK, Barriers,
      Instructions, TxInstructions
  <2>9. CASE Blind
    BY <2>9, PlaceType DEF Blind, Answered, history, TypeOK, Barriers, Instructions,
      TxInstructions
  <2> QED BY <1>2, <2>1, <2>2, <2>3, <2>4, <2>5, <2>6, <2>7, <2>8, <2>9 DEF BuildCommand
<1>3. CASE SignCommand
  <2>1. ASSUME NEW b \in P2s, NEW ask \in BOOLEAN, ValidateInit(b, ask) PROVE TypeOK'
    BY <2>1, PlaceType DEF ValidateInit, Asked, Answered, TypeOK, Barriers, Prompts,
      AmountPrompts, SpecialInstructions, Screens, Steps, Round, Instructions,
      TxInstructions
  <2>2. ASSUME NEW b \in P2s, NEW ask \in {"none", "output", "change"},
    ValidateUpdate(b, ask) PROVE TypeOK'
    <3>1. CASE ask = "none"
      <4>1. /\ Answered(At("VALIDATE", 2, b))
            /\ steps' \subseteq Steps
            /\ UNCHANGED <<screen, tx_in_progress, tx_type, tx_sign_cnt, alphas, signed>>
        BY <2>2, <3>1 DEF ValidateUpdate, TypeOK, Steps, Round
      <4> QED
        BY <4>1, PlaceType DEF Answered, TypeOK, Barriers, Instructions, TxInstructions
    <3>2. CASE ask # "none"
      <4>1. Asked(ask, At("VALIDATE", 2, b)) /\ ask \in {"output", "change"}
        BY <2>2, <3>2 DEF ValidateUpdate
      <4> QED
        BY <2>2, <3>2, <4>1, PlaceType DEF ValidateUpdate, Asked, TypeOK, Barriers,
          Instructions, TxInstructions, Prompts, AmountPrompts, Screens
    <3> QED BY <3>1, <3>2
  <2>3. ASSUME NEW b \in P2s, ValidateFinalize(b) PROVE TypeOK'
    BY <2>3, PlaceType DEF ValidateFinalize, Answered, TypeOK, Barriers, Steps, Round,
      Instructions, TxInstructions
  <2>4. CASE ValidateThrows
    BY <2>4, ResetType, PlaceType DEF ValidateThrows, Thrown, TypeOK, Barriers,
      Instructions, TxInstructions
  <2>5. CASE ClsagPrepare
    BY <2>5, PlaceType, MaxSignAssumption DEF ClsagPrepare, NextSignCnt, Answered,
      TypeOK, Barriers, Instructions, TxInstructions
  <2>6. CASE ClsagPrepareFails
    <3>1. NextSignCnt \in 0 .. MaxSign
      BY MaxSignAssumption DEF TypeOK, NextSignCnt
    <3>2. CASE Thrown
      BY <2>6, <3>1, <3>2, ResetType DEF ClsagPrepareFails, Thrown, TypeOK, Barriers
    <3>3. CASE LockedAndThrown
      BY <2>6, <3>1, <3>3, ResetType DEF ClsagPrepareFails, LockedAndThrown, TypeOK,
        Barriers, Screens
    <3> QED BY <2>6, <3>2, <3>3 DEF ClsagPrepareFails
  <2>7. ASSUME NEW b \in P2s, ClsagHash(b) PROVE TypeOK'
    BY <2>7, PlaceType DEF ClsagHash, Answered, history, TypeOK, Barriers, Instructions,
      TxInstructions
  <2>8. ASSUME NEW alpha \in 1 .. MaxSign, ClsagSign(alpha) PROVE TypeOK'
    BY <2>8, PlaceType DEF ClsagSign, Answered, TypeOK, Barriers, Instructions,
      TxInstructions
  <2>9. CASE ClsagSignFake
    BY <2>9, PlaceType DEF ClsagSignFake, Answered, history, TypeOK, Barriers,
      Instructions, TxInstructions
  <2> QED BY <1>3, <2>1, <2>2, <2>3, <2>4, <2>5, <2>6, <2>7, <2>8, <2>9 DEF SignCommand
<1>4. CASE SpecialCommand
  <2>1. ASSUME NEW ins \in SpecialInstructions, AskSpecial(ins) PROVE TypeOK'
    <3>1. At(ins, 0, 0) \in TxStates /\ ins \in Prompts
      BY PlaceType DEF Instructions, Prompts
    <3>2. /\ protocol_barrier' \in Barriers /\ screen' \in Screens
          /\ accepted' \in SpecialInstructions \cup {"NONE"}
      BY <2>1 DEF AskSpecial, Asked, Barriers, Screens
    <3> QED
      BY <2>1, <3>1, <3>2 DEF AskSpecial, Asked, history, TypeOK
  <2>2. CASE UnlockSign
    BY <2>2, PlaceType DEF UnlockSign, Answered, history, TypeOK, Barriers,
      Instructions, SpecialInstructions
  <2>3. ASSUME NEW b \in P2s, LnsHash(b) PROVE TypeOK'
    <3>1. At("GEN_LNS_SIGNATURE", 1, b) \in TxStates
      <4>1. "GEN_LNS_SIGNATURE" \in Instructions /\ 1 \in 0 .. 3
        BY DEF Instructions, SpecialInstructions
      <4> QED
        BY <4>1, PlaceType
    <3>2. protocol_barrier' \in Barriers
      BY <2>3 DEF LnsHash, Answered, Barriers
    <3> QED
      BY <2>3, <3>1, <3>2 DEF LnsHash, Answered, history, TypeOK
  <2>4. CASE LnsSign
    BY <2>4, PlaceType DEF LnsSign, Answered, history, TypeOK, Barriers, Instructions,
      SpecialInstructions
  <2> QED BY <1>4, <2>1, <2>2, <2>3, <2>4 DEF SpecialCommand
<1>5. CASE Answer
  <2>1. CASE AcceptAmount
    BY <2>1 DEF AcceptAmount, StepOf, TypeOK, Prompts, AmountPrompts,
      SpecialInstructions, Screens, Steps, Round
  <2>2. CASE RejectAmount
    BY <2>2, ResetType DEF RejectAmount, TypeOK, Prompts, AmountPrompts,
      SpecialInstructions, Screens
  <2>3. CASE AcceptSpecial
    BY <2>3 DEF AcceptSpecial, history, TypeOK, Prompts, AmountPrompts,
      SpecialInstructions, Screens
  <2>4. CASE RejectSpecial
    BY <2>4, IdleType DEF RejectSpecial, history, TypeOK, Prompts, AmountPrompts,
      SpecialInstructions, Screens
  <2>5. CASE AnswerOnMain
    BY <2>5 DEF AnswerOnMain, history, TypeOK, Prompts, AmountPrompts,
      SpecialInstructions, Screens
  <2> QED BY <1>5, <2>1, <2>2, <2>3, <2>4, <2>5 DEF Answer
<1>6. CASE Menu
  <2>1. CASE InfoButton
    BY <2>1 DEF InfoButton, history, TypeOK, Barriers, Screens
  <2>2. ASSUME NEW from \in {"main", "settings"}, NEW to \in {"main", "address",
    "settings"}, Browse(from, to) PROVE TypeOK'
    BY <2>2 DEF Browse, history, TypeOK, Screens
  <2>3. CASE ChooseSetting
    BY <2>3, MoneroInitType DEF ChooseSetting, TypeOK, Screens
  <2> QED BY <1>6, <2>1, <2>2, <2>3 DEF Menu
<1>7. CASE System
  <2>1. CASE EnterPin
    BY <2>1 DEF EnterPin, history, TypeOK
  <2>2. CASE PinTimeout
    BY <2>2 DEF PinTimeout, history, TypeOK
  <2>3. CASE Restart
    BY <2>3, MoneroInitType DEF Restart, TypeOK, Screens
  <2> QED BY <1>7, <2>1, <2>2, <2>3 DEF System
<1>8. CASE UNCHANGED vars
  BY <1>8 DEF vars, TypeOK
<1> QED BY <1>1, <1>2, <1>3, <1>4, <1>5, <1>6, <1>7, <1>8 DEF Next

-----------------------------------------------------------------------------
(* Control: the place in the sequence, the questions, the lock. *)

\* Every step keeps the five control invariants; they lean on each other, so
\* they are proved together.  The phases of VALIDATE are the long cases.
LEMMA ControlStep == TypeOK /\ ControlInv /\ [Next]_vars => ControlInv'
<1> SUFFICES ASSUME TypeOK, ControlInv, [Next]_vars PROVE ControlInv'
  OBVIOUS
<1>1. CASE OtherCommand
  <2>1. CASE LowLevelCommand
    BY <2>1 DEF LowLevelCommand, Served, history, ControlInv, OneTransactionAtATime,
      PlaceIsEarned, LockedIsQuiet, QuestionIsOnDisplay, SpecialInv, RoundBefore,
      StepOf, Round, TxInstructions, SpecialInstructions, AmountPrompts
  <2>2. CASE CommandThrows
    BY <2>2 DEF CommandThrows, Served, Thrown, ResetTx, ControlInv,
      OneTransactionAtATime, PlaceIsEarned, LockedIsQuiet, QuestionIsOnDisplay,
      SpecialInv, RoundBefore, StepOf, Round, TxInstructions, SpecialInstructions,
      AmountPrompts
  <2>3. CASE CommandLocks
    BY <2>3 DEF CommandLocks, Served, LockedAndThrown, ResetTx, ControlInv,
      OneTransactionAtATime, PlaceIsEarned, LockedIsQuiet, QuestionIsOnDisplay,
      SpecialInv, RoundBefore, StepOf, Round, TxInstructions, SpecialInstructions,
      AmountPrompts
  <2>4. CASE ResetCommand
    BY <2>4 DEF ResetCommand, Served, MoneroInit, Idle, At, ControlInv,
      OneTransactionAtATime, PlaceIsEarned, LockedIsQuiet, QuestionIsOnDisplay,
      SpecialInv, RoundBefore, StepOf, Round, TxInstructions, SpecialInstructions,
      AmountPrompts
  <2>5. CASE AskViewKey
    BY <2>5 DEF AskViewKey, Served, Asked, history, ControlInv, OneTransactionAtATime,
      PlaceIsEarned, LockedIsQuiet, QuestionIsOnDisplay, SpecialInv, RoundBefore,
      StepOf, Round, TxInstructions, SpecialInstructions, AmountPrompts
  <2>6. CASE AskAddress
    BY <2>6 DEF AskAddress, Served, history, ControlInv, OneTransactionAtATime,
      PlaceIsEarned, LockedIsQuiet, QuestionIsOnDisplay, SpecialInv, RoundBefore,
      StepOf, Round, TxInstructions, SpecialInstructions, AmountPrompts
  <2>7. CASE ViewKeyRemembered
    BY <2>7 DEF ViewKeyRemembered, Served, history, ControlInv, OneTransactionAtATime,
      PlaceIsEarned, LockedIsQuiet, QuestionIsOnDisplay, SpecialInv, RoundBefore,
      StepOf, Round, TxInstructions, SpecialInstructions, AmountPrompts
  <2>8. ASSUME NEW mode \in {"REAL", "FAKE"}, SetSignatureMode(mode) PROVE ControlInv'
    BY <2>8 DEF SetSignatureMode, ServedWithPin, history, Served, ControlInv,
      OneTransactionAtATime, PlaceIsEarned, LockedIsQuiet, QuestionIsOnDisplay,
      SpecialInv, RoundBefore, StepOf, Round, TxInstructions, SpecialInstructions,
      AmountPrompts
  <2>9. CASE SetSignatureModeFails
    BY <2>9 DEF SetSignatureModeFails, ServedWithPin, Thrown, LockedAndThrown, Served,
      ResetTx, ControlInv, OneTransactionAtATime, PlaceIsEarned, LockedIsQuiet,
      QuestionIsOnDisplay, SpecialInv, RoundBefore, StepOf, Round, TxInstructions,
      SpecialInstructions, AmountPrompts
  <2> QED BY <1>1, <2>1, <2>2, <2>3, <2>4, <2>5, <2>6, <2>7, <2>8, <2>9 DEF OtherCommand
<1>2. CASE BuildCommand
  <2>1. ASSUME NEW t \in TxTypes, OpenTx(t) PROVE ControlInv'
    BY <2>1 DEF OpenTx, ServedWithPin, Answered, At, Served, ControlInv,
      OneTransactionAtATime, PlaceIsEarned, LockedIsQuiet, QuestionIsOnDisplay,
      SpecialInv, RoundBefore, StepOf, Round, TxInstructions, SpecialInstructions,
      AmountPrompts
  <2>2. CASE CloseTx
    BY <2>2 DEF CloseTx, Served, Answered, Idle, ResetTx, At, ControlInv,
      OneTransactionAtATime, PlaceIsEarned, LockedIsQuiet, QuestionIsOnDisplay,
      SpecialInv, RoundBefore, StepOf, Round, TxInstructions, SpecialInstructions,
      AmountPrompts
  <2>3. CASE EncryptPaymentId
    BY <2>3 DEF EncryptPaymentId, Served, Answered, At, history, ControlInv,
      OneTransactionAtATime, PlaceIsEarned, LockedIsQuiet, QuestionIsOnDisplay,
      SpecialInv, RoundBefore, StepOf, Round, TxInstructions, SpecialInstructions,
      AmountPrompts
  <2>4. CASE GenTxoutKeys
    BY <2>4 DEF GenTxoutKeys, ServedInTx, Answered, At, history, ServedWithPin, Served,
      ControlInv, OneTransactionAtATime, PlaceIsEarned, LockedIsQuiet,
      QuestionIsOnDisplay, SpecialInv, RoundBefore, StepOf, Round, TxInstructions,
      SpecialInstructions, AmountPrompts
  <2>5. ASSUME NEW b \in P2s, NEW ask \in BOOLEAN, PrefixInit(b, ask) PROVE ControlInv'
    <3>2. PlaceIsEarned'
      BY <2>5 DEF PrefixInit, Asked, Answered, At, PlaceIsEarned, RoundBefore
    <3>3. OneTransactionAtATime' /\ LockedIsQuiet' /\ QuestionIsOnDisplay' /\ SpecialInv'
      <4>1. CASE ask
        BY <2>5, <4>1
        DEF PrefixInit, ServedInTx, ServedWithPin, Served, Asked, At,
          ControlInv, OneTransactionAtATime, LockedIsQuiet, QuestionIsOnDisplay,
          SpecialInv, TxInstructions, SpecialInstructions
      <4>2. CASE ~ask
        BY <2>5, <4>2
        DEF PrefixInit, ServedInTx, ServedWithPin, Served, Answered, At,
          ControlInv, OneTransactionAtATime, LockedIsQuiet, QuestionIsOnDisplay,
          SpecialInv, TxInstructions, SpecialInstructions
      <4> QED BY <4>1, <4>2
    <3> QED BY <3>2, <3>3 DEF ControlInv
  <2>6. ASSUME NEW b \in P2s, PrefixUpdate(b) PROVE ControlInv'
    BY <2>6 DEF PrefixUpdate, ServedInTx, PrefixIn, Answered, At, ServedWithPin, Served,
      ControlInv, OneTransactionAtATime, PlaceIsEarned, LockedIsQuiet,
      QuestionIsOnDisplay, SpecialInv, RoundBefore, StepOf, Round, TxInstructions,
      SpecialInstructions, AmountPrompts
  <2>7. CASE PrefixThrows
    BY <2>7 DEF PrefixThrows, ServedInTx, PrefixStarts, Thrown, At, ServedWithPin,
      ResetTx, Served, ControlInv, OneTransactionAtATime, PlaceIsEarned, LockedIsQuiet,
      QuestionIsOnDisplay, SpecialInv, RoundBefore, StepOf, Round, TxInstructions,
      SpecialInstructions, AmountPrompts
  <2>8. CASE GenCommitmentMask
    BY <2>8 DEF GenCommitmentMask, ServedInTx, Answered, At, history, ServedWithPin,
      Served, ControlInv, OneTransactionAtATime, PlaceIsEarned, LockedIsQuiet,
      QuestionIsOnDisplay, SpecialInv, RoundBefore, StepOf, Round, TxInstructions,
      SpecialInstructions, AmountPrompts
  <2>9. CASE Blind
    BY <2>9 DEF Blind, ServedInTx, Answered, At, history, ServedWithPin, Served,
      ControlInv, OneTransactionAtATime, PlaceIsEarned, LockedIsQuiet,
      QuestionIsOnDisplay, SpecialInv, RoundBefore, StepOf, Round, TxInstructions,
      SpecialInstructions, AmountPrompts
  <2> QED BY <1>2, <2>1, <2>2, <2>3, <2>4, <2>5, <2>6, <2>7, <2>8, <2>9 DEF BuildCommand
<1>3. CASE SignCommand
  <2>1. ASSUME NEW b \in P2s, NEW ask \in BOOLEAN, ValidateInit(b, ask) PROVE
    ControlInv'
    <3>1. b > 1 => {"init"} \subseteq steps
      BY <2>1
      DEF ValidateInit, ServedInTx, ServedWithPin, Served, ValidateFollows, ValidateStarts,
        TypeOK, TxStates, P2s, ControlInv, PlaceIsEarned, RoundBefore, StepOf, Round
    <3>2. PlaceIsEarned'
      <4>1. CASE ask
        BY <2>1, <3>1, <4>1
        DEF ValidateInit, Asked, At, PlaceIsEarned, RoundBefore, StepOf
      <4>2. CASE ~ask
        BY <2>1, <3>1, <4>2
        DEF ValidateInit, Answered, At, PlaceIsEarned, RoundBefore, StepOf
      <4> QED BY <4>1, <4>2
    <3>3. OneTransactionAtATime' /\ LockedIsQuiet' /\ QuestionIsOnDisplay' /\ SpecialInv'
      <4>1. CASE ask
        BY <2>1, <4>1
        DEF ValidateInit, ServedInTx, ServedWithPin, Served, Asked, At,
          ControlInv, OneTransactionAtATime, LockedIsQuiet, QuestionIsOnDisplay,
          SpecialInv, TxInstructions, SpecialInstructions
      <4>2. CASE ~ask
        BY <2>1, <4>2
        DEF ValidateInit, ServedInTx, ServedWithPin, Served, Answered, At,
          ControlInv, OneTransactionAtATime, LockedIsQuiet, QuestionIsOnDisplay,
          SpecialInv, TxInstructions, SpecialInstructions
      <4> QED BY <4>1, <4>2
    <3> QED BY <3>2, <3>3 DEF ControlInv
  <2>2. ASSUME NEW b \in P2s, NEW ask \in {"none", "output", "change"},
    ValidateUpdate(b, ask) PROVE ControlInv'
    <3>1. {"init"} \subseteq steps
      BY <2>2
      DEF ValidateUpdate, ServedInTx, ServedWithPin, Served, ValidateFollows, ValidateStarts,
        TypeOK, TxStates, P2s, ControlInv, PlaceIsEarned, RoundBefore, StepOf, Round
    <3>2. PlaceIsEarned'
      BY <2>2, <3>1
      DEF ValidateUpdate, Answered, Asked, At, PlaceIsEarned, RoundBefore, StepOf
    <3>3. OneTransactionAtATime' /\ LockedIsQuiet' /\ QuestionIsOnDisplay' /\ SpecialInv'
      <4>1. CASE ask # "none"
        BY <2>2, <4>1
        DEF ValidateUpdate, ServedInTx, ServedWithPin, Served, Asked, At,
          ControlInv, OneTransactionAtATime, LockedIsQuiet, QuestionIsOnDisplay,
          SpecialInv, TxInstructions, SpecialInstructions
      <4>2. CASE ask = "none"
        BY <2>2, <4>2
        DEF ValidateUpdate, ServedInTx, ServedWithPin, Served, Answered, At,
          ControlInv, OneTransactionAtATime, LockedIsQuiet, QuestionIsOnDisplay,
          SpecialInv, TxInstructions, SpecialInstructions
      <4> QED BY <4>1, <4>2
    <3> QED BY <3>2, <3>3 DEF ControlInv
  <2>3. ASSUME NEW b \in P2s, ValidateFinalize(b) PROVE ControlInv'
    <3>1. Round \subseteq steps'
      BY <2>3
      DEF ValidateFinalize, ServedInTx, ServedWithPin, Served, ValidateFollows, ValidateStarts,
        TypeOK, TxStates, P2s, ControlInv, PlaceIsEarned, RoundBefore, StepOf, Round
    <3>2. PlaceIsEarned'
      BY <2>3, <3>1
      DEF ValidateFinalize, Answered, At, PlaceIsEarned, RoundBefore, Round
    <3>3. OneTransactionAtATime' /\ LockedIsQuiet' /\ QuestionIsOnDisplay' /\ SpecialInv'
      BY <2>3
      DEF ValidateFinalize, ServedInTx, ServedWithPin, Served, Answered, At,
        ControlInv, OneTransactionAtATime, LockedIsQuiet, QuestionIsOnDisplay,
        SpecialInv, TxInstructions, SpecialInstructions
    <3> QED BY <3>2, <3>3 DEF ControlInv
  <2>4. CASE ValidateThrows
    BY <2>4 DEF ValidateThrows, ServedInTx, ValidateStarts, Thrown, At, ServedWithPin,
      ResetTx, Served, ControlInv, OneTransactionAtATime, PlaceIsEarned, LockedIsQuiet,
      QuestionIsOnDisplay, SpecialInv, RoundBefore, StepOf, Round, TxInstructions,
      SpecialInstructions, AmountPrompts
  <2>5. CASE ClsagPrepare
    BY <2>5 DEF ClsagPrepare, ServedInTx, PrepareAllowed, Answered, At, ServedWithPin,
      Served, ControlInv, OneTransactionAtATime, PlaceIsEarned, LockedIsQuiet,
      QuestionIsOnDisplay, SpecialInv, RoundBefore, StepOf, Round, TxInstructions,
      SpecialInstructions, AmountPrompts
  <2>6. CASE ClsagPrepareFails
    BY <2>6 DEF ClsagPrepareFails, ServedInTx, PrepareAllowed, Thrown, LockedAndThrown,
      ServedWithPin, At, ResetTx, Served, ControlInv, OneTransactionAtATime,
      PlaceIsEarned, LockedIsQuiet, QuestionIsOnDisplay, SpecialInv, RoundBefore,
      StepOf, Round, TxInstructions, SpecialInstructions, AmountPrompts
  <2>7. ASSUME NEW b \in P2s, ClsagHash(b) PROVE ControlInv'
    BY <2>7 DEF ClsagHash, ServedInTx, At, Answered, history, ServedWithPin, Served,
      ControlInv, OneTransactionAtATime, PlaceIsEarned, LockedIsQuiet,
      QuestionIsOnDisplay, SpecialInv, RoundBefore, StepOf, Round, TxInstructions,
      SpecialInstructions, AmountPrompts
  <2>8. ASSUME NEW alpha \in 1 .. MaxSign, ClsagSign(alpha) PROVE ControlInv'
    BY <2>8 DEF ClsagSign, ServedInTx, At, Answered, ServedWithPin, Served, ControlInv,
      OneTransactionAtATime, PlaceIsEarned, LockedIsQuiet, QuestionIsOnDisplay,
      SpecialInv, RoundBefore, StepOf, Round, TxInstructions, SpecialInstructions,
      AmountPrompts
  <2>9. CASE ClsagSignFake
    BY <2>9 DEF ClsagSignFake, ServedInTx, At, Answered, history, ServedWithPin, Served,
      ControlInv, OneTransactionAtATime, PlaceIsEarned, LockedIsQuiet,
      QuestionIsOnDisplay, SpecialInv, RoundBefore, StepOf, Round, TxInstructions,
      SpecialInstructions, AmountPrompts
  <2> QED BY <1>3, <2>1, <2>2, <2>3, <2>4, <2>5, <2>6, <2>7, <2>8, <2>9 DEF SignCommand
<1>4. CASE SpecialCommand
  <2>1. ASSUME NEW ins \in SpecialInstructions, AskSpecial(ins) PROVE ControlInv'
    BY <2>1 DEF AskSpecial, Served, Asked, At, history, ControlInv,
      OneTransactionAtATime, PlaceIsEarned, LockedIsQuiet, QuestionIsOnDisplay,
      SpecialInv, RoundBefore, StepOf, Round, TxInstructions, SpecialInstructions,
      AmountPrompts
  <2>2. CASE UnlockSign
    BY <2>2 DEF UnlockSign, Served, At, Answered, history, ControlInv,
      OneTransactionAtATime, PlaceIsEarned, LockedIsQuiet, QuestionIsOnDisplay,
      SpecialInv, RoundBefore, StepOf, Round, TxInstructions, SpecialInstructions,
      AmountPrompts
  <2>3. ASSUME NEW b \in P2s, LnsHash(b) PROVE ControlInv'
    BY <2>3 DEF LnsHash, Served, Answered, At, history, ControlInv,
      OneTransactionAtATime, PlaceIsEarned, LockedIsQuiet, QuestionIsOnDisplay,
      SpecialInv, RoundBefore, StepOf, Round, TxInstructions, SpecialInstructions,
      AmountPrompts
  <2>4. CASE LnsSign
    BY <2>4 DEF LnsSign, Served, At, Answered, history, ControlInv,
      OneTransactionAtATime, PlaceIsEarned, LockedIsQuiet, QuestionIsOnDisplay,
      SpecialInv, RoundBefore, StepOf, Round, TxInstructions, SpecialInstructions,
      AmountPrompts
  <2> QED BY <1>4, <2>1, <2>2, <2>3, <2>4 DEF SpecialCommand
<1>5. CASE Answer
  <2>1. CASE AcceptAmount
    BY <2>1 DEF AcceptAmount, ControlInv, OneTransactionAtATime, PlaceIsEarned,
      LockedIsQuiet, QuestionIsOnDisplay, SpecialInv, RoundBefore, StepOf, Round,
      TxInstructions, SpecialInstructions, AmountPrompts
  <2>2. CASE RejectAmount
    BY <2>2 DEF RejectAmount, ResetTx, ControlInv, OneTransactionAtATime, PlaceIsEarned,
      LockedIsQuiet, QuestionIsOnDisplay, SpecialInv, RoundBefore, StepOf, Round,
      TxInstructions, SpecialInstructions, AmountPrompts
  <2>3. CASE AcceptSpecial
    BY <2>3 DEF AcceptSpecial, history, ControlInv, OneTransactionAtATime,
      PlaceIsEarned, LockedIsQuiet, QuestionIsOnDisplay, SpecialInv, RoundBefore,
      StepOf, Round, TxInstructions, SpecialInstructions, AmountPrompts
  <2>4. CASE RejectSpecial
    BY <2>4 DEF RejectSpecial, Idle, history, At, ControlInv, OneTransactionAtATime,
      PlaceIsEarned, LockedIsQuiet, QuestionIsOnDisplay, SpecialInv, RoundBefore,
      StepOf, Round, TxInstructions, SpecialInstructions, AmountPrompts
  <2>5. CASE AnswerOnMain
    BY <2>5 DEF AnswerOnMain, history, ControlInv, OneTransactionAtATime, PlaceIsEarned,
      LockedIsQuiet, QuestionIsOnDisplay, SpecialInv, RoundBefore, StepOf, Round,
      TxInstructions, SpecialInstructions, AmountPrompts
  <2> QED BY <1>5, <2>1, <2>2, <2>3, <2>4, <2>5 DEF Answer
<1>6. CASE Menu
  <2>1. CASE InfoButton
    BY <2>1 DEF InfoButton, history, ControlInv, OneTransactionAtATime, PlaceIsEarned,
      LockedIsQuiet, QuestionIsOnDisplay, SpecialInv, RoundBefore, StepOf, Round,
      TxInstructions, SpecialInstructions, AmountPrompts
  <2>2. ASSUME NEW from \in {"main", "settings"}, NEW to \in {"main", "address",
    "settings"}, Browse(from, to) PROVE ControlInv'
    BY <2>2 DEF Browse, history, ControlInv, OneTransactionAtATime, PlaceIsEarned,
      LockedIsQuiet, QuestionIsOnDisplay, SpecialInv, RoundBefore, StepOf, Round,
      TxInstructions, SpecialInstructions, AmountPrompts
  <2>3. CASE ChooseSetting
    BY <2>3 DEF ChooseSetting, MoneroInit, Idle, At, ControlInv, OneTransactionAtATime,
      PlaceIsEarned, LockedIsQuiet, QuestionIsOnDisplay, SpecialInv, RoundBefore,
      StepOf, Round, TxInstructions, SpecialInstructions, AmountPrompts
  <2> QED BY <1>6, <2>1, <2>2, <2>3 DEF Menu
<1>7. CASE System
  <2>1. CASE EnterPin
    BY <2>1 DEF EnterPin, history, ControlInv, OneTransactionAtATime, PlaceIsEarned,
      LockedIsQuiet, QuestionIsOnDisplay, SpecialInv, RoundBefore, StepOf, Round,
      TxInstructions, SpecialInstructions, AmountPrompts
  <2>2. CASE PinTimeout
    BY <2>2 DEF PinTimeout, history, ControlInv, OneTransactionAtATime, PlaceIsEarned,
      LockedIsQuiet, QuestionIsOnDisplay, SpecialInv, RoundBefore, StepOf, Round,
      TxInstructions, SpecialInstructions, AmountPrompts
  <2>3. CASE Restart
    BY <2>3 DEF Restart, MoneroInit, Idle, At, ControlInv, OneTransactionAtATime,
      PlaceIsEarned, LockedIsQuiet, QuestionIsOnDisplay, SpecialInv, RoundBefore,
      StepOf, Round, TxInstructions, SpecialInstructions, AmountPrompts
  <2> QED BY <1>7, <2>1, <2>2, <2>3 DEF System
<1>8. CASE UNCHANGED vars
  BY <1>8 DEF vars, ControlInv, OneTransactionAtATime, PlaceIsEarned, LockedIsQuiet,
    QuestionIsOnDisplay, SpecialInv, RoundBefore
<1> QED BY <1>1, <1>2, <1>3, <1>4, <1>5, <1>6, <1>7, <1>8 DEF Next

-----------------------------------------------------------------------------
(* Nonces. *)

\* What leaves the nonces alone keeps NonceInv, if it stays where it is or
\* leaves the place between PREPARE and SIGN; so does what forgets them.
LEMMA NonceFrame ==
    NonceInv /\ UNCHANGED <<tx_state, tx_sign_cnt, alphas, signed>> => NonceInv'
  BY DEF NonceInv, NonceSignsOnce

LEMMA NonceMoves ==
    ASSUME NonceInv, UNCHANGED <<tx_sign_cnt, alphas, signed>>,
           ~(tx_state'.ins = "CLSAG" /\ tx_state'.p1 \in {1, 2})
    PROVE  NonceInv'
  BY DEF NonceInv, NonceSignsOnce

LEMMA NonceReset == alphas' = {} /\ signed' = <<>> => NonceInv'
  BY DEF NonceInv, NonceSignsOnce

\* The elements of a sequence are in its set.
LEMMA SeqElement ==
    ASSUME NEW S, NEW seq \in Seq(S)
    PROVE  \A i \in 1 .. Len(seq) : seq[i] \in S
  OBVIOUS

\* Every step keeps NonceInv.  PREPARE raises the counter above all nonces it
\* ever named; SIGN consumes the nonce of the counter and leaves the place.
LEMMA NonceStep == TypeOK /\ NonceInv /\ [Next]_vars => NonceInv'
<1> SUFFICES ASSUME TypeOK, NonceInv, [Next]_vars PROVE NonceInv'
  OBVIOUS
<1>1. CASE OtherCommand
  <2>1. CASE LowLevelCommand
    BY <2>1, NonceFrame DEF LowLevelCommand, history
  <2>2. CASE CommandThrows
    BY <2>2, NonceReset DEF CommandThrows, Thrown, ResetTx
  <2>3. CASE CommandLocks
    BY <2>3, NonceReset DEF CommandLocks, LockedAndThrown, ResetTx
  <2>4. CASE ResetCommand
    BY <2>4, NonceReset DEF ResetCommand, MoneroInit
  <2>5. CASE AskViewKey
    BY <2>5, NonceFrame DEF AskViewKey, Asked, history
  <2>6. CASE AskAddress
    BY <2>6, NonceFrame DEF AskAddress, history
  <2>7. CASE ViewKeyRemembered
    BY <2>7, NonceFrame DEF ViewKeyRemembered, history
  <2>8. ASSUME NEW mode \in {"REAL", "FAKE"}, SetSignatureMode(mode) PROVE NonceInv'
    BY <2>8, NonceFrame DEF SetSignatureMode, history
  <2>9. CASE SetSignatureModeFails
    BY <2>9, NonceReset DEF SetSignatureModeFails, Thrown, LockedAndThrown, ResetTx
  <2> QED BY <1>1, <2>1, <2>2, <2>3, <2>4, <2>5, <2>6, <2>7, <2>8, <2>9 DEF OtherCommand
<1>2. CASE BuildCommand
  <2>1. ASSUME NEW t \in TxTypes, OpenTx(t) PROVE NonceInv'
    BY <2>1, NonceReset DEF OpenTx
  <2>2. CASE CloseTx
    BY <2>2, NonceReset DEF CloseTx, ResetTx
  <2>3. CASE EncryptPaymentId
    BY <2>3, NonceMoves DEF EncryptPaymentId, Answered, At, history
  <2>4. CASE GenTxoutKeys
    BY <2>4, NonceMoves DEF GenTxoutKeys, Answered, At, history
  <2>5. ASSUME NEW b \in P2s, NEW ask \in BOOLEAN, PrefixInit(b, ask) PROVE NonceInv'
    BY <2>5, NonceMoves DEF PrefixInit, Asked, At, Answered
  <2>6. ASSUME NEW b \in P2s, PrefixUpdate(b) PROVE NonceInv'
    BY <2>6, NonceMoves DEF PrefixUpdate, Answered, At
  <2>7. CASE PrefixThrows
    BY <2>7, NonceReset DEF PrefixThrows, Thrown, ResetTx
  <2>8. CASE GenCommitmentMask
    BY <2>8, NonceMoves DEF GenCommitmentMask, Answered, At, history
  <2>9. CASE Blind
    BY <2>9, NonceMoves DEF Blind, Answered, At, history
  <2> QED BY <1>2, <2>1, <2>2, <2>3, <2>4, <2>5, <2>6, <2>7, <2>8, <2>9 DEF BuildCommand
<1>3. CASE SignCommand
  <2>1. ASSUME NEW b \in P2s, NEW ask \in BOOLEAN, ValidateInit(b, ask) PROVE NonceInv'
    BY <2>1, NonceMoves DEF ValidateInit, Asked, At, Answered
  <2>2. ASSUME NEW b \in P2s, NEW ask \in {"none", "output", "change"},
    ValidateUpdate(b, ask) PROVE NonceInv'
    BY <2>2, NonceMoves DEF ValidateUpdate, Asked, At, Answered
  <2>3. ASSUME NEW b \in P2s, ValidateFinalize(b) PROVE NonceInv'
    BY <2>3, NonceMoves DEF ValidateFinalize, Answered, At
  <2>4. CASE ValidateThrows
    BY <2>4, NonceReset DEF ValidateThrows, Thrown, ResetTx
  <2>5. CASE ClsagPrepare
    <3>1. tx_sign_cnt' = tx_sign_cnt + 1 /\ UNCHANGED signed
      BY <2>5 DEF ClsagPrepare, NextSignCnt
    <3>2. alphas' = alphas \cup {tx_sign_cnt + 1}
      BY <2>5 DEF ClsagPrepare, NextSignCnt
    <3>3. alphas' \subseteq 1 .. tx_sign_cnt'
      BY <3>1, <3>2 DEF NonceInv, TypeOK
    <3>4. \A i \in 1 .. Len(signed) : signed[i] \in Nat /\ signed[i] < tx_sign_cnt'
      <4>0. signed \in Seq(1 .. MaxSign)
        BY DEF TypeOK
      <4>1. \A i \in 1 .. Len(signed) : signed[i] \in 1 .. MaxSign
        BY <4>0, SeqElement
      <4>2. \A i \in 1 .. Len(signed) : signed[i] <= tx_sign_cnt
        BY DEF NonceInv
      <4>3. tx_sign_cnt \in Nat
        BY MaxSignAssumption DEF TypeOK
      <4> QED
        BY <3>1, <4>1, <4>2, <4>3
    <3>5. NonceSignsOnce'
      BY <3>1 DEF NonceInv, NonceSignsOnce
    <3> QED
      BY <3>1, <3>3, <3>4, <3>5 DEF NonceInv, TypeOK
  <2>6. CASE ClsagPrepareFails
    BY <2>6, NonceReset DEF ClsagPrepareFails, Thrown, LockedAndThrown, ResetTx
  <2>7. ASSUME NEW b \in P2s, ClsagHash(b) PROVE NonceInv'
    <3>1. tx_state.ins = "CLSAG" /\ tx_state.p1 \in {1, 2}
      BY <2>7 DEF ClsagHash, At
    <3>2. UNCHANGED <<tx_sign_cnt, alphas, signed>>
      BY <2>7 DEF ClsagHash, history
    <3> QED
      BY <3>1, <3>2 DEF NonceInv, NonceSignsOnce
  <2>8. ASSUME NEW alpha \in 1 .. MaxSign, ClsagSign(alpha) PROVE NonceInv'
    <3>1. /\ tx_state.ins = "CLSAG" /\ tx_state.p1 = 2
          /\ signed' = Append(signed, tx_sign_cnt)
          /\ UNCHANGED <<tx_sign_cnt, alphas>>
          /\ tx_state'.p1 = 3
      BY <2>8 DEF ClsagSign, Answered, At
    <3>2. /\ Len(signed') = Len(signed) + 1
          /\ Len(signed) \in Nat
          /\ \A i \in 1 .. Len(signed) : signed'[i] = signed[i]
          /\ signed'[Len(signed) + 1] = tx_sign_cnt
      BY <3>1 DEF TypeOK
    <3>3. \A i \in 1 .. Len(signed) : signed[i] # tx_sign_cnt /\ signed[i] <= tx_sign_cnt
      BY <3>1 DEF NonceInv
    <3>4. \A i \in 1 .. Len(signed') : signed'[i] <= tx_sign_cnt
      BY <3>2, <3>3 DEF TypeOK
    <3>5. NonceSignsOnce'
      BY <3>2, <3>3 DEF NonceInv, NonceSignsOnce
    <3> QED
      BY <3>1, <3>4, <3>5 DEF NonceInv
  <2>9. CASE ClsagSignFake
    BY <2>9, NonceMoves DEF ClsagSignFake, At, Answered, history
  <2> QED BY <1>3, <2>1, <2>2, <2>3, <2>4, <2>5, <2>6, <2>7, <2>8, <2>9 DEF SignCommand
<1>4. CASE SpecialCommand
  <2>1. ASSUME NEW ins \in SpecialInstructions, AskSpecial(ins) PROVE NonceInv'
    BY <2>1, NonceMoves DEF AskSpecial, Asked, At, history, SpecialInstructions
  <2>2. CASE UnlockSign
    BY <2>2, NonceMoves DEF UnlockSign, At, Answered, history
  <2>3. ASSUME NEW b \in P2s, LnsHash(b) PROVE NonceInv'
    BY <2>3, NonceMoves DEF LnsHash, Answered, At, history
  <2>4. CASE LnsSign
    BY <2>4, NonceMoves DEF LnsSign, At, Answered, history
  <2> QED BY <1>4, <2>1, <2>2, <2>3, <2>4 DEF SpecialCommand
<1>5. CASE Answer
  <2>1. CASE AcceptAmount
    BY <2>1, NonceFrame DEF AcceptAmount
  <2>2. CASE RejectAmount
    BY <2>2, NonceReset DEF RejectAmount, ResetTx
  <2>3. CASE AcceptSpecial
    BY <2>3, NonceFrame DEF AcceptSpecial, history
  <2>4. CASE RejectSpecial
    BY <2>4, NonceMoves DEF RejectSpecial, Idle, history, At
  <2>5. CASE AnswerOnMain
    BY <2>5, NonceFrame DEF AnswerOnMain, history
  <2> QED BY <1>5, <2>1, <2>2, <2>3, <2>4, <2>5 DEF Answer
<1>6. CASE Menu
  <2>1. CASE InfoButton
    BY <2>1, NonceFrame DEF InfoButton, history
  <2>2. ASSUME NEW from \in {"main", "settings"}, NEW to \in {"main", "address",
    "settings"}, Browse(from, to) PROVE NonceInv'
    BY <2>2, NonceFrame DEF Browse, history
  <2>3. CASE ChooseSetting
    BY <2>3, NonceReset DEF ChooseSetting, MoneroInit
  <2> QED BY <1>6, <2>1, <2>2, <2>3 DEF Menu
<1>7. CASE System
  <2>1. CASE EnterPin
    BY <2>1, NonceFrame DEF EnterPin, history
  <2>2. CASE PinTimeout
    BY <2>2, NonceFrame DEF PinTimeout, history
  <2>3. CASE Restart
    BY <2>3, NonceReset DEF Restart, MoneroInit
  <2> QED BY <1>7, <2>1, <2>2, <2>3 DEF System
<1>8. CASE UNCHANGED vars
  BY <1>8, NonceFrame DEF vars
<1> QED BY <1>1, <1>2, <1>3, <1>4, <1>5, <1>6, <1>7, <1>8 DEF Next

-----------------------------------------------------------------------------
(* The theorems. *)

\* Every variable keeps the type of the field it models, for every counter
\* width and every set of transaction types.
THEOREM TypeCorrect == Spec => []TypeOK
<1> QED BY TypeInit, TypeStep, PTL DEF Spec

\* IInv is an invariant: it holds at power-on and every handler, every answer
\* and every event of the system keeps it.
THEOREM Inductive == Spec => []IInv
<1>1. Init => IInv
  <2>1. Init => ControlInv
    BY DEF Init, Idle, At, ControlInv, OneTransactionAtATime, PlaceIsEarned,
      LockedIsQuiet, QuestionIsOnDisplay, SpecialInv, SpecialInstructions
  <2>2. Init => NonceInv
    BY DEF Init, Idle, At, NonceInv, NonceSignsOnce
  <2> QED BY <2>1, <2>2, TypeInit DEF IInv
<1>2. IInv /\ [Next]_vars => IInv'
  BY TypeStep, ControlStep, NonceStep DEF IInv
<1> QED BY <1>1, <1>2, PTL DEF Spec

\* No sequence of commands, answers, failures and restarts starts a second
\* transaction, or a special signature, inside an open transaction.
THEOREM OneTransaction == Spec => []OneTransactionAtATime
<1>1. IInv => OneTransactionAtATime
  BY DEF IInv, ControlInv
<1> QED BY <1>1, Inductive, PTL

\* The recorded place never runs ahead of what was served and accepted.
THEOREM PlacesAreEarned == Spec => []PlaceIsEarned
<1>1. IInv => PlaceIsEarned
  BY DEF IInv, ControlInv
<1> QED BY <1>1, Inductive, PTL

\* A locked device has no open transaction and no pending question.
THEOREM Locked == Spec => []LockedIsQuiet
<1>1. IInv => LockedIsQuiet
  BY DEF IInv, ControlInv
<1> QED BY <1>1, Inductive, PTL

\* The question a command waits on is the one the display shows.
THEOREM OnDisplay == Spec => []QuestionIsOnDisplay
<1>1. IInv => QuestionIsOnDisplay
  BY DEF IInv, ControlInv
<1> QED BY <1>1, Inductive, PTL

\* A special sequence goes on only with the consent given to it, although
\* tx_special_confirmed is never cleared.
THEOREM SpecialConsent == Spec => []SpecialHasItsOwnConsent
<1>1. IInv => SpecialHasItsOwnConsent
  BY DEF IInv, ControlInv, SpecialInv, SpecialHasItsOwnConsent, SpecialInstructions
<1> QED BY <1>1, Inductive, PTL

\* No nonce signs twice under one hmac_key, whatever the width of the counter.
THEOREM NoncesSignOnce == Spec => []NonceSignsOnce
<1>1. IInv => NonceSignsOnce
  BY DEF IInv, NonceInv
<1> QED BY <1>1, Inductive, PTL

-----------------------------------------------------------------------------
(* Action properties.  Moved says which actions can move the variables the   *)
(* properties are about.                                                      *)

SignStep == \E alpha \in 1 .. MaxSign : ClsagSign(alpha)

Moved ==
    /\ signed' # signed /\ signed' # <<>> => SignStep
    /\ tx_in_progress' /\ tx_sign_cnt' # tx_sign_cnt => ClsagPrepare
    /\ tx_in_progress /\ tx_in_progress' => UNCHANGED <<tx_type, tx_sig_mode>>

\* Each step moves these variables only as Moved says.
LEMMA WhoMoves == OneTransactionAtATime /\ [Next]_vars => Moved
<1> SUFFICES ASSUME OneTransactionAtATime, [Next]_vars PROVE Moved
  OBVIOUS
<1>1. CASE OtherCommand
  <2>1. CASE LowLevelCommand
    BY <2>1 DEF LowLevelCommand, history, Moved, SignStep
  <2>2. CASE CommandThrows
    BY <2>2 DEF CommandThrows, Thrown, ResetTx, Moved, SignStep
  <2>3. CASE CommandLocks
    BY <2>3 DEF CommandLocks, LockedAndThrown, ResetTx, Moved, SignStep
  <2>4. CASE ResetCommand
    BY <2>4 DEF ResetCommand, MoneroInit, Moved, SignStep
  <2>5. CASE AskViewKey
    BY <2>5 DEF AskViewKey, Asked, history, Moved, SignStep
  <2>6. CASE AskAddress
    BY <2>6 DEF AskAddress, history, Moved, SignStep
  <2>7. CASE ViewKeyRemembered
    BY <2>7 DEF ViewKeyRemembered, history, Moved, SignStep
  <2>8. ASSUME NEW mode \in {"REAL", "FAKE"}, SetSignatureMode(mode) PROVE Moved
    BY <2>8 DEF SetSignatureMode, history, Moved, SignStep
  <2>9. CASE SetSignatureModeFails
    BY <2>9 DEF SetSignatureModeFails, Thrown, LockedAndThrown, ResetTx, Moved, SignStep
  <2> QED BY <1>1, <2>1, <2>2, <2>3, <2>4, <2>5, <2>6, <2>7, <2>8, <2>9 DEF OtherCommand
<1>2. CASE BuildCommand
  <2>1. ASSUME NEW t \in TxTypes, OpenTx(t) PROVE Moved
    BY <2>1 DEF OpenTx, Answered, Moved, SignStep, OneTransactionAtATime, TxInstructions
  <2>2. CASE CloseTx
    BY <2>2 DEF CloseTx, Answered, ResetTx, Moved, SignStep
  <2>3. CASE EncryptPaymentId
    BY <2>3 DEF EncryptPaymentId, Answered, history, Moved, SignStep
  <2>4. CASE GenTxoutKeys
    BY <2>4 DEF GenTxoutKeys, Answered, history, Moved, SignStep
  <2>5. ASSUME NEW b \in P2s, NEW ask \in BOOLEAN, PrefixInit(b, ask) PROVE Moved
    BY <2>5 DEF PrefixInit, Asked, Answered, Moved, SignStep
  <2>6. ASSUME NEW b \in P2s, PrefixUpdate(b) PROVE Moved
    BY <2>6 DEF PrefixUpdate, Answered, Moved, SignStep
  <2>7. CASE PrefixThrows
    BY <2>7 DEF PrefixThrows, Thrown, ResetTx, Moved, SignStep
  <2>8. CASE GenCommitmentMask
    BY <2>8 DEF GenCommitmentMask, Answered, history, Moved, SignStep
  <2>9. CASE Blind
    BY <2>9 DEF Blind, Answered, history, Moved, SignStep
  <2> QED BY <1>2, <2>1, <2>2, <2>3, <2>4, <2>5, <2>6, <2>7, <2>8, <2>9 DEF BuildCommand
<1>3. CASE SignCommand
  <2>1. ASSUME NEW b \in P2s, NEW ask \in BOOLEAN, ValidateInit(b, ask) PROVE Moved
    BY <2>1 DEF ValidateInit, Asked, Answered, Moved, SignStep
  <2>2. ASSUME NEW b \in P2s, NEW ask \in {"none", "output", "change"},
    ValidateUpdate(b, ask) PROVE Moved
    BY <2>2 DEF ValidateUpdate, Asked, Answered, Moved, SignStep
  <2>3. ASSUME NEW b \in P2s, ValidateFinalize(b) PROVE Moved
    BY <2>3 DEF ValidateFinalize, Answered, Moved, SignStep
  <2>4. CASE ValidateThrows
    BY <2>4 DEF ValidateThrows, Thrown, ResetTx, Moved, SignStep
  <2>5. CASE ClsagPrepare
    BY <2>5 DEF ClsagPrepare, Answered, Moved, SignStep
  <2>6. CASE ClsagPrepareFails
    BY <2>6 DEF ClsagPrepareFails, Thrown, LockedAndThrown, ResetTx, Moved, SignStep
  <2>7. ASSUME NEW b \in P2s, ClsagHash(b) PROVE Moved
    BY <2>7 DEF ClsagHash, Answered, history, Moved, SignStep
  <2>8. ASSUME NEW alpha \in 1 .. MaxSign, ClsagSign(alpha) PROVE Moved
    BY <2>8 DEF ClsagSign, Answered, Moved, SignStep
  <2>9. CASE ClsagSignFake
    BY <2>9 DEF ClsagSignFake, Answered, history, Moved, SignStep
  <2> QED BY <1>3, <2>1, <2>2, <2>3, <2>4, <2>5, <2>6, <2>7, <2>8, <2>9 DEF SignCommand
<1>4. CASE SpecialCommand
  <2>1. ASSUME NEW ins \in SpecialInstructions, AskSpecial(ins) PROVE Moved
    BY <2>1 DEF AskSpecial, Asked, history, Moved, SignStep
  <2>2. CASE UnlockSign
    BY <2>2 DEF UnlockSign, Answered, history, Moved, SignStep
  <2>3. ASSUME NEW b \in P2s, LnsHash(b) PROVE Moved
    BY <2>3 DEF LnsHash, Answered, history, Moved, SignStep
  <2>4. CASE LnsSign
    BY <2>4 DEF LnsSign, Answered, history, Moved, SignStep
  <2> QED BY <1>4, <2>1, <2>2, <2>3, <2>4 DEF SpecialCommand
<1>5. CASE Answer
  <2>1. CASE AcceptAmount
    BY <2>1 DEF AcceptAmount, Moved, SignStep
  <2>2. CASE RejectAmount
    BY <2>2 DEF RejectAmount, ResetTx, Moved, SignStep
  <2>3. CASE AcceptSpecial
    BY <2>3 DEF AcceptSpecial, history, Moved, SignStep
  <2>4. CASE RejectSpecial
    BY <2>4 DEF RejectSpecial, history, Moved, SignStep
  <2>5. CASE AnswerOnMain
    BY <2>5 DEF AnswerOnMain, history, Moved, SignStep
  <2> QED BY <1>5, <2>1, <2>2, <2>3, <2>4, <2>5 DEF Answer
<1>6. CASE Menu
  <2>1. CASE InfoButton
    BY <2>1 DEF InfoButton, history, Moved, SignStep
  <2>2. ASSUME NEW from \in {"main", "settings"}, NEW to \in {"main", "address",
    "settings"}, Browse(from, to) PROVE Moved
    BY <2>2 DEF Browse, history, Moved, SignStep
  <2>3. CASE ChooseSetting
    BY <2>3 DEF ChooseSetting, MoneroInit, Moved, SignStep
  <2> QED BY <1>6, <2>1, <2>2, <2>3 DEF Menu
<1>7. CASE System
  <2>1. CASE EnterPin
    BY <2>1 DEF EnterPin, history, Moved, SignStep
  <2>2. CASE PinTimeout
    BY <2>2 DEF PinTimeout, history, Moved, SignStep
  <2>3. CASE Restart
    BY <2>3 DEF Restart, MoneroInit, Moved, SignStep
  <2> QED BY <1>7, <2>1, <2>2, <2>3 DEF System
<1>8. CASE UNCHANGED vars
  BY <1>8 DEF vars, Moved
<1> QED BY <1>1, <1>2, <1>3, <1>4, <1>5, <1>6, <1>7, <1>8 DEF Next

\* A ring signature is made only after every phase of VALIDATE was served and
\* every question of it accepted in this transaction.
THEOREM SignsAccepted == Spec => SignsOnlyAccepted
<1>1. ASSUME IInv, [Next]_vars, signed' # signed, signed' # <<>>
      PROVE  Round \subseteq steps /\ prompt = "none"
  <2>1. PICK alpha \in 1 .. MaxSign : ClsagSign(alpha)
    BY <1>1, WhoMoves DEF IInv, ControlInv, Moved, SignStep
  <2>2. prompt = "none" /\ tx_in_progress /\ tx_state.ins = "CLSAG"
    BY <2>1 DEF ClsagSign, ServedInTx, ServedWithPin, Served, At
  <2> QED
    BY <1>1, <2>2 DEF IInv, ControlInv, PlaceIsEarned, RoundBefore, StepOf
<1>2. IInv /\ [Next]_vars =>
        [signed' # signed /\ signed' # <<>> => Round \subseteq steps /\ prompt = "none"]_vars
  BY <1>1
<1> QED BY <1>2, Inductive, PTL DEF Spec, SignsOnlyAccepted

\* PREPARE never names a nonce by a counter value that already names one sealed
\* under the same hmac_key, also where the counter wraps.
THEOREM NoncesAreFresh == Spec => NonceIsFresh
<1>1. ASSUME IInv, [Next]_vars, tx_in_progress', tx_sign_cnt' # tx_sign_cnt
      PROVE  tx_sign_cnt' \notin alphas
  <2>1. ClsagPrepare
    BY <1>1, WhoMoves DEF IInv, ControlInv, Moved
  <2>2. tx_sign_cnt' = tx_sign_cnt + 1
    BY <2>1 DEF ClsagPrepare, NextSignCnt
  <2>3. alphas \subseteq 1 .. tx_sign_cnt /\ tx_sign_cnt \in Nat
    BY <1>1, MaxSignAssumption DEF IInv, NonceInv, TypeOK
  <2> QED BY <2>2, <2>3
<1>2. IInv /\ [Next]_vars =>
        [tx_in_progress' /\ tx_sign_cnt' # tx_sign_cnt => tx_sign_cnt' \notin alphas]_vars
  BY <1>1
<1> QED BY <1>2, Inductive, PTL DEF Spec, NonceIsFresh

\* Neither the type nor the signature mode of an open transaction changes.
THEOREM TransactionsAreFixed == Spec => TransactionIsFixed
<1>1. IInv /\ [Next]_vars =>
        [tx_in_progress /\ tx_in_progress' =>
            tx_type' = tx_type /\ tx_sig_mode' = tx_sig_mode]_vars
  BY WhoMoves DEF IInv, ControlInv, Moved
<1> QED BY <1>1, Inductive, PTL DEF Spec, TransactionIsFixed
=============================================================================
