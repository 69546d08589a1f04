------------------------- MODULE OxenSessionProofs -------------------------
(***************************************************************************)
(* The proof that the dispatcher implements SigningSession, for every value *)
(* of the constants: each action is one step of the session or leaves it    *)
(* alone.  SessionInv is what the mapping needs besides IInv.               *)
(***************************************************************************)
EXTENDS OxenSession, OxenDispatchProofs

\* Outside a transaction nothing of an earlier one is left, and no question
\* about one is open.
SessionInv ==
    /\ ~tx_in_progress => steps = {} /\ alphas = {} /\ signed = <<>>
    /\ prompt \in AmountPrompts => tx_in_progress

\* A step that keeps SessionInv and is one of the session, or none.
SessionStep == SessionInv' /\ (Session!Next \/ UNCHANGED Session!vars)

\* What leaves the transaction and its history alone, and puts no question
\* about a phase, is no step of the session.
LEMMA Stutters ==
    ASSUME SessionInv, UNCHANGED <<tx_in_progress, steps, alphas, signed>>,
           prompt' = prompt \/ (prompt \notin AmountPrompts /\ prompt' \notin AmountPrompts)
    PROVE  SessionStep
<1>1. StepOf(prompt)' = StepOf(prompt)
  <2>1. CASE prompt' = prompt
    BY <2>1 DEF StepOf
  <2>2. CASE prompt \notin AmountPrompts /\ prompt' \notin AmountPrompts
    BY <2>2 DEF StepOf, AmountPrompts
  <2> QED BY <2>1, <2>2
<1>2. UNCHANGED Session!vars
  BY <1>1 DEF Session!vars, Consumed
<1>3. SessionInv'
  BY DEF SessionInv
<1> QED BY <1>2, <1>3 DEF SessionStep

\* What clears the transaction and leaves no question ends the session.
LEMMA Ends ==
    ASSUME ~tx_in_progress', steps' = {}, alphas' = {}, signed' = <<>>,
           prompt' \notin AmountPrompts, tx_in_progress' \in BOOLEAN
    PROVE  SessionStep
<1>1. StepOf(prompt)' = {}
  BY DEF StepOf, AmountPrompts
<1>2. Consumed(signed)' = {}
  BY DEF Consumed
<1>3. Session!End
  BY <1>1, <1>2 DEF Session!End
<1>4. SessionInv'
  BY DEF SessionInv
<1> QED BY <1>3, <1>4 DEF SessionStep, Session!Next

\* OPEN_TX opens the session; nothing is left of an earlier one.
LEMMA Opens ==
    ASSUME TypeOK, OneTransactionAtATime, SessionInv, NEW t \in TxTypes, OpenTx(t)
    PROVE  SessionStep
<1>1. prompt = "none" /\ prompt' = "none" /\ ~tx_in_progress /\ tx_in_progress'
  BY DEF OpenTx, ServedWithPin, Served, Answered, OneTransactionAtATime, TxInstructions, TypeOK
<1>2. UNCHANGED <<steps, alphas, signed>>
  BY <1>1 DEF OpenTx, SessionInv
<1>3. Session!Open
  BY <1>1, <1>2 DEF Session!Open, StepOf, Consumed
<1>4. SessionInv'
  BY <1>1 DEF SessionInv, AmountPrompts
<1> QED BY <1>3, <1>4 DEF SessionStep, Session!Next

\* The prefix is no phase of the session, and neither is its timelock.
LEMMA PrefixMoves ==
    ASSUME TypeOK, SessionInv, tx_in_progress, UNCHANGED <<tx_in_progress, alphas, signed>>,
           steps' \cap Round = steps \cap Round, prompt = "none", prompt' \in {"none", "timelock"}
    PROVE  SessionStep
<1>1. StepOf(prompt)' = StepOf(prompt)
  BY DEF StepOf
<1>2. UNCHANGED Session!vars
  BY <1>1 DEF Session!vars, Consumed
<1>3. SessionInv'
  BY DEF SessionInv
<1> QED BY <1>2, <1>3 DEF SessionStep

LEMMA PrefixStep ==
    ASSUME TypeOK, SessionInv, NEW b \in P2s,
           PrefixUpdate(b) \/ \E ask \in BOOLEAN : PrefixInit(b, ask)
    PROVE  SessionStep
<1>1. CASE PrefixUpdate(b)
  BY <1>1, PrefixMoves DEF PrefixUpdate, ServedInTx, ServedWithPin, Served, Answered, Round
<1>2. ASSUME NEW ask \in BOOLEAN, PrefixInit(b, ask) PROVE SessionStep
  BY <1>2, PrefixMoves
  DEF PrefixInit, ServedInTx, ServedWithPin, Served, Answered, Asked, Round
<1> QED BY <1>1, <1>2

\* The first piece of VALIDATE begins a round; a later one of the same phase
\* is no step.
LEMMA Begins ==
    ASSUME TypeOK, SessionInv, NEW b \in P2s, NEW ask \in BOOLEAN, ValidateInit(b, ask)
    PROVE  SessionStep
<1>1. prompt = "none" /\ tx_in_progress /\ UNCHANGED <<tx_in_progress, alphas, signed>>
  BY DEF ValidateInit, ServedInTx, ServedWithPin, Served
<1>2. SessionInv'
  BY <1>1 DEF SessionInv
<1>3. CASE ask
  <2>1. b = 1 /\ prompt' = "fee" /\ steps' \cap Round = {}
    BY <1>3 DEF ValidateInit, Asked
  <2>2. Session!Begin(TRUE)
    BY <1>1, <2>1 DEF Session!Begin, Session!Ready, StepOf, Consumed
  <2> QED BY <1>2, <2>2 DEF SessionStep, Session!Next
<1>4. CASE ~ask /\ b > 1
  <2>1. prompt' = prompt /\ steps' = steps
    BY <1>4 DEF ValidateInit, Answered
  <2> QED BY <1>1, <2>1, Stutters
<1>5. CASE ~ask /\ ~(b > 1)
  <2>1. prompt' = "none" /\ steps' \cap Round = {"init"}
    BY <1>1, <1>5 DEF ValidateInit, Answered, Round
  <2>2. Session!Begin(FALSE)
    BY <1>1, <2>1 DEF Session!Begin, Session!Ready, StepOf, Consumed
  <2> QED BY <1>2, <2>2 DEF SessionStep, Session!Next
<1> QED BY <1>3, <1>4, <1>5

\* A destination is served only where the fee was agreed to.
LEMMA Destinations ==
    ASSUME TypeOK, SessionInv, PlaceIsEarned, NEW b \in P2s,
           NEW ask \in {"none", "output", "change"}, ValidateUpdate(b, ask)
    PROVE  SessionStep
<1>1. /\ prompt = "none" /\ tx_in_progress /\ UNCHANGED <<tx_in_progress, alphas, signed>>
      /\ tx_state.ins = "VALIDATE" /\ tx_state.p1 \in {1, 2}
  BY DEF ValidateUpdate, ValidateFollows, ServedInTx, ServedWithPin, Served, TypeOK, TxStates
<1>2. SessionInv'
  BY <1>1 DEF SessionInv
<1>3. "init" \in steps \cap Round
  BY <1>1 DEF PlaceIsEarned, RoundBefore, StepOf, Round
<1>4. CASE ask # "none"
  <2>1. prompt' \in {"output", "change"} /\ steps' = steps
    BY <1>4 DEF ValidateUpdate, Asked
  <2>2. Session!Destination(TRUE)
    BY <1>1, <1>3, <2>1 DEF Session!Destination, Session!Ready, StepOf, Consumed
  <2> QED BY <1>2, <2>2 DEF SessionStep, Session!Next
<1>5. CASE ask = "none"
  <2>1. prompt' = "none" /\ steps' \cap Round = (steps \cap Round) \cup {"update"}
    BY <1>1, <1>5 DEF ValidateUpdate, Answered, Round
  <2>2. Session!Destination(FALSE)
    BY <1>1, <1>3, <2>1 DEF Session!Destination, Session!Ready, StepOf, Consumed
  <2> QED BY <1>2, <2>2 DEF SessionStep, Session!Next
<1> QED BY <1>4, <1>5

\* The commitments are served only where fee and destinations were agreed to.
LEMMA Finishes ==
    ASSUME TypeOK, SessionInv, PlaceIsEarned, NEW b \in P2s, ValidateFinalize(b)
    PROVE  SessionStep
<1>1. /\ prompt = "none" /\ prompt' = "none" /\ tx_in_progress
      /\ UNCHANGED <<tx_in_progress, alphas, signed>>
      /\ tx_state.ins = "VALIDATE" /\ tx_state.p1 \in {2, 3}
  BY DEF ValidateFinalize, ValidateFollows, ServedInTx, ServedWithPin, Served, Answered,
         TypeOK, TxStates
<1>2. {"init", "update"} \subseteq steps
  BY <1>1 DEF PlaceIsEarned, RoundBefore, StepOf, Round
<1>3. steps' \cap Round = Session!Phases /\ {"init", "update"} \subseteq steps \cap Round
  BY <1>2 DEF ValidateFinalize, Round, Session!Phases
<1>4. Session!Finish
  BY <1>1, <1>3 DEF Session!Finish, Session!Ready, StepOf, Consumed
<1>5. SessionInv'
  BY <1>1 DEF SessionInv, AmountPrompts
<1> QED BY <1>4, <1>5 DEF SessionStep, Session!Next

\* A nonce is sealed after a full round, under a counter that names no other.
LEMMA Seals ==
    ASSUME TypeOK, SessionInv, PlaceIsEarned, NonceInv, TypeOK', ClsagPrepare
    PROVE  SessionStep
<1>1. /\ prompt = "none" /\ prompt' = "none" /\ tx_in_progress
      /\ UNCHANGED <<tx_in_progress, steps, signed>>
      /\ \/ tx_state.ins = "VALIDATE" /\ tx_state.p1 = 3
         \/ tx_state.ins = "CLSAG"
  BY DEF ClsagPrepare, PrepareAllowed, ServedInTx, ServedWithPin, Served, Answered, At
<1>2. Round \subseteq steps
  BY <1>1 DEF PlaceIsEarned, RoundBefore, StepOf
<1>3. steps \cap Round = Session!Phases
  BY <1>2 DEF Round, Session!Phases
<1>4. /\ tx_sign_cnt' = tx_sign_cnt + 1 /\ alphas' = alphas \cup {tx_sign_cnt'}
      /\ tx_sign_cnt \in Nat
  BY MaxSignAssumption DEF ClsagPrepare, NextSignCnt, TypeOK
<1>5. tx_sign_cnt' \notin alphas /\ tx_sign_cnt' \in 1 .. MaxSign
  BY <1>4, MaxSignAssumption DEF NonceInv, TypeOK
<1>6. Session!Seal(tx_sign_cnt')
  BY <1>1, <1>3, <1>4, <1>5 DEF Session!Seal, Session!Ready, StepOf, Consumed
<1>7. SessionInv'
  BY <1>1 DEF SessionInv, AmountPrompts
<1> QED BY <1>5, <1>6, <1>7 DEF SessionStep, Session!Next

\* What a signature appends is what it consumes.
LEMMA ConsumedAppend ==
    ASSUME NEW seq \in Seq(1 .. MaxSign), NEW n \in 1 .. MaxSign
    PROVE  Consumed(Append(seq, n)) = Consumed(seq) \cup {n}
<1>1. /\ Len(Append(seq, n)) = Len(seq) + 1 /\ Len(seq) \in Nat
      /\ \A i \in 1 .. Len(seq) : Append(seq, n)[i] = seq[i]
      /\ Append(seq, n)[Len(seq) + 1] = n
  OBVIOUS
<1>2. ASSUME NEW x \in Consumed(Append(seq, n)) PROVE x \in Consumed(seq) \cup {n}
  <2>1. PICK i \in 1 .. Len(seq) + 1 : x = Append(seq, n)[i]
    BY <1>1, <1>2 DEF Consumed
  <2>2. i \in 1 .. Len(seq) \/ i = Len(seq) + 1
    BY <1>1
  <2> QED BY <1>1, <2>1, <2>2 DEF Consumed
<1>3. ASSUME NEW i \in 1 .. Len(seq) PROVE seq[i] \in Consumed(Append(seq, n))
  BY <1>1 DEF Consumed
<1>4. n \in Consumed(Append(seq, n))
  BY <1>1 DEF Consumed
<1> QED BY <1>2, <1>3, <1>4 DEF Consumed

\* A signature consumes a sealed nonce that was not consumed before.
LEMMA Signs ==
    ASSUME TypeOK, SessionInv, PlaceIsEarned, NonceInv, NEW alpha \in 1 .. MaxSign,
           ClsagSign(alpha)
    PROVE  SessionStep
<1>1. /\ prompt = "none" /\ prompt' = "none" /\ tx_in_progress
      /\ UNCHANGED <<tx_in_progress, steps, alphas>>
      /\ tx_state.ins = "CLSAG" /\ tx_state.p1 = 2
      /\ alpha = tx_sign_cnt /\ alpha \in alphas /\ signed' = Append(signed, alpha)
  BY DEF ClsagSign, ServedInTx, ServedWithPin, Served, Answered, At
<1>2. steps \cap Round = Session!Phases
  BY <1>1 DEF PlaceIsEarned, RoundBefore, StepOf, Round, Session!Phases
<1>3. alpha \notin Consumed(signed)
  BY <1>1 DEF NonceInv, Consumed
<1>4. Consumed(signed') = Consumed(signed) \cup {alpha}
  <2>1. signed \in Seq(1 .. MaxSign)
    BY DEF TypeOK
  <2>2. Consumed(Append(signed, alpha)) = Consumed(signed) \cup {alpha}
    BY <2>1, ConsumedAppend
  <2> QED BY <1>1, <2>2
<1>5. Session!Sign(alpha)
  BY <1>1, <1>2, <1>3, <1>4 DEF Session!Sign, Session!Ready, StepOf, Consumed
<1>6. SessionInv'
  BY <1>1 DEF SessionInv, AmountPrompts
<1> QED BY <1>5, <1>6 DEF SessionStep, Session!Next

\* An acceptance is an agreement to the phase asked about; to a timelock it is
\* no step.
LEMMA Agrees ==
    ASSUME TypeOK, SessionInv, AcceptAmount
    PROVE  SessionStep
<1>1. /\ prompt \in AmountPrompts /\ tx_in_progress /\ prompt' = "none"
      /\ UNCHANGED <<tx_in_progress, alphas, signed>>
      /\ steps' = steps \cup StepOf(prompt)
  BY DEF AcceptAmount, SessionInv
<1>2. SessionInv'
  BY <1>1 DEF SessionInv, AmountPrompts
<1>3. StepOf(prompt)' = {}
  BY <1>1 DEF StepOf
<1>4. CASE StepOf(prompt) = {}
  <2>1. UNCHANGED Session!vars
    BY <1>1, <1>3, <1>4 DEF Session!vars, Consumed
  <2> QED BY <1>2, <2>1 DEF SessionStep
<1>5. CASE StepOf(prompt) # {}
  <2>1. StepOf(prompt) \subseteq Round
    BY DEF StepOf, Round
  <2>2. steps' \cap Round = (steps \cap Round) \cup StepOf(prompt)
    BY <1>1, <2>1
  <2>3. Session!Agree
    BY <1>1, <1>3, <1>5, <2>2 DEF Session!Agree, Consumed
  <2> QED BY <1>2, <2>3 DEF SessionStep, Session!Next
<1> QED BY <1>4, <1>5

\* An answer on the view key or an address concerns no session.
LEMMA Answers ==
    ASSUME TypeOK, SessionInv, QuestionIsOnDisplay, AnswerOnMain
    PROVE  SessionStep
<1>1. prompt \notin AmountPrompts
  BY DEF AnswerOnMain, QuestionIsOnDisplay, AmountPrompts
<1> QED BY <1>1, Stutters DEF AnswerOnMain, AmountPrompts, history

\* Every step of the dispatcher is a step of the session or none.
LEMMA StepImplements ==
    IInv /\ IInv' /\ SessionInv /\ [Next]_vars => SessionStep
<1> SUFFICES ASSUME IInv, IInv', SessionInv, [Next]_vars PROVE SessionStep
  OBVIOUS
<1>0. TypeOK /\ TypeOK' /\ OneTransactionAtATime /\ PlaceIsEarned /\ NonceInv
        /\ QuestionIsOnDisplay
  BY DEF IInv, ControlInv
<1>1. CASE OtherCommand
  <2>1. CASE LowLevelCommand
    BY <1>0, <2>1, Stutters DEF LowLevelCommand, history
  <2>2. CASE CommandThrows
    BY <1>0, <2>2, Ends DEF CommandThrows, Thrown, ResetTx, Served, AmountPrompts,
      TypeOK
  <2>3. CASE CommandLocks
    BY <1>0, <2>3, Ends DEF CommandLocks, LockedAndThrown, ResetTx, Served,
      AmountPrompts, TypeOK
  <2>4. CASE ResetCommand
    BY <1>0, <2>4, Ends DEF ResetCommand, MoneroInit, AmountPrompts, TypeOK
  <2>5. CASE AskViewKey
    BY <1>0, <2>5, Stutters DEF AskViewKey, Asked, Served, AmountPrompts, history
  <2>6. CASE AskAddress
    BY <1>0, <2>6, Stutters DEF AskAddress, Served, AmountPrompts, history
  <2>7. CASE ViewKeyRemembered
    BY <1>0, <2>7, Stutters DEF ViewKeyRemembered, history
  <2>8. ASSUME NEW mode \in {"REAL", "FAKE"}, SetSignatureMode(mode) PROVE SessionStep
    BY <1>0, <2>8, Stutters DEF SetSignatureMode, history
  <2>9. CASE SetSignatureModeFails
    BY <1>0, <2>9, Ends DEF SetSignatureModeFails, Thrown, LockedAndThrown, ResetTx,
      ServedWithPin, Served, AmountPrompts, TypeOK
  <2> QED BY <1>1, <2>1, <2>2, <2>3, <2>4, <2>5, <2>6, <2>7, <2>8, <2>9 DEF OtherCommand
<1>2. CASE BuildCommand
  <2>1. ASSUME NEW t \in TxTypes, OpenTx(t) PROVE SessionStep
    BY <1>0, <2>1, Opens
  <2>2. CASE CloseTx
    BY <1>0, <2>2, Ends DEF CloseTx, ResetTx, Answered, Served, AmountPrompts,
      TypeOK
  <2>3. CASE EncryptPaymentId
    BY <1>0, <2>3, Stutters DEF EncryptPaymentId, Answered, history
  <2>4. CASE GenTxoutKeys
    BY <1>0, <2>4, Stutters DEF GenTxoutKeys, Answered, history
  <2>5. ASSUME NEW b \in P2s, NEW ask \in BOOLEAN, PrefixInit(b, ask) PROVE SessionStep
    BY <1>0, <2>5, PrefixStep
  <2>6. ASSUME NEW b \in P2s, PrefixUpdate(b) PROVE SessionStep
    BY <1>0, <2>6, PrefixStep
  <2>7. CASE PrefixThrows
    BY <1>0, <2>7, Ends DEF PrefixThrows, Thrown, ResetTx, ServedInTx,
      ServedWithPin, Served, AmountPrompts, TypeOK
  <2>8. CASE GenCommitmentMask
    BY <1>0, <2>8, Stutters DEF GenCommitmentMask, Answered, history
  <2>9. CASE Blind
    BY <1>0, <2>9, Stutters DEF Blind, Answered, history
  <2> QED BY <1>2, <2>1, <2>2, <2>3, <2>4, <2>5, <2>6, <2>7, <2>8, <2>9 DEF BuildCommand
<1>3. CASE SignCommand
  <2>1. ASSUME NEW b \in P2s, NEW ask \in BOOLEAN, ValidateInit(b, ask) PROVE SessionStep
    BY <1>0, <2>1, Begins
  <2>2. ASSUME NEW b \in P2s, NEW ask \in {"none", "output", "change"},
    ValidateUpdate(b, ask) PROVE SessionStep
    BY <1>0, <2>2, Destinations
  <2>3. ASSUME NEW b \in P2s, ValidateFinalize(b) PROVE SessionStep
    BY <1>0, <2>3, Finishes
  <2>4. CASE ValidateThrows
    BY <1>0, <2>4, Ends DEF ValidateThrows, Thrown, ResetTx, ServedInTx,
      ServedWithPin, Served, AmountPrompts, TypeOK
  <2>5. CASE ClsagPrepare
    BY <1>0, <2>5, Seals
  <2>6. CASE ClsagPrepareFails
    BY <1>0, <2>6, Ends DEF ClsagPrepareFails, Thrown, LockedAndThrown, ResetTx,
      ServedInTx, ServedWithPin, Served, AmountPrompts, TypeOK
  <2>7. ASSUME NEW b \in P2s, ClsagHash(b) PROVE SessionStep
    BY <1>0, <2>7, Stutters DEF ClsagHash, Answered, history
  <2>8. ASSUME NEW alpha \in 1 .. MaxSign, ClsagSign(alpha) PROVE SessionStep
    BY <1>0, <2>8, Signs
  <2>9. CASE ClsagSignFake
    BY <1>0, <2>9, Stutters DEF ClsagSignFake, Answered, history
  <2> QED BY <1>3, <2>1, <2>2, <2>3, <2>4, <2>5, <2>6, <2>7, <2>8, <2>9 DEF SignCommand
<1>4. CASE SpecialCommand
  <2>1. ASSUME NEW ins \in SpecialInstructions, AskSpecial(ins) PROVE SessionStep
    BY <1>0, <2>1, Stutters DEF AskSpecial, Asked, Served, AmountPrompts,
      SpecialInstructions, history
  <2>2. CASE UnlockSign
    BY <1>0, <2>2, Stutters DEF UnlockSign, Answered, history
  <2>3. ASSUME NEW b \in P2s, LnsHash(b) PROVE SessionStep
    BY <1>0, <2>3, Stutters DEF LnsHash, Answered, history
  <2>4. CASE LnsSign
    BY <1>0, <2>4, Stutters DEF LnsSign, Answered, history
  <2> QED BY <1>4, <2>1, <2>2, <2>3, <2>4 DEF SpecialCommand
<1>5. CASE Answer
  <2>1. CASE AcceptAmount
    BY <1>0, <2>1, Agrees
  <2>2. CASE RejectAmount
    BY <1>0, <2>2, Ends DEF RejectAmount, ResetTx, AmountPrompts, TypeOK
  <2>3. CASE AcceptSpecial
    BY <1>0, <2>3, Stutters DEF AcceptSpecial, SpecialInstructions, AmountPrompts,
      history
  <2>4. CASE RejectSpecial
    BY <1>0, <2>4, Stutters DEF RejectSpecial, SpecialInstructions, AmountPrompts,
      history
  <2>5. CASE AnswerOnMain
    BY <1>0, <2>5, Answers
  <2> QED BY <1>5, <2>1, <2>2, <2>3, <2>4, <2>5 DEF Answer
<1>6. CASE Menu
  <2>1. CASE InfoButton
    BY <1>0, <2>1, Stutters DEF InfoButton, history
  <2>2. ASSUME NEW from \in {"main", "settings"}, NEW to \in {"main", "address",
    "settings"}, Browse(from, to) PROVE SessionStep
    BY <1>0, <2>2, Stutters DEF Browse, history
  <2>3. CASE ChooseSetting
    BY <1>0, <2>3, Ends DEF ChooseSetting, MoneroInit, AmountPrompts, TypeOK
  <2> QED BY <1>6, <2>1, <2>2, <2>3 DEF Menu
<1>7. CASE System
  <2>1. CASE EnterPin
    BY <1>0, <2>1, Stutters DEF EnterPin, history
  <2>2. CASE PinTimeout
    BY <1>0, <2>2, Stutters DEF PinTimeout, history
  <2>3. CASE Restart
    BY <1>0, <2>3, Ends DEF Restart, MoneroInit, AmountPrompts, TypeOK
  <2> QED BY <1>7, <2>1, <2>2, <2>3 DEF System
<1>8. CASE UNCHANGED vars
  BY <1>8, Stutters DEF vars
<1> QED BY <1>1, <1>2, <1>3, <1>4, <1>5, <1>6, <1>7, <1>8 DEF Next

\* The device, whatever its counters' width and the transactions it is given,
\* behaves towards the outside as a signing session.
THEOREM Implements == Spec => ImplementsSession
<1>1. Init => SessionInv /\ Session!Init
  BY DEF Init, SessionInv, Session!Init, AmountPrompts, StepOf, Consumed
<1>2. IInv /\ IInv' /\ SessionInv /\ [Next]_vars => SessionInv' /\ [Session!Next]_(Session!vars)
  BY StepImplements DEF SessionStep
<1> QED BY <1>1, <1>2, Inductive, PTL DEF Spec, ImplementsSession, Session!Spec
=============================================================================
