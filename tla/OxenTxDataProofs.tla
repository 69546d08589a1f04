--------------------------- MODULE OxenTxDataProofs ---------------------------
(***************************************************************************)
(* Proofs about OxenTxData, for every number of outputs, inputs, pieces and *)
(* sessions.  IInv says, for each stage of the host's walk, what every hash *)
(* context holds: all that was sent so far, in order (Sent, FeeAmounts,      *)
(* Whole).  It is kept by every action; the theorems at the end are read    *)
(* off from it.                                                             *)
(***************************************************************************)
EXTENDS OxenTxData, SequenceTheorems, TLAPS

\* What the host has sent of one kind, as All says it, for any session.
Sent(kind, s, of, count) == [i \in 1 .. count |-> <<kind, s, of, i>>]

\* Fee and amounts, and with them the commitments.
FeeAmounts(s, n) == Sent("fee", s, 0, Pieces) \o Sent("amount", s, 0, n)
Whole(s, n) == FeeAmounts(s, Outputs) \o Sent("commitment", s, 0, n)

\* A hash of what was sent is well typed.
LEMMA SentType ==
    ASSUME NEW kind \in Kinds, NEW s \in 1 .. MaxSessions, NEW of \in 0 .. Inputs,
           NEW n \in Nat
    PROVE  Sent(kind, s, of, n) \in Hashes
<1>1. \A i \in 1 .. n : <<kind, s, of, i>> \in Items
    BY DEF Items
<1> QED
    BY <1>1 DEF Sent, Hashes

\* It has one item for each piece.
LEMMA SentLen ==
    ASSUME NEW kind, NEW s, NEW of, NEW n \in Nat
    PROVE  /\ Sent(kind, s, of, n) \in Seq({<<kind, s, of, i>> : i \in Nat})
           /\ Len(Sent(kind, s, of, n)) = n
           /\ \A i \in 1 .. n : Sent(kind, s, of, n)[i] = <<kind, s, of, i>>
<1>1. \A i \in 1 .. n : <<kind, s, of, i>> \in {<<kind, s, of, j>> : j \in Nat}
    OBVIOUS
<1>2. Sent(kind, s, of, n) \in Seq({<<kind, s, of, i>> : i \in Nat})
    BY <1>1 DEF Sent
<1>3. Len(Sent(kind, s, of, n)) = n
    BY DEF Sent
<1> QED
    BY <1>2, <1>3 DEF Sent

\* Nothing has been sent before the first piece.
LEMMA SentNone ==
    ASSUME NEW kind, NEW s, NEW of
    PROVE  Sent(kind, s, of, 0) = << >>
    BY SentLen DEF Sent

\* Each piece adds its item.
LEMMA SentNext ==
    ASSUME NEW kind, NEW s, NEW of, NEW n \in Nat, n >= 1
    PROVE  Append(Sent(kind, s, of, n - 1), <<kind, s, of, n>>) = Sent(kind, s, of, n)
<1> DEFINE T == {<<kind, s, of, i>> : i \in Nat}
<1> DEFINE before == Sent(kind, s, of, n - 1)
<1> DEFINE after == Append(before, <<kind, s, of, n>>)
<1>1. n - 1 \in Nat /\ <<kind, s, of, n>> \in T
    OBVIOUS
<1>a. \A m \in Nat : /\ Sent(kind, s, of, m) \in Seq(T) /\ Len(Sent(kind, s, of, m)) = m
                      /\ \A i \in 1 .. m : Sent(kind, s, of, m)[i] = <<kind, s, of, i>>
    BY SentLen
<1>2. before \in Seq(T) /\ Len(before) = n - 1
      /\ \A i \in 1 .. n - 1 : before[i] = <<kind, s, of, i>>
    BY <1>1, <1>a
<1>3. Sent(kind, s, of, n) \in Seq(T) /\ Len(Sent(kind, s, of, n)) = n
      /\ \A i \in 1 .. n : Sent(kind, s, of, n)[i] = <<kind, s, of, i>>
    BY SentLen
<1> HIDE DEF T, before
<1>4. after \in Seq(T) /\ Len(after) = n
    BY <1>1, <1>2
<1>5. \A i \in 1 .. n : after[i] = <<kind, s, of, i>>
    BY <1>1, <1>2
<1>6. \A i \in 1 .. Len(after) : after[i] = Sent(kind, s, of, n)[i]
    BY <1>3, <1>4, <1>5
<1> HIDE DEF after
<1>7. after = Sent(kind, s, of, n)
    BY <1>3, <1>4, <1>6, SeqEqual
<1> QED
    BY <1>7 DEF after, before

\* The first piece is all there is.
LEMMA SentFirst ==
    ASSUME NEW kind, NEW s, NEW of
    PROVE  <<<<kind, s, of, 1>>>> = Sent(kind, s, of, 1)
<1>1. Append(Sent(kind, s, of, 0), <<kind, s, of, 1>>) = Sent(kind, s, of, 1)
    BY SentNext
<1>2. Append(<< >>, <<kind, s, of, 1>>) = <<<<kind, s, of, 1>>>>
    OBVIOUS
<1> QED
    BY <1>1, <1>2, SentNone

\* To absorb into a concatenation is to absorb into its second part.
LEMMA AppendToConcat ==
    ASSUME NEW a \in Seq(Items), NEW b \in Seq(Items), NEW e \in Items
    PROVE  Append(a \o b, e) = a \o Append(b, e)
<1>1. a \o b \in Seq(Items)
    BY ConcatProperties, Zenon
<1>2. Append(a \o b, e) = (a \o b) \o <<e>>
    BY <1>1, AppendIsConcat, Zenon
<1>3. <<e>> \in Seq(Items)
    OBVIOUS
<1>4. (a \o b) \o <<e>> = a \o (b \o <<e>>)
    BY <1>3, ConcatAssociative, SMT
<1>5. Append(b, e) = b \o <<e>>
    BY AppendIsConcat, Zenon
<1> QED
    BY <1>2, <1>4, <1>5, Zenon
-----------------------------------------------------------------------------
(* The invariant.                                                            *)

\* Where the host is: which input, and how far in the pieces of a command.
StageInv ==
    /\ stage # "none" => session >= 1
    /\ stage \notin {"prepare", "hash", "sign", "close"} => input = 0
    /\ stage = "prepare" => input < Inputs
    /\ stage \in {"hash", "sign"} => input >= 1
    /\ stage \in {"outkeys", "validate_update", "validate_finalize"} => next <= Outputs
    /\ stage \in {"prefix", "validate_init", "hash", "lns_hash"} => next <= Pieces
    /\ stage \in {"none", "prefix_init", "prehash", "prepare", "sign", "close", "lns_sign"} =>
           next = 1

\* The hashes of the outputs and of the commitments, which nothing disturbs.
OutputInv ==
    Real =>
        /\ stage = "outkeys" => sha256 = Sent("output", session, 0, next - 1)
        /\ stage \in {"prefix_init", "prefix"} => sha256 = Sent("output", session, 0, Outputs)
        /\ stage = "validate_init" /\ next = 1 =>
               sha256 = Sent("output", session, 0, Outputs)
        /\ stage = "validate_init" /\ next > 1 =>
               /\ OUTK = Sent("output", session, 0, Outputs)
               /\ sha256 = << >> /\ sha256_alt = << >>
        /\ stage = "validate_update" =>
               /\ OUTK = Sent("output", session, 0, Outputs)
               /\ sha256 = Sent("output", session, 0, next - 1)
               /\ sha256_alt = Sent("commitment", session, 0, next - 1)
        /\ stage = "validate_finalize" => sha256_alt = Sent("commitment", session, 0, next - 1)
        /\ stage = "prehash" => sha256_alt = Sent("commitment", session, 0, Outputs)

\* What the memory that may be disturbed holds while it is not.
PrefixInv ==
    disturbed = {} =>
        /\ stage = "prefix" => keccak_alt = Sent("prefix", session, 0, next - 1)
        /\ stage \in {"validate_init", "validate_update", "validate_finalize", "prehash"} =>
               prefixH = Sent("prefix", session, 0, Pieces)

\* The prehash so far, and the hash of the commitments that waits for it.
PrehashInv ==
    disturbed = {} /\ Real =>
        /\ stage = "validate_init" /\ next > 1 => keccak_alt = Sent("fee", session, 0, next - 1)
        /\ stage = "validate_update" => keccak_alt = FeeAmounts(session, next - 1)
        /\ stage = "validate_finalize" =>
               /\ keccak_alt = Whole(session, next - 1)
               /\ shared = Sent("commitment", session, 0, Outputs)
        /\ stage = "prehash" =>
               /\ keccak_alt = Whole(session, Outputs)
               /\ shared = Sent("commitment", session, 0, Outputs)

\* The challenge, or the name, so far.
SigningInv ==
    disturbed = {} =>
        /\ stage = "hash" /\ next > 1 => keccak_alt = Sent("challenge", session, input, next - 1)
        /\ stage = "sign" => shared = Sent("challenge", session, input, Pieces)
        /\ stage = "lns_hash" /\ next > 1 => blake2b = Sent("name", session, 0, next - 1)
        /\ stage = "lns_sign" => shared = Sent("name", session, 0, Pieces)

\* Disturbed or not, every item comes from session s and input of, or from none.
From(c, s, of) ==
    \A j \in 1 .. Len(c) :
        c[j][1] \notin {"spent", "address"} => c[j][2] = s /\ c[j][3] = of

\* What the host still uses is of its own session and input.
OriginInv ==
    /\ stage \in {"outkeys", "prefix_init", "prefix", "validate_init", "validate_update",
                  "validate_finalize", "prehash"} => From(keccak_alt, session, 0)
    /\ stage = "hash" /\ next > 1 => From(keccak_alt, session, input)
    /\ stage = "sign" => From(shared, session, input)
    /\ stage = "lns_hash" /\ next > 1 => From(blake2b, session, 0)
    /\ stage = "lns_sign" => From(shared, session, 0)

\* What the answers are made of, once given.
AnswersInv == PrehashIsWhole /\ SignsWhatWasHashed /\ NothingFromElsewhere

DataInv == OutputInv /\ PrefixInv /\ PrehashInv /\ SigningInv
IInv == TypeOK /\ StageInv /\ DataInv /\ OriginInv /\ AnswersInv /\ HonestHostIsServed

-----------------------------------------------------------------------------
(* The steps of the host. *)

\* What the steps move the host from and to; the hashes are left out.
LEMMA HostTypes ==
    ASSUME TypeOK
    PROVE  /\ session \in Nat /\ session <= MaxSessions
           /\ next \in Nat /\ next >= 1 /\ input \in Nat /\ input <= Inputs
           /\ stage \in Stages /\ tx_sig_mode \in {"REAL", "FAKE"}
BY SizesAssumption DEF TypeOK

\* GoOn and SessionStarts without the history.
LEMMA Moves ==
    ASSUME NEW count, NEW then, GoOn(count, then)
    PROVE  /\ next < count => stage' = stage /\ next' = next + 1
           /\ ~(next < count) => stage' = then /\ next' = 1
           /\ session' = session /\ input' = input /\ tx_sig_mode' = tx_sig_mode
           /\ disturbed' = disturbed
BY Zenon DEF GoOn

LEMMA Starts ==
    ASSUME NEW first, SessionStarts(first)
    PROVE  /\ stage = "none" /\ session < MaxSessions
           /\ stage' = first /\ next' = 1 /\ input' = 0 /\ session' = session + 1
           /\ disturbed' = {} /\ answer' = NoAnswer
BY Zenon DEF SessionStarts

\* No step takes the host past the pieces of a command or the inputs.
LEMMA StageStep ==
    ASSUME TypeOK, StageInv, [Next]_vars
    PROVE  StageInv'
<1> USE SizesAssumption, HostTypes
<1>1. ASSUME NEW mode \in {"REAL", "FAKE"}, OpenTx(mode) PROVE StageInv'
    <2>1. SessionStarts("outkeys")
        BY <1>1 DEF OpenTx
    <2> QED
        BY <2>1, Starts DEF StageInv
<1>2. CASE GenTxoutKeys
    <2>1. stage = "outkeys" /\ GoOn(Outputs, "prefix_init")
        BY <1>2 DEF GenTxoutKeys
    <2> QED
        BY <2>1, Moves DEF StageInv
<1>3. CASE PrefixInit
    <2>1. stage = "prefix_init" /\ GoOn(1, "prefix")
        BY <1>3 DEF PrefixInit
    <2> QED
        BY <2>1, Moves DEF StageInv
<1>4. CASE PrefixUpdate
    <2>1. stage = "prefix" /\ GoOn(Pieces, "validate_init")
        BY <1>4 DEF PrefixUpdate
    <2> QED
        BY <2>1, Moves DEF StageInv
<1>5. CASE ValidateInit
    <2>1. stage = "validate_init" /\ GoOn(Pieces, "validate_update")
        BY <1>5 DEF ValidateInit
    <2> QED
        BY <2>1, Moves DEF StageInv
<1>6. CASE ValidateUpdate
    <2>1. stage = "validate_update" /\ (GoOn(Outputs, "validate_finalize") \/ ChainLocks)
        BY <1>6 DEF ValidateUpdate
    <2>2. ChainLocks => SessionEnds
        BY DEF ChainLocks
    <2> QED
        BY <2>1, <2>2, Moves DEF SessionEnds, StageInv
<1>7. CASE ValidateFinalize
    <2>1. stage = "validate_finalize" /\ GoOn(Outputs, "prehash")
        BY <1>7 DEF ValidateFinalize
    <2> QED
        BY <2>1, Moves DEF StageInv
<1>8. CASE Prehash
    <2>1. stage = "prehash" /\ (GoOn(1, "prepare") \/ ChainLocks)
        BY <1>8 DEF Prehash
    <2>2. ChainLocks => SessionEnds
        BY DEF ChainLocks
    <2> QED
        BY <2>1, <2>2, Moves DEF SessionEnds, StageInv
<1>9. CASE ClsagPrepare
    BY <1>9 DEF ClsagPrepare, StageInv
<1>10. CASE ClsagHash
    <2>1. stage = "hash" /\ GoOn(Pieces, "sign")
        BY <1>10 DEF ClsagHash
    <2> QED
        BY <2>1, Moves DEF StageInv
<1>11. CASE ClsagSign
    <2>1. stage = "sign" /\ GoOn(1, IF input < Inputs THEN "prepare" ELSE "close")
        BY <1>11 DEF ClsagSign
    <2> QED
        BY <2>1, Moves DEF StageInv
<1>12. CASE AskLns
    <2>1. SessionStarts("lns_hash")
        BY <1>12 DEF AskLns
    <2> QED
        BY <2>1, Starts DEF StageInv
<1>13. CASE LnsHash
    <2>1. stage = "lns_hash" /\ GoOn(Pieces, "lns_sign")
        BY <1>13 DEF LnsHash
    <2> QED
        BY <2>1, Moves DEF StageInv
<1>14. CASE LnsSign
    BY <1>14 DEF LnsSign, SessionEnds, StageInv
<1>15. CASE UnlockSign \/ Disturbance \/ UNCHANGED vars
    <2>1. UNCHANGED host
        BY <1>15 DEF UnlockSign, Disturbance, LowLevelCommand, ShowAddress,
                     KeyImageSignature, PinEntered, Disturbs, vars
    <2> QED
        BY <2>1 DEF host, StageInv
<1>16. CASE EndTx \/ Restart
    <2>1. SessionEnds
        BY <1>16 DEF EndTx, Restart
    <2> QED
        BY <2>1 DEF SessionEnds, StageInv
<1> QED
    BY <1>1, <1>2, <1>3, <1>4, <1>5, <1>6, <1>7, <1>8, <1>9, <1>10, <1>11, <1>12, <1>13,
       <1>14, <1>15, <1>16 DEF Next, Transaction, Special

-----------------------------------------------------------------------------
(* Types. *)

DeviceTypes ==
    /\ keccak_alt \in Hashes /\ sha256 \in Hashes /\ sha256_alt \in Hashes
    /\ blake2b \in Hashes /\ OUTK \in Hashes /\ prefixH \in Hashes /\ shared \in Hashes
WalkTypes ==
    /\ tx_sig_mode \in {"REAL", "FAKE"} /\ session \in 0 .. MaxSessions
    /\ stage \in Stages /\ next \in 1 .. Outputs + Pieces /\ input \in 0 .. Inputs
AnswerType == answer \in [kind : Answers, input : 0 .. Inputs, value : Seq(Hashes)]
HistoryTypes == locked \in BOOLEAN /\ disturbed \subseteq Disturbers

\* TypeOK in four parts.
LEMMA TypeParts == TypeOK <=> DeviceTypes /\ WalkTypes /\ AnswerType /\ HistoryTypes
BY Zenon DEF TypeOK, DeviceTypes, WalkTypes, AnswerType, HistoryTypes

\* The values the commands write are hashes.
LEMMA HashTypes ==
    /\ << >> \in Hashes /\ Spent \in Hashes /\ Address \in Hashes
    /\ \A c \in Hashes, e \in Items : Append(c, e) \in Hashes
    /\ NoAnswer \in [kind : Answers, input : 0 .. Inputs, value : Seq(Hashes)]
<1>1. <<"spent", 0, 0, 0>> \in Items /\ <<"address", 0, 0, 0>> \in Items
    BY DEF Items
<1>2. << >> \in Hashes /\ Spent \in Hashes /\ Address \in Hashes
    BY <1>1 DEF Hashes, Spent, Address
<1>3. \A c \in Hashes, e \in Items : Append(c, e) \in Hashes
    BY DEF Hashes
<1>4. 0 \in 0 .. Inputs /\ << >> \in Seq(Hashes)
    BY SizesAssumption
<1> QED
    BY <1>2, <1>3, <1>4 DEF NoAnswer, Answers

\* A piece is an item.
LEMMA ItemTypes ==
    ASSUME TypeOK, session >= 1, NEW kind \in Kinds, NEW i \in Nat
    PROVE  Item(kind, i) \in Items
<1>1. session \in 1 .. MaxSessions /\ input \in 0 .. Inputs
    BY SizesAssumption DEF TypeOK
<1> QED
    BY <1>1 DEF Item, Items

\* A context that absorbs a piece is a hash.
LEMMA AbsorbTypes ==
    ASSUME TypeOK, session >= 1, NEW kind \in Kinds, NEW c \in Hashes
    PROVE  Append(c, Item(kind, next)) \in Hashes
<1>1. next \in Nat
    BY HostTypes
<1> QED
    BY <1>1, ItemTypes, HashTypes

\* Every context and result stays a hash.
LEMMA DeviceTypeStep ==
    ASSUME TypeOK, StageInv, [Next]_vars
    PROVE  DeviceTypes'
<1>1. DeviceTypes /\ (stage # "none" => session >= 1)
    BY TypeParts DEF StageInv
<1>a. \A kind \in Kinds : \A c \in Hashes :
         stage # "none" => Append(c, Item(kind, next)) \in Hashes
    BY <1>1, AbsorbTypes
<1>b. << >> \in Hashes /\ Spent \in Hashes /\ Address \in Hashes
    BY HashTypes
<1>c. Append(<< >>, Item("fee", next)) = <<Item("fee", next)>>
    OBVIOUS
<1> USE <1>1, <1>a, <1>b DEF DeviceTypes
<1>2. ASSUME NEW mode \in {"REAL", "FAKE"}, OpenTx(mode) PROVE DeviceTypes'
    BY <1>2 DEF OpenTx, ResetTx
<1>3. CASE GenTxoutKeys
    BY <1>3 DEF GenTxoutKeys, Kinds
<1>4. CASE PrefixInit
    BY <1>4 DEF PrefixInit
<1>5. CASE PrefixUpdate
    BY <1>5 DEF PrefixUpdate, Kinds
<1>6. CASE ValidateInit
    BY <1>6, <1>c DEF ValidateInit, Kinds
<1>7. CASE ValidateUpdate
    BY <1>7 DEF ValidateUpdate, ChainLocks, ResetTx, Kinds
<1>8. CASE ValidateFinalize
    BY <1>8 DEF ValidateFinalize, Kinds
<1>9. CASE Prehash
    BY <1>9 DEF Prehash, ChainLocks, ResetTx
<1>10. CASE ClsagHash
    BY <1>10 DEF ClsagHash, Kinds
<1>11. CASE LnsHash
    BY <1>11 DEF LnsHash, Kinds
<1>12. CASE LnsSign \/ UnlockSign
    BY <1>12 DEF LnsSign, UnlockSign
<1>13. CASE Disturbance
    BY <1>13 DEF Disturbance, LowLevelCommand, ShowAddress, KeyImageSignature, PinEntered,
                 Disturbs
<1>14. CASE EndTx \/ Restart
    BY <1>14 DEF EndTx, Restart, ResetTx
<1>15. CASE ClsagPrepare \/ ClsagSign \/ AskLns \/ UNCHANGED vars
    <2>1. UNCHANGED device
        BY <1>15 DEF ClsagPrepare, ClsagSign, AskLns, vars
    <2> QED
        BY <2>1 DEF device
<1> QED
    BY <1>2, <1>3, <1>4, <1>5, <1>6, <1>7, <1>8, <1>9, <1>10, <1>11, <1>12, <1>13, <1>14,
       <1>15 DEF Next, Transaction, Special

\* The host stays within its inputs, and within the pieces of a command.
LEMMA WalkTypeStep ==
    ASSUME TypeOK, StageInv, [Next]_vars
    PROVE  WalkTypes'
<1>1. WalkTypes
    BY TypeParts
<1>2. ASSUME NEW count \in {1, Outputs, Pieces}, NEW then \in Stages, GoOn(count, then)
      PROVE  WalkTypes'
    BY <1>1, <1>2, Moves, HostTypes, SizesAssumption DEF WalkTypes
<1>3. ASSUME NEW first \in Stages, SessionStarts(first), tx_sig_mode' \in {"REAL", "FAKE"}
      PROVE  WalkTypes'
    BY <1>3, Starts, HostTypes, SizesAssumption DEF WalkTypes
<1>4. ASSUME SessionEnds PROVE WalkTypes'
    BY <1>1, <1>4, SizesAssumption DEF SessionEnds, WalkTypes, Stages
<1>5. CASE \E mode \in {"REAL", "FAKE"} : OpenTx(mode)
    BY <1>3, <1>5 DEF OpenTx, Stages
<1>6. CASE GenTxoutKeys \/ PrefixInit \/ PrefixUpdate \/ ValidateInit \/ ValidateFinalize
    BY <1>2, <1>6 DEF GenTxoutKeys, PrefixInit, PrefixUpdate, ValidateInit,
                      ValidateFinalize, Stages
<1>7. CASE ValidateUpdate \/ Prehash
    <2>1. \/ GoOn(Outputs, "validate_finalize") \/ GoOn(1, "prepare") \/ ChainLocks
        BY <1>7 DEF ValidateUpdate, Prehash
    <2>2. ChainLocks => SessionEnds
        BY DEF ChainLocks
    <2> QED
        BY <1>2, <1>4, <2>1, <2>2 DEF Stages
<1>8. CASE ClsagPrepare
    BY <1>1, <1>8, HostTypes, SizesAssumption DEF ClsagPrepare, StageInv, WalkTypes, Stages
<1>9. CASE ClsagHash \/ ClsagSign \/ LnsHash
    BY <1>2, <1>9 DEF ClsagHash, ClsagSign, LnsHash, Stages
<1>10. CASE AskLns
    BY <1>1, <1>3, <1>10 DEF AskLns, Stages, WalkTypes
<1>11. CASE LnsSign \/ EndTx \/ Restart
    BY <1>4, <1>11 DEF LnsSign, EndTx, Restart
<1>12. CASE UnlockSign \/ Disturbance \/ UNCHANGED vars
    <2>1. UNCHANGED host
        BY <1>12 DEF UnlockSign, Disturbance, LowLevelCommand, ShowAddress,
                     KeyImageSignature, PinEntered, Disturbs, vars
    <2> QED
        BY <1>1, <2>1 DEF host, WalkTypes
<1> QED
    BY <1>5, <1>6, <1>7, <1>8, <1>9, <1>10, <1>11, <1>12 DEF Next, Transaction, Special

\* What an answer is made of is a hash.
LEMMA AnswerTypeStep ==
    ASSUME TypeOK, StageInv, [Next]_vars
    PROVE  AnswerType'
<1>1. AnswerType /\ DeviceTypes /\ WalkTypes
    BY TypeParts
<1>2. NoAnswer \in [kind : Answers, input : 0 .. Inputs, value : Seq(Hashes)]
    BY HashTypes
<1>3. ASSUME NEW kind \in Answers, NEW value \in Seq(Hashes), Answered(kind, value)
      PROVE  AnswerType'
    BY <1>1, <1>3 DEF Answered, AnswerType, WalkTypes
<1>4. CASE \E mode \in {"REAL", "FAKE"} : OpenTx(mode)
    BY <1>2, <1>4 DEF OpenTx, SessionStarts, AnswerType
<1>5. CASE AskLns
    BY <1>2, <1>5 DEF AskLns, SessionStarts, AnswerType
<1>6. CASE Prehash
    <2>1. CASE Answered("prehash", <<prefixH, keccak_alt, <<Item("proof", 1)>> >>)
        <3>1. session >= 1
            BY <1>6 DEF Prehash, StageInv
        <3>2. Item("proof", 1) \in Items
            BY <3>1, ItemTypes DEF Kinds
        <3>3. <<Item("proof", 1)>> \in Hashes
            BY <3>2 DEF Hashes
        <3>4. <<prefixH, keccak_alt, <<Item("proof", 1)>> >> \in Seq(Hashes)
            BY <1>1, <3>3 DEF DeviceTypes
        <3> QED
            BY <1>3, <2>1, <3>4 DEF Answers
    <2>2. CASE UNCHANGED answer
        BY <1>1, <2>2 DEF AnswerType
    <2> QED
        BY <1>6, <2>1, <2>2 DEF Prehash, ChainLocks
<1>7. CASE ClsagSign \/ LnsSign
    <2>1. <<shared>> \in Seq(Hashes)
        BY <1>1 DEF DeviceTypes
    <2>2. Answered("clsag", <<shared>>) \/ Answered("lns", <<shared>>)
        BY <1>7 DEF ClsagSign, LnsSign
    <2> QED
        BY <1>3, <2>1, <2>2 DEF Answers
<1>8. CASE UNCHANGED answer
    BY <1>1, <1>8 DEF AnswerType
<1>9. CASE GenTxoutKeys \/ PrefixInit \/ PrefixUpdate \/ ValidateInit \/ ValidateUpdate
           \/ ValidateFinalize
    <2>1. UNCHANGED answer
        BY <1>9 DEF GenTxoutKeys, PrefixInit, PrefixUpdate, ValidateInit, ValidateUpdate,
                    ValidateFinalize, ChainLocks
    <2> QED
        BY <1>8, <2>1
<1>10. CASE ClsagPrepare \/ ClsagHash \/ LnsHash \/ UnlockSign \/ Disturbance \/ EndTx
            \/ Restart \/ UNCHANGED vars
    <2>1. UNCHANGED answer
        BY <1>10 DEF ClsagPrepare, ClsagHash, LnsHash, UnlockSign, Disturbance,
                     LowLevelCommand, ShowAddress, KeyImageSignature, PinEntered, Disturbs,
                     EndTx, Restart, history, vars
    <2> QED
        BY <1>8, <2>1
<1> QED
    BY <1>4, <1>5, <1>6, <1>7, <1>9, <1>10 DEF Next, Transaction, Special

\* What is remembered is who disturbed the session.
LEMMA HistoryTypeStep ==
    ASSUME TypeOK, [Next]_vars
    PROVE  HistoryTypes'
<1>1. HistoryTypes
    BY TypeParts
<1>2. ASSUME NEW count, NEW then, GoOn(count, then) PROVE HistoryTypes'
    BY <1>1, <1>2 DEF GoOn, HistoryTypes
<1>3. ASSUME NEW first, SessionStarts(first) PROVE HistoryTypes'
    BY <1>3 DEF SessionStarts, HistoryTypes
<1>4. ASSUME ChainLocks PROVE HistoryTypes'
    BY <1>1, <1>4 DEF ChainLocks, HistoryTypes
<1>5. ASSUME UNCHANGED <<locked, disturbed>> PROVE HistoryTypes'
    BY <1>1, <1>5 DEF HistoryTypes
<1>6. ASSUME NEW by \in Disturbers, NEW memory, Disturbs(by, memory) PROVE HistoryTypes'
    BY <1>1, <1>6 DEF Disturbs, HistoryTypes
<1>7. CASE Transaction
    BY <1>2, <1>3, <1>4, <1>5, <1>7
       DEF Transaction, OpenTx, GenTxoutKeys, PrefixInit, PrefixUpdate, ValidateInit,
           ValidateUpdate, ValidateFinalize, Prehash, ClsagPrepare, ClsagHash, ClsagSign,
           history
<1>8. CASE Special
    BY <1>2, <1>3, <1>5, <1>8 DEF Special, AskLns, LnsHash, LnsSign, UnlockSign, history
<1>9. CASE Disturbance
    BY <1>6, <1>9 DEF Disturbance, LowLevelCommand, ShowAddress, KeyImageSignature,
                      PinEntered, Disturbers
<1>10. CASE EndTx \/ Restart \/ UNCHANGED vars
    BY <1>5, <1>10 DEF EndTx, Restart, history, vars
<1> QED
    BY <1>7, <1>8, <1>9, <1>10 DEF Next

\* Every step keeps the types.
LEMMA TypeStep ==
    ASSUME TypeOK, StageInv, [Next]_vars
    PROVE  TypeOK'
<1>1. DeviceTypes' /\ WalkTypes' /\ AnswerType' /\ HistoryTypes'
    BY DeviceTypeStep, WalkTypeStep, AnswerTypeStep, HistoryTypeStep
<1> QED
    BY <1>1, Zenon DEF TypeOK, DeviceTypes, WalkTypes, AnswerType, HistoryTypes


\* From the prehash on, and in a name request, the host only goes on to these.
LEMMA LateStages ==
    ASSUME TypeOK, StageInv,
           Prehash \/ ClsagPrepare \/ ClsagHash \/ ClsagSign \/ Special \/ EndTx \/ Restart
    PROVE  stage' \in {"none", "prepare", "hash", "sign", "close", "lns_hash", "lns_sign"}
<1>1. CASE Prehash \/ ClsagSign
    <2>1. stage \in {"prehash", "sign"} /\ next = 1
        BY <1>1 DEF Prehash, ClsagSign, StageInv
    <2>2. GoOn(1, "prepare") \/ GoOn(1, "close") \/ SessionEnds
        BY <1>1 DEF Prehash, ClsagSign, ChainLocks
    <2> QED
        BY <2>1, <2>2, Moves DEF SessionEnds
<1>2. CASE ClsagHash \/ LnsHash
    <2>1. \/ stage = "hash" /\ GoOn(Pieces, "sign")
          \/ stage = "lns_hash" /\ GoOn(Pieces, "lns_sign")
        BY <1>2 DEF ClsagHash, LnsHash
    <2> QED
        BY <2>1, Moves
<1>3. CASE ClsagPrepare \/ LnsSign \/ UnlockSign \/ EndTx \/ Restart
    BY <1>3 DEF ClsagPrepare, LnsSign, UnlockSign, EndTx, Restart, SessionEnds, host
<1>4. CASE AskLns
    BY <1>4, Starts DEF AskLns
<1> QED
    BY <1>1, <1>2, <1>3, <1>4 DEF Special

\* What disturbs the session is remembered, so while nothing has, the memory the
\* session still needs is as the session left it.
LEMMA Undisturbed ==
    ASSUME Disturbance, disturbed' = {}
    PROVE  /\ disturbed = {}
           /\ UNCHANGED <<tx_sig_mode, session, stage, next, input>>
           /\ UNCHANGED <<sha256, sha256_alt, OUTK, prefixH, answer>>
           /\ "keccak_alt" \in StillNeeded => keccak_alt' = keccak_alt
           /\ "shared" \in StillNeeded => shared' = shared
           /\ "blake2b" \in StillNeeded => blake2b' = blake2b
<1>1. ASSUME NEW by, NEW memory, Disturbs(by, memory)
      PROVE  /\ disturbed = {} /\ memory \cap StillNeeded = {}
             /\ UNCHANGED <<tx_sig_mode, session, stage, next, input>>
             /\ UNCHANGED <<sha256, sha256_alt, OUTK, prefixH, answer>>
    <2>1. disturbed \cup (IF memory \cap StillNeeded # {} THEN {by} ELSE {}) = {}
        BY <1>1 DEF Disturbs
    <2>2. disturbed = {} /\ memory \cap StillNeeded = {}
        BY <2>1
    <2> QED
        BY <1>1, <2>2 DEF Disturbs, host
<1>2. CASE LowLevelCommand
    BY <1>1, <1>2 DEF LowLevelCommand
<1>3. CASE ShowAddress
    BY <1>1, <1>3 DEF ShowAddress
<1>4. CASE KeyImageSignature
    BY <1>1, <1>4 DEF KeyImageSignature
<1>5. CASE PinEntered
    BY <1>1, <1>5 DEF PinEntered
<1> QED
    BY <1>2, <1>3, <1>4, <1>5 DEF Disturbance

-----------------------------------------------------------------------------
(* What has been sent, piece by piece. *)

\* What the properties name is what has been sent.
LEMMA AllIsSent ==
    ASSUME NEW kind, NEW of, NEW n
    PROVE  All(kind, of, n) = Sent(kind, session, of, n)
BY DEF All, Sent

\* The next piece, after the others or as the first.
LEMMA Absorbed ==
    ASSUME TypeOK, NEW kind
    PROVE  /\ Append(Sent(kind, session, input, next - 1), Item(kind, next))
                  = Sent(kind, session, input, next)
           /\ next = 1 => Append(<< >>, Item(kind, next)) = Sent(kind, session, input, 1)
<1>1. next \in Nat /\ next >= 1
    BY HostTypes
<1>2. Append(Sent(kind, session, input, next - 1), Item(kind, next))
          = Sent(kind, session, input, next)
    BY <1>1, SentNext DEF Item
<1>3. next = 1 => Append(<< >>, Item(kind, next)) = <<Item(kind, next)>>
    OBVIOUS
<1>4. next = 1 => <<Item(kind, next)>> = Sent(kind, session, input, 1)
    BY SentFirst DEF Item
<1> QED
    BY <1>2, <1>3, <1>4

\* The prehash of fee and amounts is a hash.
LEMMA FeeAmountsType ==
    ASSUME NEW s \in 1 .. MaxSessions, NEW n \in Nat
    PROVE  FeeAmounts(s, n) \in Seq(Items)
<1>1. 0 \in 0 .. Inputs /\ Pieces \in Nat
    BY SizesAssumption
<1>2. Sent("fee", s, 0, Pieces) \in Seq(Items) /\ Sent("amount", s, 0, n) \in Seq(Items)
    BY <1>1, SentType DEF Kinds, Hashes
<1> QED
    BY <1>2, ConcatProperties, Zenon DEF FeeAmounts

\* Before the first amount there is the fee; each amount adds itself.
LEMMA FeeAmountsNext ==
    ASSUME NEW s \in 1 .. MaxSessions
    PROVE  /\ FeeAmounts(s, 0) = Sent("fee", s, 0, Pieces)
           /\ \A n \in Nat : n >= 1 =>
                  Append(FeeAmounts(s, n - 1), <<"amount", s, 0, n>>) = FeeAmounts(s, n)
<1>1. 0 \in 0 .. Inputs /\ Pieces \in Nat
    BY SizesAssumption
<1>2. Sent("fee", s, 0, Pieces) \in Seq(Items)
    BY <1>1, SentType DEF Kinds, Hashes
<1>3. Sent("fee", s, 0, Pieces) \o << >> = Sent("fee", s, 0, Pieces)
    BY <1>2, ConcatEmptySeq, Zenon
<1>4. FeeAmounts(s, 0) = Sent("fee", s, 0, Pieces)
    BY <1>3, SentNone DEF FeeAmounts
<1>a. \A a, b \in Seq(Items) : \A e \in Items : Append(a \o b, e) = a \o Append(b, e)
    BY AppendToConcat
<1>5. ASSUME NEW n \in Nat, n >= 1
      PROVE  Append(FeeAmounts(s, n - 1), <<"amount", s, 0, n>>) = FeeAmounts(s, n)
    <2>1. n - 1 \in Nat /\ <<"amount", s, 0, n>> \in Items
        BY <1>1, <1>5 DEF Items, Kinds
    <2>2. Sent("amount", s, 0, n - 1) \in Seq(Items)
        BY <1>1, <2>1, SentType DEF Kinds, Hashes
    <2>3. Append(Sent("fee", s, 0, Pieces) \o Sent("amount", s, 0, n - 1),
                 <<"amount", s, 0, n>>)
              = Sent("fee", s, 0, Pieces)
                    \o Append(Sent("amount", s, 0, n - 1), <<"amount", s, 0, n>>)
        BY <1>2, <1>a, <2>1, <2>2, Zenon
    <2>4. Append(Sent("amount", s, 0, n - 1), <<"amount", s, 0, n>>) = Sent("amount", s, 0, n)
        BY <1>5, SentNext
    <2> QED
        BY <2>3, <2>4, Zenon DEF FeeAmounts
<1> QED
    BY <1>4, <1>5

\* So do the commitments.
LEMMA WholeNext ==
    ASSUME NEW s \in 1 .. MaxSessions
    PROVE  /\ Whole(s, 0) = FeeAmounts(s, Outputs)
           /\ \A n \in Nat : n >= 1 =>
                  Append(Whole(s, n - 1), <<"commitment", s, 0, n>>) = Whole(s, n)
<1>1. 0 \in 0 .. Inputs /\ Outputs \in Nat
    BY SizesAssumption
<1>2. FeeAmounts(s, Outputs) \in Seq(Items)
    BY <1>1, FeeAmountsType
<1>3. FeeAmounts(s, Outputs) \o << >> = FeeAmounts(s, Outputs)
    BY <1>2, ConcatEmptySeq, Zenon
<1>4. Whole(s, 0) = FeeAmounts(s, Outputs)
    BY <1>3, SentNone DEF Whole
<1>a. \A a, b \in Seq(Items) : \A e \in Items : Append(a \o b, e) = a \o Append(b, e)
    BY AppendToConcat
<1>5. ASSUME NEW n \in Nat, n >= 1
      PROVE  Append(Whole(s, n - 1), <<"commitment", s, 0, n>>) = Whole(s, n)
    <2>1. n - 1 \in Nat /\ <<"commitment", s, 0, n>> \in Items
        BY <1>1, <1>5 DEF Items, Kinds
    <2>2. Sent("commitment", s, 0, n - 1) \in Seq(Items)
        BY <1>1, <2>1, SentType DEF Kinds, Hashes
    <2>3. Append(FeeAmounts(s, Outputs) \o Sent("commitment", s, 0, n - 1),
                 <<"commitment", s, 0, n>>)
              = FeeAmounts(s, Outputs)
                    \o Append(Sent("commitment", s, 0, n - 1), <<"commitment", s, 0, n>>)
        BY <1>2, <1>a, <2>1, <2>2, Zenon
    <2>4. Append(Sent("commitment", s, 0, n - 1), <<"commitment", s, 0, n>>)
              = Sent("commitment", s, 0, n)
        BY <1>5, SentNext
    <2> QED
        BY <2>3, <2>4, Zenon DEF Whole
<1> QED
    BY <1>4, <1>5

\* The whole is what the property names.
LEMMA WholeIsPrehashed ==
    Prehashed = Whole(session, Outputs) /\ Prefix = Sent("prefix", session, 0, Pieces)
BY AllIsSent, Zenon DEF Prehashed, Prefix, Whole, FeeAmounts

-----------------------------------------------------------------------------
(* The outputs and the commitments. *)

\* Nothing but the commands of the transaction touches these.
LEMMA OutputStep ==
    ASSUME TypeOK, StageInv, OutputInv, [Next]_vars
    PROVE  OutputInv'
<1> USE SizesAssumption, HostTypes DEF Real
<1>1. ASSUME NEW mode \in {"REAL", "FAKE"}, OpenTx(mode) PROVE OutputInv'
    <2>1. stage' = "outkeys" /\ next' = 1 /\ sha256' = << >>
        BY <1>1, Starts DEF OpenTx, ResetTx
    <2> QED
        BY <2>1, SentNone DEF OutputInv
<1>2. CASE GenTxoutKeys
    <2>1. stage = "outkeys" /\ GoOn(Outputs, "prefix_init")
          /\ (Real => sha256' = Append(sha256, Item("output", next)))
        BY <1>2 DEF GenTxoutKeys
    <2>2. next <= Outputs /\ input = 0
        BY <2>1 DEF StageInv
    <2>3. Real => sha256' = Sent("output", session, 0, next)
        BY <2>1, <2>2, Absorbed DEF OutputInv
    <2> QED
        BY <2>1, <2>2, <2>3, Moves DEF OutputInv
<1>3. CASE PrefixInit \/ PrefixUpdate
    <2>1. \/ stage = "prefix_init" /\ GoOn(1, "prefix")
          \/ stage = "prefix" /\ GoOn(Pieces, "validate_init")
        BY <1>3 DEF PrefixInit, PrefixUpdate
    <2>2. sha256' = sha256
        BY <1>3 DEF PrefixInit, PrefixUpdate
    <2> QED
        BY <2>1, <2>2, Moves DEF OutputInv, StageInv
<1>4. CASE ValidateInit
    <2>1. stage = "validate_init" /\ GoOn(Pieces, "validate_update")
          /\ (Real => IF next = 1 THEN OUTK' = sha256 /\ sha256' = << >> /\ sha256_alt' = << >>
                                  ELSE OUTK' = OUTK /\ sha256' = sha256
                                       /\ sha256_alt' = sha256_alt)
        BY <1>4 DEF ValidateInit
    <2>2. Real => /\ OUTK' = Sent("output", session, 0, Outputs)
                  /\ sha256' = << >> /\ sha256_alt' = << >>
        BY <2>1 DEF OutputInv
    <2>3. << >> = Sent("output", session, 0, 0) /\ << >> = Sent("commitment", session, 0, 0)
        BY SentNone
    <2> QED
        BY <2>1, <2>2, <2>3, Moves DEF OutputInv
<1>5. CASE ValidateUpdate
    <2>1. stage = "validate_update" /\ next <= Outputs /\ input = 0
        BY <1>5 DEF ValidateUpdate, StageInv
    <2>2. CASE ~Real
        <3>1. GoOn(Outputs, "validate_finalize")
            BY <1>5, <2>2 DEF ValidateUpdate
        <3> QED
            BY <2>2, <3>1, Moves DEF OutputInv
    <2>3. CASE Real
        <3>1. Append(sha256, Item("output", next)) = Sent("output", session, 0, next)
              /\ Append(sha256_alt, Item("commitment", next))
                     = Sent("commitment", session, 0, next)
            BY <2>1, <2>3, Absorbed DEF OutputInv
        <3>2. OUTK = Sent("output", session, 0, Outputs)
            BY <2>1, <2>3 DEF OutputInv
        <3>3. GoOn(Outputs, "validate_finalize") /\ OUTK' = OUTK
              /\ \/ /\ next < Outputs
                    /\ sha256' = Append(sha256, Item("output", next))
                    /\ sha256_alt' = Append(sha256_alt, Item("commitment", next))
                 \/ next = Outputs /\ sha256_alt' = << >>
            BY <1>5, <2>3, <3>1, <3>2 DEF ValidateUpdate
        <3>4. << >> = Sent("commitment", session, 0, 0)
            BY SentNone
        <3>5. CASE next < Outputs
            <4>1. stage' = "validate_update" /\ next' - 1 = next /\ session' = session
                BY <2>1, <3>3, <3>5, Moves
            <4>2. next # Outputs
                BY <3>5
            <4>3. sha256' = Sent("output", session, 0, next)
                  /\ sha256_alt' = Sent("commitment", session, 0, next)
                BY <3>1, <3>3, <4>2, Zenon
            <4> QED
                BY <3>2, <3>3, <4>1, <4>3 DEF OutputInv
        <3>6. CASE next = Outputs
            <4>1. stage' = "validate_finalize" /\ next' = 1 /\ session' = session
                BY <3>3, <3>6, Moves
            <4> QED
                BY <3>3, <3>4, <3>6, <4>1 DEF OutputInv
        <3> QED
            BY <2>1, <3>5, <3>6
    <2> QED
        BY <2>2, <2>3
<1>6. CASE ValidateFinalize
    <2>1. stage = "validate_finalize" /\ GoOn(Outputs, "prehash")
          /\ sha256_alt' = Append(sha256_alt, Item("commitment", next))
        BY <1>6 DEF ValidateFinalize
    <2>2. next <= Outputs /\ input = 0
        BY <2>1 DEF StageInv
    <2>3. Real => sha256_alt' = Sent("commitment", session, 0, next)
        BY <2>1, <2>2, Absorbed DEF OutputInv
    <2> QED
        BY <2>1, <2>2, <2>3, Moves DEF OutputInv
<1>7. CASE Prehash \/ ClsagPrepare \/ ClsagHash \/ ClsagSign \/ Special \/ EndTx \/ Restart
    <2>1. stage' \in {"none", "prepare", "hash", "sign", "close", "lns_hash", "lns_sign"}
        BY <1>7, LateStages
    <2> QED
        BY <2>1 DEF OutputInv
<1>8. CASE Disturbance \/ UNCHANGED vars
    <2>1. UNCHANGED <<tx_sig_mode, session, stage, next, sha256, sha256_alt, OUTK>>
        BY <1>8 DEF Disturbance, LowLevelCommand, ShowAddress, KeyImageSignature, PinEntered,
                    Disturbs, host, vars, device
    <2> QED
        BY <2>1 DEF OutputInv
<1> QED
    BY <1>1, <1>2, <1>3, <1>4, <1>5, <1>6, <1>7, <1>8 DEF Next, Transaction

-----------------------------------------------------------------------------
(* What holds while the session is not disturbed. *)

\* The hash of the prefix grows piece by piece, and stays.
LEMMA PrefixStep ==
    ASSUME TypeOK, StageInv, PrefixInv, [Next]_vars
    PROVE  PrefixInv'
<1> USE SizesAssumption, HostTypes
<1>1. CASE \E mode \in {"REAL", "FAKE"} : OpenTx(mode)
    <2>1. stage' = "outkeys"
        BY <1>1, Starts DEF OpenTx
    <2> QED
        BY <2>1 DEF PrefixInv
<1>2. CASE GenTxoutKeys
    <2>1. stage' \in {"outkeys", "prefix_init"}
        BY <1>2, Moves DEF GenTxoutKeys
    <2> QED
        BY <2>1 DEF PrefixInv
<1>3. CASE PrefixInit
    <2>1. stage = "prefix_init" /\ GoOn(1, "prefix") /\ keccak_alt' = << >>
        BY <1>3 DEF PrefixInit
    <2>2. stage' = "prefix" /\ next' = 1
        BY <2>1, Moves DEF StageInv
    <2> QED
        BY <2>1, <2>2, SentNone DEF PrefixInv
<1>4. CASE PrefixUpdate
    <2>1. stage = "prefix" /\ GoOn(Pieces, "validate_init")
          /\ next <= Pieces /\ input = 0
        BY <1>4 DEF PrefixUpdate, StageInv
    <2>2. disturbed = {} =>
              Append(keccak_alt, Item("prefix", next)) = Sent("prefix", session, 0, next)
        BY <2>1, Absorbed DEF PrefixInv
    <2>3. CASE next = Pieces
        <3>1. prefixH' = Append(keccak_alt, Item("prefix", next))
            BY <1>4, <2>3 DEF PrefixUpdate
        <3>2. stage' = "validate_init" /\ session' = session /\ disturbed' = disturbed
            BY <2>1, <2>3, Moves
        <3> QED
            BY <2>2, <2>3, <3>1, <3>2 DEF PrefixInv
    <2>4. CASE next < Pieces
        <3>1. next # Pieces
            BY <2>4
        <3>2. keccak_alt' = Append(keccak_alt, Item("prefix", next))
            BY <1>4, <3>1 DEF PrefixUpdate
        <3>3. stage' = "prefix" /\ next' - 1 = next /\ session' = session
              /\ disturbed' = disturbed
            BY <2>1, <2>4, Moves
        <3> QED
            BY <2>2, <3>2, <3>3 DEF PrefixInv
    <2> QED
        BY <2>1, <2>3, <2>4
<1>5. CASE ValidateInit \/ ValidateUpdate \/ ValidateFinalize
    <2>1. stage \in {"validate_init", "validate_update", "validate_finalize"}
        BY <1>5 DEF ValidateInit, ValidateUpdate, ValidateFinalize
    <2>2. CASE ChainLocks
        BY <2>2 DEF ChainLocks, SessionEnds, PrefixInv
    <2>3. CASE prefixH' = prefixH
               /\ (GoOn(Pieces, "validate_update") \/ GoOn(Outputs, "validate_finalize")
                   \/ GoOn(Outputs, "prehash"))
        <3>1. stage' \in {"validate_init", "validate_update", "validate_finalize", "prehash"}
              /\ session' = session /\ disturbed' = disturbed
            BY <2>1, <2>3, Moves
        <3> QED
            BY <2>1, <2>3, <3>1 DEF PrefixInv
    <2> QED
        BY <1>5, <2>2, <2>3 DEF ValidateInit, ValidateUpdate, ValidateFinalize
<1>6. CASE Prehash \/ ClsagPrepare \/ ClsagHash \/ ClsagSign \/ Special \/ EndTx \/ Restart
    BY <1>6, LateStages DEF PrefixInv
<1>7. CASE Disturbance
    <2>1. SUFFICES ASSUME disturbed' = {} PROVE PrefixInv'
        BY DEF PrefixInv
    <2>2. stage = "prefix" => "keccak_alt" \in StillNeeded
        BY DEF StillNeeded
    <2> QED
        BY <1>7, <2>1, <2>2, Undisturbed DEF PrefixInv
<1>8. CASE UNCHANGED vars
    BY <1>8 DEF vars, device, host, history, PrefixInv
<1> QED
    BY <1>1, <1>2, <1>3, <1>4, <1>5, <1>6, <1>7, <1>8 DEF Next, Transaction


\* The prehash grows by the fee, the amounts and the commitments in turn, and the
\* hash of the validated commitments waits for it.
LEMMA PrehashStep ==
    ASSUME TypeOK, StageInv, OutputInv, PrehashInv, [Next]_vars
    PROVE  PrehashInv'
<1> USE SizesAssumption, HostTypes DEF Real
<1>1. CASE \E mode \in {"REAL", "FAKE"} : OpenTx(mode)
    <2>1. stage' = "outkeys"
        BY <1>1, Starts DEF OpenTx
    <2> QED
        BY <2>1 DEF PrehashInv
<1>2. CASE GenTxoutKeys \/ PrefixInit \/ PrefixUpdate
    <2>1. stage' \in {"outkeys", "prefix_init", "prefix"}
          \/ (stage' = "validate_init" /\ next' = 1)
        <3>1. \/ stage = "outkeys" /\ GoOn(Outputs, "prefix_init")
              \/ stage = "prefix_init" /\ GoOn(1, "prefix")
              \/ stage = "prefix" /\ GoOn(Pieces, "validate_init")
            BY <1>2 DEF GenTxoutKeys, PrefixInit, PrefixUpdate
        <3>2. ASSUME NEW count, NEW then, GoOn(count, then)
              PROVE  stage' = stage \/ (stage' = then /\ next' = 1)
            BY <3>2, Zenon DEF GoOn
        <3> QED
            BY <3>1, <3>2
    <2> QED
        BY <2>1 DEF PrehashInv
<1>3. CASE ValidateInit
    <2>1. stage = "validate_init" /\ GoOn(Pieces, "validate_update")
          /\ next <= Pieces /\ input = 0 /\ session \in 1 .. MaxSessions
        BY <1>3 DEF ValidateInit, StageInv
    <2>2. ASSUME Real, disturbed = {} PROVE keccak_alt' = Sent("fee", session, 0, next)
        <3>1. CASE next = 1
            <4>1. keccak_alt' = <<Item("fee", next)>>
                BY <1>3, <2>2, <3>1 DEF ValidateInit
            <4>2. <<Item("fee", next)>> = <<<<"fee", session, 0, 1>>>>
                BY <2>1, <3>1 DEF Item
            <4> QED
                BY <3>1, <4>1, <4>2, SentFirst
        <3>2. CASE next # 1
            <4>1. keccak_alt' = Append(keccak_alt, Item("fee", next))
                BY <1>3, <3>2 DEF ValidateInit
            <4>2. next > 1
                BY <3>2
            <4>3. keccak_alt = Sent("fee", session, 0, next - 1)
                BY <2>1, <2>2, <4>2 DEF PrehashInv
            <4> QED
                BY <2>1, <4>1, <4>3, Absorbed
        <3> QED
            BY <3>1, <3>2
    <2>3. CASE next < Pieces
        <3>1. stage' = "validate_init" /\ next' - 1 = next /\ session' = session
              /\ disturbed' = disturbed /\ tx_sig_mode' = tx_sig_mode
            BY <2>1, <2>3, Moves
        <3> QED
            BY <2>2, <3>1 DEF PrehashInv
    <2>4. CASE next = Pieces
        <3>1. stage' = "validate_update" /\ next' - 1 = 0 /\ session' = session
              /\ disturbed' = disturbed /\ tx_sig_mode' = tx_sig_mode
            BY <2>1, <2>4, Moves
        <3>2. FeeAmounts(session, 0) = Sent("fee", session, 0, Pieces)
            BY <2>1, FeeAmountsNext
        <3> QED
            BY <2>2, <2>4, <3>1, <3>2 DEF PrehashInv
    <2> QED
        BY <2>1, <2>3, <2>4
<1>4. CASE ValidateUpdate
    <2> SUFFICES ASSUME Real', disturbed' = {} PROVE PrehashInv'
        BY DEF PrehashInv
    <2>1. stage = "validate_update" /\ next <= Outputs /\ input = 0
          /\ session \in 1 .. MaxSessions
        BY <1>4 DEF ValidateUpdate, StageInv
    <2>2. CASE ChainLocks
        BY <2>2 DEF ChainLocks, SessionEnds, PrehashInv
    <2>3. CASE GoOn(Outputs, "validate_finalize")
        <3>1. Real /\ disturbed = {} /\ session' = session
            BY <2>3, Moves
        <3>2. keccak_alt' = Append(keccak_alt, Item("amount", next))
              /\ (next = Outputs => shared' = Append(sha256_alt, Item("commitment", next)))
            <4>1. \/ keccak_alt' = Append(keccak_alt, Item("amount", next)) /\ next < Outputs
                  \/ keccak_alt' = Append(keccak_alt, Item("amount", next))
                     /\ shared' = Append(sha256_alt, Item("commitment", next))
                  \/ ChainLocks
                BY <1>4, <3>1 DEF ValidateUpdate
            <4>2. ~ChainLocks
                <5>1. stage' # "none"
                    BY <2>1, <2>3, Moves
                <5> QED
                    BY <5>1 DEF ChainLocks, SessionEnds
            <4> QED
                BY <4>1, <4>2
        <3>3. keccak_alt' = FeeAmounts(session, next)
            <4>1. keccak_alt = FeeAmounts(session, next - 1)
                BY <2>1, <3>1 DEF PrehashInv
            <4>2. Item("amount", next) = <<"amount", session, 0, next>>
                BY <2>1 DEF Item
            <4> QED
                BY <2>1, <3>2, <4>1, <4>2, FeeAmountsNext
        <3>4. CASE next < Outputs
            <4>1. stage' = "validate_update" /\ next' - 1 = next
                BY <2>1, <2>3, <3>4, Moves
            <4> QED
                BY <3>1, <3>3, <4>1 DEF PrehashInv
        <3>5. CASE next = Outputs
            <4>1. stage' = "validate_finalize" /\ next' - 1 = 0
                BY <2>3, <3>5, Moves
            <4>2. Whole(session, 0) = FeeAmounts(session, Outputs)
                BY <2>1, WholeNext
            <4>3. shared' = Sent("commitment", session, 0, Outputs)
                BY <2>1, <3>1, <3>2, <3>5, Absorbed DEF OutputInv
            <4> QED
                BY <3>1, <3>3, <3>5, <4>1, <4>2, <4>3 DEF PrehashInv
        <3> QED
            BY <2>1, <3>4, <3>5
    <2> QED
        BY <1>4, <2>2, <2>3 DEF ValidateUpdate
<1>5. CASE ValidateFinalize
    <2> SUFFICES ASSUME Real', disturbed' = {} PROVE PrehashInv'
        BY DEF PrehashInv
    <2>1. stage = "validate_finalize" /\ next <= Outputs /\ input = 0
          /\ session \in 1 .. MaxSessions /\ GoOn(Outputs, "prehash")
          /\ keccak_alt' = Append(keccak_alt, Item("commitment", next)) /\ shared' = shared
        BY <1>5 DEF ValidateFinalize, StageInv
    <2>2. Real /\ disturbed = {} /\ session' = session
        BY <2>1, Moves
    <2>3. shared = Sent("commitment", session, 0, Outputs)
        BY <2>1, <2>2 DEF PrehashInv
    <2>4. keccak_alt' = Whole(session, next)
        <3>1. keccak_alt = Whole(session, next - 1)
            BY <2>1, <2>2 DEF PrehashInv
        <3>2. Item("commitment", next) = <<"commitment", session, 0, next>>
            BY <2>1 DEF Item
        <3> QED
            BY <2>1, <3>1, <3>2, WholeNext
    <2>5. \/ stage' = "validate_finalize" /\ next' - 1 = next
          \/ stage' = "prehash" /\ next = Outputs
        BY <2>1, Moves
    <2> QED
        BY <2>1, <2>2, <2>3, <2>4, <2>5 DEF PrehashInv
<1>6. CASE Prehash \/ ClsagPrepare \/ ClsagHash \/ ClsagSign \/ Special \/ EndTx \/ Restart
    BY <1>6, LateStages DEF PrehashInv
<1>7. CASE Disturbance
    <2> SUFFICES ASSUME disturbed' = {} PROVE PrehashInv'
        BY DEF PrehashInv
    <2>1. (stage = "validate_init" /\ next > 1) \/ stage = "validate_update"
              => "keccak_alt" \in StillNeeded
        BY DEF StillNeeded
    <2>2. stage \in {"validate_finalize", "prehash"}
              => "keccak_alt" \in StillNeeded /\ "shared" \in StillNeeded
        BY DEF StillNeeded
    <2> QED
        BY <1>7, <2>1, <2>2, Undisturbed DEF PrehashInv
<1>8. CASE UNCHANGED vars
    BY <1>8 DEF vars, device, host, history, PrehashInv
<1> QED
    BY <1>1, <1>2, <1>3, <1>4, <1>5, <1>6, <1>7, <1>8 DEF Next, Transaction

\* A challenge, and a name, grow piece by piece from nothing.
LEMMA SigningStep ==
    ASSUME TypeOK, StageInv, SigningInv, [Next]_vars
    PROVE  SigningInv'
<1> USE SizesAssumption, HostTypes
<1>1. CASE \E mode \in {"REAL", "FAKE"} : OpenTx(mode)
    <2>1. stage' = "outkeys"
        BY <1>1, Starts DEF OpenTx
    <2> QED
        BY <2>1 DEF SigningInv
<1>2. CASE GenTxoutKeys \/ PrefixInit \/ PrefixUpdate \/ ValidateInit \/ ValidateUpdate
           \/ ValidateFinalize
    <2>1. \/ stage = "outkeys" /\ GoOn(Outputs, "prefix_init")
          \/ stage = "prefix_init" /\ GoOn(1, "prefix")
          \/ stage = "prefix" /\ GoOn(Pieces, "validate_init")
          \/ stage = "validate_init" /\ GoOn(Pieces, "validate_update")
          \/ stage = "validate_update" /\ (GoOn(Outputs, "validate_finalize") \/ ChainLocks)
          \/ stage = "validate_finalize" /\ GoOn(Outputs, "prehash")
        BY <1>2 DEF GenTxoutKeys, PrefixInit, PrefixUpdate, ValidateInit, ValidateUpdate,
                    ValidateFinalize
    <2>2. ChainLocks => stage' = "none"
        BY DEF ChainLocks, SessionEnds
    <2>3. stage' \notin {"hash", "sign", "lns_hash", "lns_sign"}
        BY <2>1, <2>2, Moves
    <2> QED
        BY <2>3 DEF SigningInv
<1>3. CASE Prehash \/ ClsagSign \/ LnsSign \/ UnlockSign \/ EndTx \/ Restart
    <2>1. stage' \notin {"hash", "sign", "lns_hash", "lns_sign"}
        <3>1. CASE Prehash \/ ClsagSign
            <4>1. stage \in {"prehash", "sign"} /\ next = 1
                BY <3>1 DEF Prehash, ClsagSign, StageInv
            <4>2. GoOn(1, "prepare") \/ GoOn(1, "close") \/ SessionEnds
                BY <3>1 DEF Prehash, ClsagSign, ChainLocks
            <4> QED
                BY <4>1, <4>2, Moves DEF SessionEnds
        <3>2. CASE LnsSign \/ UnlockSign \/ EndTx \/ Restart
            BY <3>2 DEF LnsSign, UnlockSign, EndTx, Restart, SessionEnds, host
        <3> QED
            BY <1>3, <3>1, <3>2
    <2> QED
        BY <2>1 DEF SigningInv
<1>4. CASE ClsagPrepare
    <2>1. stage' = "hash" /\ next' = 1
        BY <1>4 DEF ClsagPrepare
    <2> QED
        BY <2>1 DEF SigningInv
<1>5. CASE AskLns
    <2>1. stage' = "lns_hash" /\ next' = 1
        BY <1>5, Starts DEF AskLns
    <2> QED
        BY <2>1 DEF SigningInv
<1>6. CASE ClsagHash
    <2> DEFINE absorbed == Append(IF next = 1 THEN << >> ELSE keccak_alt,
                                  Item("challenge", next))
    <2>1. stage = "hash" /\ GoOn(Pieces, "sign") /\ next <= Pieces
          /\ IF next = Pieces THEN shared' = absorbed ELSE keccak_alt' = absorbed
        BY <1>6 DEF ClsagHash, StageInv
    <2>2. disturbed = {} => absorbed = Sent("challenge", session, input, next)
        <3>1. CASE next = 1
            BY <3>1, Absorbed
        <3>2. CASE next # 1
            <4>1. next > 1
                BY <3>2
            <4> QED
                BY <2>1, <3>2, <4>1, Absorbed DEF SigningInv
        <3> QED
            BY <3>1, <3>2
    <2> HIDE DEF absorbed
    <2>3. /\ \/ stage' = "hash" /\ next' - 1 = next /\ next # Pieces
             \/ stage' = "sign" /\ next = Pieces
          /\ session' = session /\ input' = input /\ disturbed' = disturbed
        BY <2>1, Moves
    <2> QED
        BY <2>1, <2>2, <2>3 DEF SigningInv
<1>7. CASE LnsHash
    <2> DEFINE absorbed == Append(IF next = 1 THEN << >> ELSE blake2b, Item("name", next))
    <2>1. stage = "lns_hash" /\ GoOn(Pieces, "lns_sign") /\ next <= Pieces /\ input = 0
          /\ IF next = Pieces THEN shared' = absorbed ELSE blake2b' = absorbed
        BY <1>7 DEF LnsHash, StageInv
    <2>2. disturbed = {} => absorbed = Sent("name", session, 0, next)
        <3>1. CASE next = 1
            BY <2>1, <3>1, Absorbed
        <3>2. CASE next # 1
            <4>1. next > 1
                BY <3>2
            <4> QED
                BY <2>1, <3>2, <4>1, Absorbed DEF SigningInv
        <3> QED
            BY <3>1, <3>2
    <2> HIDE DEF absorbed
    <2>3. /\ \/ stage' = "lns_hash" /\ next' - 1 = next /\ next # Pieces
             \/ stage' = "lns_sign" /\ next = Pieces
          /\ session' = session /\ disturbed' = disturbed
        BY <2>1, Moves
    <2> QED
        BY <2>1, <2>2, <2>3 DEF SigningInv
<1>8. CASE Disturbance
    <2> SUFFICES ASSUME disturbed' = {} PROVE SigningInv'
        BY DEF SigningInv
    <2>1. /\ stage = "hash" /\ next > 1 => "keccak_alt" \in StillNeeded
          /\ stage \in {"sign", "lns_sign"} => "shared" \in StillNeeded
          /\ stage = "lns_hash" /\ next > 1 => "blake2b" \in StillNeeded
        BY DEF StillNeeded
    <2> QED
        BY <1>8, <2>1, Undisturbed DEF SigningInv
<1>9. CASE UNCHANGED vars
    BY <1>9 DEF vars, device, host, history, SigningInv
<1> QED
    BY <1>1, <1>2, <1>3, <1>4, <1>5, <1>6, <1>7, <1>8, <1>9 DEF Next, Transaction, Special

-----------------------------------------------------------------------------
(* Where the items come from, disturbed or not. *)

\* What no session left is of any.
LEMMA FromNowhere ==
    \A s, of : From(<< >>, s, of) /\ From(Spent, s, of) /\ From(Address, s, of)
<1>1. ASSUME NEW s, NEW of PROVE From(<< >>, s, of)
    BY DEF From
<1>2. ASSUME NEW s, NEW of PROVE From(Spent, s, of) /\ From(Address, s, of)
    <2>1. Len(Spent) = 1 /\ Spent[1][1] = "spent"
        BY DEF Spent
    <2>2. Len(Address) = 1 /\ Address[1][1] = "address"
        BY DEF Address
    <2> QED
        BY <2>1, <2>2 DEF From
<1> QED
    BY <1>1, <1>2

\* A context that absorbs a piece stays of the session and of the input.
LEMMA FromAbsorbed ==
    ASSUME NEW c \in Hashes, From(c, session, input), NEW kind, NEW i
    PROVE  From(Append(c, Item(kind, i)), session, input)
<1> DEFINE e == Item(kind, i)
<1>1. e[2] = session /\ e[3] = input
    BY DEF Item
<1> HIDE DEF e
<1>2. Len(c) \in Nat /\ Len(Append(c, e)) = Len(c) + 1 /\ Append(c, e)[Len(c) + 1] = e
      /\ \A j \in 1 .. Len(c) : Append(c, e)[j] = c[j]
    BY DEF Hashes
<1>3. SUFFICES ASSUME NEW j \in 1 .. Len(c) + 1,
                      Append(c, e)[j][1] \notin {"spent", "address"}
               PROVE  Append(c, e)[j][2] = session /\ Append(c, e)[j][3] = input
    BY <1>2 DEF From, e
<1>4. CASE j = Len(c) + 1
    BY <1>1, <1>2, <1>4
<1>5. CASE j \in 1 .. Len(c)
    <2>1. Append(c, e)[j] = c[j]
        BY <1>2, <1>5
    <2> QED
        BY <1>3, <1>5, <2>1 DEF From
<1> QED
    BY <1>2, <1>4, <1>5


\* Every context starts afresh before its first piece.
LEMMA OriginStep ==
    ASSUME TypeOK, StageInv, OriginInv, [Next]_vars
    PROVE  OriginInv'
<1> DEFINE Early == {"outkeys", "prefix_init", "prefix", "validate_init", "validate_update",
                     "validate_finalize", "prehash"}
<1> USE SizesAssumption, HostTypes
<1>1. keccak_alt \in Hashes /\ blake2b \in Hashes /\ << >> \in Hashes
    BY TypeParts, HashTypes DEF DeviceTypes
\* In an early stage only the context of the prefix and of the prehash matters.
<1>2. ASSUME stage' \in Early, From(keccak_alt', session', 0) PROVE OriginInv'
    BY <1>2 DEF OriginInv
<1>3. ASSUME stage' \in {"none", "prepare", "close"} PROVE OriginInv'
    BY <1>3 DEF OriginInv
<1>4. ASSUME NEW mode \in {"REAL", "FAKE"}, OpenTx(mode) PROVE OriginInv'
    <2>1. stage' = "outkeys" /\ keccak_alt' = << >>
        BY <1>4, Starts DEF OpenTx, ResetTx
    <2> QED
        BY <1>2, <2>1, FromNowhere
<1>5. CASE GenTxoutKeys \/ PrefixInit \/ PrefixUpdate \/ ValidateInit \/ ValidateUpdate
           \/ ValidateFinalize
    <2>1. stage \in Early /\ input = 0 /\ From(keccak_alt, session, input)
        BY <1>5 DEF GenTxoutKeys, PrefixInit, PrefixUpdate, ValidateInit, ValidateUpdate,
                    ValidateFinalize, StageInv, OriginInv
    <2>2. CASE ChainLocks
        BY <1>3, <2>2 DEF ChainLocks, SessionEnds
    <2>3. CASE \E count, then : then \in Early /\ GoOn(count, then)
        <3>1. stage' \in Early /\ session' = session
            BY <2>1, <2>3, Moves
        <3>2. \A kind : From(Append(keccak_alt, Item(kind, next)), session, 0)
            BY <1>1, <2>1, FromAbsorbed
        <3>3. From(<<Item("fee", next)>>, session, 0)
            <4>1. From(Append(<< >>, Item("fee", next)), session, 0)
                BY <1>1, <2>1, FromAbsorbed, FromNowhere
            <4>2. Append(<< >>, Item("fee", next)) = <<Item("fee", next)>>
                OBVIOUS
            <4> QED
                BY <4>1, <4>2
        <3>4. \/ keccak_alt' \in {keccak_alt, << >>, Spent, <<Item("fee", next)>>}
              \/ \E kind : keccak_alt' = Append(keccak_alt, Item(kind, next))
              \/ ChainLocks
            BY <1>5 DEF GenTxoutKeys, PrefixInit, PrefixUpdate, ValidateInit, ValidateUpdate,
                        ValidateFinalize
        <3>5. ChainLocks => keccak_alt' = << >>
            BY DEF ChainLocks, ResetTx
        <3>6. From(keccak_alt', session, 0)
            BY <2>1, <3>2, <3>3, <3>4, <3>5, FromNowhere
        <3> QED
            BY <1>2, <3>1, <3>6
    <2>4. \/ ChainLocks \/ GoOn(Outputs, "prefix_init") \/ GoOn(1, "prefix")
          \/ GoOn(Pieces, "validate_init") \/ GoOn(Pieces, "validate_update")
          \/ GoOn(Outputs, "validate_finalize") \/ GoOn(Outputs, "prehash")
        BY <1>5 DEF GenTxoutKeys, PrefixInit, PrefixUpdate, ValidateInit, ValidateUpdate,
                    ValidateFinalize
    <2> QED
        BY <2>2, <2>3, <2>4
<1>6. CASE Prehash \/ ClsagSign
    <2>1. stage \in {"prehash", "sign"} /\ next = 1
        BY <1>6 DEF Prehash, ClsagSign, StageInv
    <2>2. GoOn(1, "prepare") \/ GoOn(1, "close") \/ SessionEnds
        BY <1>6 DEF Prehash, ClsagSign, ChainLocks
    <2>3. stage' \in {"none", "prepare", "close"}
        BY <2>1, <2>2, Moves DEF SessionEnds
    <2> QED
        BY <1>3, <2>3
<1>7. CASE LnsSign \/ EndTx \/ Restart
    BY <1>3, <1>7 DEF LnsSign, EndTx, Restart, SessionEnds
<1>8. CASE ClsagPrepare \/ AskLns
    <2>1. stage' \in {"hash", "lns_hash"} /\ next' = 1
        BY <1>8, Starts DEF ClsagPrepare, AskLns
    <2> QED
        BY <2>1 DEF OriginInv
<1>9. CASE ClsagHash
    <2> DEFINE absorbed == Append(IF next = 1 THEN << >> ELSE keccak_alt,
                                  Item("challenge", next))
    <2>1. stage = "hash" /\ GoOn(Pieces, "sign")
          /\ IF next = Pieces THEN shared' = absorbed ELSE keccak_alt' = absorbed
        BY <1>9 DEF ClsagHash
    <2>2. From(absorbed, session, input)
        <3>1. From(IF next = 1 THEN << >> ELSE keccak_alt, session, input)
            BY <2>1, FromNowhere DEF OriginInv
        <3> QED
            BY <1>1, <3>1, FromAbsorbed
    <2> HIDE DEF absorbed
    <2>3. /\ \/ stage' = "hash" /\ next # Pieces
             \/ stage' = "sign" /\ next = Pieces
          /\ session' = session /\ input' = input
        BY <2>1, Moves DEF StageInv
    <2> QED
        BY <2>1, <2>2, <2>3 DEF OriginInv
<1>10. CASE LnsHash
    <2> DEFINE absorbed == Append(IF next = 1 THEN << >> ELSE blake2b, Item("name", next))
    <2>1. stage = "lns_hash" /\ GoOn(Pieces, "lns_sign") /\ input = 0
          /\ IF next = Pieces THEN shared' = absorbed ELSE blake2b' = absorbed
        BY <1>10 DEF LnsHash, StageInv
    <2>2. From(absorbed, session, input)
        <3>1. From(IF next = 1 THEN << >> ELSE blake2b, session, input)
            BY <2>1, FromNowhere DEF OriginInv
        <3> QED
            BY <1>1, <3>1, FromAbsorbed
    <2> HIDE DEF absorbed
    <2>3. /\ \/ stage' = "lns_hash" /\ next # Pieces
             \/ stage' = "lns_sign" /\ next = Pieces
          /\ session' = session /\ input' = input
        BY <2>1, Moves DEF StageInv
    <2> QED
        BY <2>1, <2>2, <2>3 DEF OriginInv
<1>11. CASE UnlockSign \/ Disturbance \/ UNCHANGED vars
    <2>1. UNCHANGED <<session, stage, next, input>>
        BY <1>11 DEF UnlockSign, Disturbance, LowLevelCommand, ShowAddress,
                     KeyImageSignature, PinEntered, Disturbs, vars, host
    <2>2. keccak_alt' \in {keccak_alt, Spent} /\ shared' \in {shared, Address}
          /\ blake2b' \in {blake2b, Spent}
        BY <1>11 DEF UnlockSign, Disturbance, LowLevelCommand, ShowAddress,
                     KeyImageSignature, PinEntered, Disturbs, vars, device
    <2> QED
        BY <2>1, <2>2, FromNowhere DEF OriginInv
<1> QED
    BY <1>4, <1>5, <1>6, <1>7, <1>8, <1>9, <1>10, <1>11 DEF Next, Transaction, Special

-----------------------------------------------------------------------------
(* The answers, and the checks of the chain. *)

\* A step that gives no answer keeps what holds of the last one.
LEMMA AnswerKept ==
    ASSUME AnswersInv, UNCHANGED <<answer, session, tx_sig_mode>>,
           disturbed' = {} => disturbed = {}
    PROVE  AnswersInv'
BY DEF AnswersInv, PrehashIsWhole, SignsWhatWasHashed, NothingFromElsewhere, Prefix,
       Prehashed, All, Real

\* Nothing has been handed out in a new session.
LEMMA NoAnswerYet ==
    ASSUME answer' = NoAnswer
    PROVE  AnswersInv'
<1>1. answer'.kind = "none" /\ Len(answer'.value) = 0
    BY DEF NoAnswer
<1> QED
    BY <1>1 DEF AnswersInv, PrehashIsWhole, SignsWhatWasHashed, NothingFromElsewhere

\* What is handed out is made of what the invariant says the contexts hold.
LEMMA AnswersStep ==
    ASSUME TypeOK, StageInv, DataInv, OriginInv, AnswersInv, [Next]_vars
    PROVE  AnswersInv'
<1> USE SizesAssumption, HostTypes
<1>1. CASE (\E mode \in {"REAL", "FAKE"} : OpenTx(mode)) \/ AskLns
    <2>1. answer' = NoAnswer
        BY <1>1, Starts DEF OpenTx, AskLns
    <2> QED
        BY <2>1, NoAnswerYet
<1>2. CASE GenTxoutKeys \/ PrefixInit \/ PrefixUpdate \/ ValidateInit \/ ValidateUpdate
           \/ ValidateFinalize \/ ClsagHash \/ LnsHash
    <2>1. (\E count, then : GoOn(count, then) /\ UNCHANGED answer) \/ ChainLocks
        BY <1>2 DEF GenTxoutKeys, PrefixInit, PrefixUpdate, ValidateInit, ValidateUpdate,
                    ValidateFinalize, ClsagHash, LnsHash
    <2>2. UNCHANGED <<answer, session, tx_sig_mode, disturbed>>
        BY <2>1, Moves DEF ChainLocks, SessionEnds
    <2> QED
        BY <2>2, AnswerKept
<1>3. CASE Prehash
    <2>1. stage = "prehash" /\ input = 0
        BY <1>3 DEF Prehash, StageInv
    <2>2. CASE ChainLocks
        <3>1. UNCHANGED <<answer, session, tx_sig_mode, disturbed>>
            BY <2>2 DEF ChainLocks, SessionEnds
        <3> QED
            BY <3>1, AnswerKept
    <2>3. CASE ~ChainLocks
        <3>1. /\ prefixH = Prefix
              /\ answer' = [kind |-> "prehash", input |-> input,
                            value |-> <<prefixH, keccak_alt, <<Item("proof", 1)>> >>]
              /\ GoOn(1, "prepare")
            BY <1>3, <2>3 DEF Prehash, Answered
        <3>2. UNCHANGED <<session, tx_sig_mode, disturbed>>
            BY <3>1, Moves
        <3>3. Item("proof", 1) = <<"proof", session, 0, 1>>
            BY <2>1 DEF Item
        <3>4. PrehashIsWhole'
            <4>1. Real /\ disturbed = {} => keccak_alt = Prehashed
                BY <2>1, WholeIsPrehashed DEF DataInv, PrehashInv
            <4>2. Prefix' = Prefix /\ Prehashed' = Prehashed
                BY <3>2 DEF Prefix, Prehashed, All
            <4>3. answer'.value = <<prefixH, keccak_alt, <<Item("proof", 1)>> >>
                BY <3>1
            <4> QED
                BY <3>1, <3>2, <3>3, <4>1, <4>2, <4>3 DEF PrehashIsWhole, Real
        <3>5. SignsWhatWasHashed'
            BY <3>1 DEF SignsWhatWasHashed
        <3>6. NothingFromElsewhere'
            <4>1. From(prefixH, session, 0)
                BY <3>1 DEF Prefix, All, From
            <4>2. From(keccak_alt, session, 0)
                BY <2>1 DEF OriginInv
            <4>3. From(<<Item("proof", 1)>>, session, 0)
                BY <3>3 DEF From
            <4>4. answer'.input = 0 /\ Len(answer'.value) = 3
                  /\ answer'.value[1] = prefixH /\ answer'.value[2] = keccak_alt
                  /\ answer'.value[3] = <<Item("proof", 1)>>
                BY <2>1, <3>1
            <4>5. \A i \in 1 .. Len(answer'.value) : From(answer'.value[i], session, 0)
                BY <4>1, <4>2, <4>3, <4>4
            <4> QED
                BY <3>2, <4>4, <4>5 DEF NothingFromElsewhere, From
        <3> QED
            BY <3>4, <3>5, <3>6 DEF AnswersInv
    <2> QED
        BY <2>2, <2>3
<1>4. CASE ClsagSign \/ LnsSign
    <2>1. /\ UNCHANGED <<session, tx_sig_mode, disturbed>>
          /\ \/ /\ stage = "sign"
                /\ answer' = [kind |-> "clsag", input |-> input, value |-> <<shared>>]
             \/ /\ stage = "lns_sign" /\ input = 0
                /\ answer' = [kind |-> "lns", input |-> input, value |-> <<shared>>]
        BY <1>4, Moves DEF ClsagSign, LnsSign, Answered, SessionEnds, StageInv
    <2>2. PrehashIsWhole'
        BY <2>1 DEF PrehashIsWhole
    <2>3. SignsWhatWasHashed'
        <3>1. \A kind : All(kind, input, Pieces)' = All(kind, input', Pieces)
            BY <2>1 DEF All
        <3>2. disturbed = {} =>
                  /\ stage = "sign" => shared = All("challenge", input, Pieces)
                  /\ stage = "lns_sign" => shared = All("name", 0, Pieces)
            BY AllIsSent DEF DataInv, SigningInv
        <3>3. /\ stage = "sign" => answer'.kind = "clsag"
              /\ stage = "lns_sign" => answer'.kind = "lns"
              /\ answer'.value = <<shared>> /\ answer'.input = input
            BY <2>1
        <3> QED
            BY <2>1, <3>2, <3>3 DEF SignsWhatWasHashed, All
    <2>4. NothingFromElsewhere'
        <3>1. From(shared, session, input)
            BY <2>1 DEF OriginInv
        <3>2. answer'.input = input /\ Len(answer'.value) = 1 /\ answer'.value[1] = shared
            BY <2>1
        <3>3. \A i \in 1 .. Len(answer'.value) : From(answer'.value[i], session, input)
            BY <3>1, <3>2
        <3> QED
            BY <2>1, <3>2, <3>3 DEF NothingFromElsewhere, From
    <2> QED
        BY <2>2, <2>3, <2>4 DEF AnswersInv
<1>5. CASE Disturbance
    <2>1. UNCHANGED <<answer, session, tx_sig_mode>>
        BY <1>5 DEF Disturbance, LowLevelCommand, ShowAddress, KeyImageSignature, PinEntered,
                    Disturbs, host
    <2>2. disturbed' = {} => disturbed = {}
        BY <1>5, Undisturbed
    <2> QED
        BY <2>1, <2>2, AnswerKept
<1>6. CASE ClsagPrepare \/ UnlockSign \/ EndTx \/ Restart \/ UNCHANGED vars
    <2>1. UNCHANGED <<answer, session, tx_sig_mode, disturbed>>
        BY <1>6 DEF ClsagPrepare, UnlockSign, EndTx, Restart, SessionEnds, host, history, vars
    <2> QED
        BY <2>1, AnswerKept
<1> QED
    BY <1>1, <1>2, <1>3, <1>4, <1>5, <1>6 DEF Next, Transaction, Special

\* No check of the chain fails while the session is undisturbed: the outputs are
\* those that were generated, the commitments those that were validated, and the
\* prefix is the one that was hashed.
LEMMA HonestStep ==
    ASSUME TypeOK, StageInv, DataInv, HonestHostIsServed, [Next]_vars
    PROVE  HonestHostIsServed'
<1> USE SizesAssumption, HostTypes
<1>1. ASSUME UNCHANGED locked, disturbed' = {} => disturbed = {} PROVE HonestHostIsServed'
    BY <1>1 DEF HonestHostIsServed
<1>2. ASSUME NEW count, NEW then, GoOn(count, then) PROVE HonestHostIsServed'
    BY <1>1, <1>2 DEF GoOn
<1>3. ASSUME NEW first, SessionStarts(first) PROVE HonestHostIsServed'
    BY <1>3 DEF SessionStarts, HonestHostIsServed
<1>4. CASE ValidateUpdate
    <2>1. CASE GoOn(Outputs, "validate_finalize")
        BY <1>2, <2>1
    <2>2. CASE ~GoOn(Outputs, "validate_finalize")
        <3>1. Real /\ next = Outputs /\ Append(sha256, Item("output", next)) # OUTK
              /\ stage = "validate_update" /\ input = 0
            BY <1>4, <2>2 DEF ValidateUpdate, StageInv
        <3>2. sha256 = Sent("output", session, 0, next - 1)
              /\ OUTK = Sent("output", session, 0, Outputs)
            BY <3>1 DEF DataInv, OutputInv
        <3>3. Append(sha256, Item("output", next)) = OUTK
            BY <3>1, <3>2, Absorbed
        <3> QED
            BY <3>1, <3>3
    <2> QED
        BY <2>1, <2>2
<1>5. CASE Prehash
    <2>1. CASE GoOn(1, "prepare")
        BY <1>2, <2>1
    <2>2. CASE ~GoOn(1, "prepare")
        <3>1. ~((Real => sha256_alt = shared) /\ prefixH = Prefix) /\ stage = "prehash"
              /\ disturbed' = disturbed
            BY <1>5, <2>2 DEF Prehash, ChainLocks
        <3>2. disturbed = {} => prefixH = Prefix
            BY <3>1, WholeIsPrehashed DEF DataInv, PrefixInv
        <3>3. disturbed = {} /\ Real => sha256_alt = shared
            BY <3>1 DEF DataInv, OutputInv, PrehashInv
        <3> QED
            BY <3>1, <3>2, <3>3 DEF HonestHostIsServed
    <2> QED
        BY <2>1, <2>2
<1>6. CASE \E mode \in {"REAL", "FAKE"} : OpenTx(mode)
    BY <1>3, <1>6 DEF OpenTx
<1>7. CASE GenTxoutKeys \/ PrefixInit \/ PrefixUpdate \/ ValidateInit \/ ValidateFinalize
           \/ ClsagHash \/ ClsagSign
    BY <1>2, <1>7 DEF GenTxoutKeys, PrefixInit, PrefixUpdate, ValidateInit, ValidateFinalize,
                      ClsagHash, ClsagSign
<1>8. CASE AskLns \/ LnsHash
    BY <1>2, <1>3, <1>8 DEF AskLns, LnsHash
<1>9. CASE ClsagPrepare \/ LnsSign \/ UnlockSign \/ EndTx \/ Restart \/ UNCHANGED vars
    <2>1. UNCHANGED <<locked, disturbed>>
        BY <1>9 DEF ClsagPrepare, LnsSign, UnlockSign, EndTx, Restart, history, vars
    <2> QED
        BY <1>1, <2>1
<1>10. CASE Disturbance
    <2>1. UNCHANGED locked
        BY <1>10 DEF Disturbance, LowLevelCommand, ShowAddress, KeyImageSignature, PinEntered,
                     Disturbs
    <2> QED
        BY <1>1, <1>10, <2>1, Undisturbed
<1> QED
    BY <1>4, <1>5, <1>6, <1>7, <1>8, <1>9, <1>10 DEF Next, Transaction, Special

-----------------------------------------------------------------------------
(* The theorems. *)

\* The invariant holds when the application starts.
LEMMA InvInit == Init => IInv
<1> SUFFICES ASSUME Init PROVE IInv
    OBVIOUS
<1> USE SizesAssumption
<1>1. TypeOK
    <2>1. DeviceTypes /\ AnswerType
        BY HashTypes DEF Init, DeviceTypes, AnswerType
    <2>2. WalkTypes
        BY DEF Init, WalkTypes, Stages
    <2>3. HistoryTypes
        BY DEF Init, HistoryTypes
    <2> QED
        BY <2>1, <2>2, <2>3, TypeParts
<1>2. stage = "none" /\ next = 1 /\ input = 0 /\ answer = NoAnswer /\ locked = FALSE
    BY DEF Init
<1>3. StageInv
    BY <1>2 DEF StageInv
<1>4. DataInv /\ OriginInv
    BY <1>2 DEF DataInv, OutputInv, PrefixInv, PrehashInv, SigningInv, OriginInv
<1>5. AnswersInv
    <2>1. answer.kind = "none" /\ Len(answer.value) = 0
        BY <1>2 DEF NoAnswer
    <2> QED
        BY <2>1 DEF AnswersInv, PrehashIsWhole, SignsWhatWasHashed, NothingFromElsewhere
<1>6. HonestHostIsServed
    BY <1>2, Zenon DEF HonestHostIsServed
<1> QED
    BY <1>1, <1>3, <1>4, <1>5, <1>6 DEF IInv

\* Every step keeps it.
LEMMA InvStep == IInv /\ [Next]_vars => IInv'
<1> SUFFICES ASSUME IInv, [Next]_vars PROVE IInv'
    OBVIOUS
<1>1. TypeOK /\ StageInv /\ OutputInv /\ PrefixInv /\ PrehashInv /\ SigningInv /\ DataInv
      /\ OriginInv /\ AnswersInv /\ HonestHostIsServed
    BY DEF IInv, DataInv
<1>2. TypeOK' /\ StageInv'
    BY <1>1, TypeStep, StageStep
<1>3. DataInv'
    BY <1>1, OutputStep, PrefixStep, PrehashStep, SigningStep DEF DataInv
<1>4. OriginInv' /\ AnswersInv' /\ HonestHostIsServed'
    BY <1>1, OriginStep, AnswersStep, HonestStep
<1> QED
    BY <1>2, <1>3, <1>4 DEF IInv

\* It always holds.
LEMMA Invariant == Spec => []IInv
BY InvInit, InvStep, PTL DEF Spec

\* Every hash context and result is a sequence of the items the commands hash
\* (g_monero_vstate_t, oxen_types.h).
THEOREM TypeCorrect == Spec => []TypeOK
<1>1. IInv => TypeOK
    BY DEF IInv
<1> QED
    BY <1>1, Invariant, PTL

\* For every number of outputs, inputs, pieces and sessions: a check of the chain
\* of hashes (oxen_prehash.c:162, 214 and 225) never stops a host
\* that sends what it should, unless its session was disturbed.
THEOREM HonestHostCorrect == Spec => []HonestHostIsServed
<1>1. IInv => HonestHostIsServed
    BY DEF IInv
<1> QED
    BY <1>1, Invariant, PTL

\* The prehash of a real, undisturbed transaction (oxen_prehash.c:84) is made of its
\* prefix, fee, amounts and commitments, all of them, once and in order.
THEOREM PrehashCorrect == Spec => []PrehashIsWhole
<1>1. IInv => PrehashIsWhole
    BY DEF IInv, AnswersInv
<1> QED
    BY <1>1, Invariant, PTL

\* An undisturbed ring signature (oxen_clsag.c:139) is made on the challenge of its
\* own input, and a name is signed as it was sent (oxen_key.c:572).
THEOREM SigningCorrect == Spec => []SignsWhatWasHashed
<1>1. IInv => SignsWhatWasHashed
    BY DEF IInv, AnswersInv
<1> QED
    BY <1>1, Invariant, PTL

\* Disturbed or not, no answer is made of what another session or another input
\* left in the memory of the device.
THEOREM OriginCorrect == Spec => []NothingFromElsewhere
<1>1. IInv => NothingFromElsewhere
    BY DEF IInv, AnswersInv
<1> QED
    BY <1>1, Invariant, PTL
=============================================================================
