------------------------------ MODULE OxenIoProofs ------------------------------
(***************************************************************************)
(* Proofs about the exchange buffer, for all handlers that keep to what     *)
(* HandlersAssumption says, messages cut anywhere, and buffers of any size. *)
(*                                                                         *)
(* While the handler reads, the offset is where the next field starts, or   *)
(* one tag before it, once a placeholder of the spend key was taken in a    *)
(* transaction.  After the discard the length is that of the answer.  What  *)
(* is left in the buffer afterwards leaves room for one more status while   *)
(* "Back" may still send it.                                                *)
(***************************************************************************)
EXTENDS OxenIo, FiniteSetTheorems, TLAPS

\* The names in an answer: of a step, or of what is put in it otherwise.
Fields ==
    {"exception", "view_priv"}
    \cup UNION {{Step(i, n).field : n \in 1 .. Len(Program[i])} : i \in Commands}
Part == [field : Fields, size : 0 .. MONERO_IO_BUFFER_LENGTH]
Parts == Seq(Part)

Running == phase # "idle"
Reading == phase = "run" /\ OnlyDid(Moves \cup Looks, ins, pc)
Discarded == Did({"discard"}, ins, pc)

CommandInv ==
    /\ phase = "idle" => io_offset = 0 /\ reads = {} /\ pieces = <<>>
    /\ Running => ins \in Commands /\ pc \in 1 .. Len(Program[ins]) + 1 /\ sent = NoAnswer
    /\ phase = "asked" => pc <= Len(Program[ins]) /\ Step(ins, pc).op \in Asks
    /\ pieces \in Parts

\* The tag of a placeholder of the spend key was not stepped over.
TookSpendKey == secret = "spend" /\ Did({"key"}, ins, pc)
Behind == IF TookSpendKey /\ tagged THEN 32 ELSE 0

ReadingInv ==
    Reading =>
        /\ tx_in_progress = tagged
        /\ io_offset + Behind = Start[ins][tagged][pc]
        /\ TookSpendKey => ins \in TakesSpendKey

AnswerInv ==
    Running =>
        /\ Discarded => io_length = SizeOf(pieces) /\ io_length <= Written[ins][pc]
        /\ ~Discarded => io_length <= 255
        /\ ~Did(Writes, ins, pc) => pieces = <<>>

MessageInv == phase = "run" /\ ~Clobbered(ins, pc) => intact

LengthInv ==
    phase = "idle" =>
        /\ io_length <= MONERO_APDU_LENGTH
        /\ disp_addr_mode # "zero" => io_length + 2 <= MONERO_APDU_LENGTH

ScreenInv ==
    /\ disp_addr_mode = "mode" => phase = "asked" /\ question = "address"
    /\ phase = "asked" /\ display = "address" => question = "address"
    /\ phase # "asked" => question = "none"

IInv ==
    /\ ExchangeTypeOK /\ CommandInv /\ ReadingInv /\ AnswerInv /\ MessageInv /\ LengthInv /\ ScreenInv
    /\ FieldsReadWhereSent /\ PointersReadTheMessage /\ AnswersFit /\ QuestionsCanBeAnswered

-----------------------------------------------------------------------------
(* Byte counts.                                                             *)

LEMMA BytesAreFinite ==
    ASSUME NEW b \in Nat, NEW n \in Nat, NEW sizes, \A k \in 1 .. n - 1 : sizes[k] \in 0 .. b
    PROVE  IsFiniteSet(Bytes(sizes, n)) /\ Before(sizes, n) \in Nat
<1>1. IsFiniteSet((1 .. n) \X (1 .. b))
  <2>1. IsFiniteSet(1 .. n) /\ IsFiniteSet(1 .. b)
    BY FS_Interval
  <2> QED
    BY <2>1, FS_Product
<1>2. Bytes(sizes, n) \subseteq (1 .. n) \X (1 .. b)
  <2> SUFFICES ASSUME NEW k \in 1 .. n - 1, NEW j \in 1 .. sizes[k]
               PROVE  k \in 1 .. n /\ j \in 1 .. b
    BY DEF Bytes
  <2> QED
    OBVIOUS
<1>3. IsFiniteSet(Bytes(sizes, n))
  BY <1>1, <1>2, FS_Subset
<1> QED
  BY <1>3, FS_CardinalityType DEF Before

\* Nothing is before the first part; a part ends where the next one starts; what
\* begins later does not begin before; and only the parts before count.
LEMMA BeforeFirst == ASSUME NEW sizes PROVE Before(sizes, 1) = 0
<1>1. Bytes(sizes, 1) = {}
  BY DEF Bytes
<1> QED
  BY <1>1, FS_EmptySet DEF Before

LEMMA BeforeNext ==
    ASSUME NEW b \in Nat, NEW n \in Nat \ {0}, NEW sizes, \A k \in 1 .. n : sizes[k] \in 0 .. b
    PROVE  Before(sizes, n + 1) = Before(sizes, n) + sizes[n]
<1> DEFINE last == {n} \X (1 .. sizes[n])
<1>1. Bytes(sizes, n + 1) = Bytes(sizes, n) \cup last
  <2>1. \A k : k \in 1 .. (n + 1) - 1 <=> k \in 1 .. n - 1 \/ k = n
    OBVIOUS
  <2> QED
    BY <2>1, Zenon DEF Bytes
<1>2. Bytes(sizes, n) \cap last = {}
  BY DEF Bytes
<1>3. IsFiniteSet(Bytes(sizes, n)) /\ Cardinality(Bytes(sizes, n)) \in Nat
  <2>1. \A k \in 1 .. n - 1 : sizes[k] \in 0 .. b
    OBVIOUS
  <2> QED
    BY <2>1, BytesAreFinite DEF Before
<1>4. IsFiniteSet(last) /\ Cardinality(last) = sizes[n]
  <2>1. IsFiniteSet({n}) /\ Cardinality({n}) = 1
    BY FS_Singleton
  <2>2. /\ IsFiniteSet(1 .. sizes[n])
        /\ Cardinality(1 .. sizes[n]) = IF 1 > sizes[n] THEN 0 ELSE sizes[n] - 1 + 1
    <3>1. 1 \in Int /\ sizes[n] \in Int
      OBVIOUS
    <3> QED
      BY <3>1, FS_Interval, Zenon
  <2>3. Cardinality(1 .. sizes[n]) = sizes[n] /\ sizes[n] \in Nat
    BY <2>2
  <2>4. IsFiniteSet(last) /\ Cardinality(last) = Cardinality({n}) * Cardinality(1 .. sizes[n])
    BY <2>1, <2>2, FS_Product, Zenon
  <2> QED
    BY <2>1, <2>3, <2>4
<1> HIDE DEF last
<1>5. Cardinality(Bytes(sizes, n) \cup last) = Cardinality(Bytes(sizes, n)) + sizes[n] - Cardinality({})
  BY <1>2, <1>3, <1>4, FS_Union
<1>6. sizes[n] \in Int /\ Cardinality({}) = 0
  BY FS_EmptySet
<1>7. Cardinality(Bytes(sizes, n + 1)) = Cardinality(Bytes(sizes, n) \cup last)
  BY <1>1, Zenon
<1> QED
  BY <1>3, <1>5, <1>6, <1>7 DEF Before

LEMMA BeforeMonotone ==
    ASSUME NEW b \in Nat, NEW n \in Nat, NEW m \in 1 .. n, NEW sizes,
           \A k \in 1 .. n - 1 : sizes[k] \in 0 .. b
    PROVE  Before(sizes, m) <= Before(sizes, n)
<1>1. Bytes(sizes, m) \subseteq Bytes(sizes, n)
  BY DEF Bytes
<1>2. IsFiniteSet(Bytes(sizes, n))
  BY BytesAreFinite
<1> QED
  BY <1>1, <1>2, FS_Subset DEF Before

LEMMA BeforeSame ==
    ASSUME NEW n \in Nat, NEW sizes, NEW others, \A k \in 1 .. n - 1 : sizes[k] = others[k]
    PROVE  Before(sizes, n) = Before(others, n)
<1>1. Bytes(sizes, n) = Bytes(others, n)
  BY DEF Bytes
<1> QED
  BY <1>1 DEF Before

-----------------------------------------------------------------------------
(* The sizes of an answer.                                                  *)

LEMMA SizeOfNothing == SizeOf(<<>>) = 0
BY BeforeFirst DEF SizeOf

LEMMA SizeOfType == ASSUME NEW parts \in Parts PROVE SizeOf(parts) \in Nat
<1> DEFINE sizes == [k \in 1 .. Len(parts) |-> parts[k].size]
<1>1. Len(parts) \in Nat /\ \A k \in 1 .. Len(parts) : sizes[k] \in 0 .. MONERO_IO_BUFFER_LENGTH
  <2>1. Len(parts) \in Nat /\ \A k \in 1 .. Len(parts) : parts[k] \in Part
    BY DEF Parts
  <2> QED
    BY <2>1 DEF Part
<1> HIDE DEF sizes
<1>2. Before(sizes, Len(parts) + 1) \in Nat
  <2>1. Len(parts) + 1 \in Nat /\ MONERO_IO_BUFFER_LENGTH \in Nat
    BY <1>1, LengthsAssumption
  <2>2. \A k \in 1 .. (Len(parts) + 1) - 1 : sizes[k] \in 0 .. MONERO_IO_BUFFER_LENGTH
    BY <1>1
  <2> QED
    BY <2>1, <2>2, BytesAreFinite
<1> QED
  BY <1>2 DEF sizes, SizeOf

LEMMA SizeOfAppend ==
    ASSUME NEW parts \in Parts, NEW part \in Part
    PROVE  /\ Append(parts, part) \in Parts
           /\ SizeOf(Append(parts, part)) = SizeOf(parts) + part.size
<1> DEFINE n == Len(parts) + 1
           sizes == [k \in 1 .. Len(parts) |-> parts[k].size]
           longer == [k \in 1 .. n |-> Append(parts, part)[k].size]
<1>1. Append(parts, part) \in Parts /\ Len(Append(parts, part)) = n
  BY DEF Parts
<1>2. \A k \in 1 .. n : longer[k] = IF k < n THEN sizes[k] ELSE part.size
  BY DEF Parts
<1>3. \A k \in 1 .. n : longer[k] \in 0 .. MONERO_IO_BUFFER_LENGTH
  <2>1. \A k \in 1 .. n : k < n => sizes[k] \in 0 .. MONERO_IO_BUFFER_LENGTH
    <3>1. Len(parts) \in Nat /\ \A k \in 1 .. Len(parts) : parts[k] \in Part
      BY DEF Parts
    <3> QED
      BY <3>1 DEF Part
  <2>2. part.size \in 0 .. MONERO_IO_BUFFER_LENGTH
    BY DEF Part
  <2> QED
    BY <1>2, <2>1, <2>2
<1>4. longer[n] = part.size
  BY <1>2 DEF Parts
<1>5. \A k \in 1 .. n - 1 : longer[k] = sizes[k]
  BY <1>2 DEF Parts
<1>6. n \in Nat \ {0}
  BY DEF Parts
<1>7. SizeOf(Append(parts, part)) = Before(longer, n + 1) /\ SizeOf(parts) = Before(sizes, n)
  BY <1>1 DEF SizeOf
<1> HIDE DEF longer, sizes, n
<1>8. Before(longer, n + 1) = Before(longer, n) + longer[n]
  BY <1>3, <1>6, BeforeNext, LengthsAssumption
<1>9. Before(longer, n) = Before(sizes, n)
  BY <1>5, <1>6, BeforeSame
<1> QED
  BY <1>1, <1>4, <1>7, <1>8, <1>9

-----------------------------------------------------------------------------
(* The handlers.                                                            *)

LEMMA LengthIs ==
    ASSUME NEW i \in Commands
    PROVE  Program[i] \in Seq(Steps) /\ Len(Program[i]) \in Nat
<1>1. Program[i] \in Seq(Steps)
  BY StepsAssumption
<1> QED
  BY <1>1

LEMMA StepIs ==
    ASSUME NEW i \in Commands, NEW n \in 1 .. Len(Program[i])
    PROVE  /\ Len(Program[i]) \in Nat /\ Step(i, n).op \in Ops 
           /\ Step(i, n).size \in Nat /\ Step(i, n).size <= MONERO_IO_BUFFER_LENGTH
           /\ Step(i, n).op \in Received => Step(i, n).size > 0
           /\ IsSecret(Step(i, n)) \/ Step(i, n).op = "seal" => Step(i, n).size = 32
           /\ Step(i, n).op \in {"varint", "unbounded"} => Step(i, n).size = 2
           /\ Step(i, n).op \in Asks =>
                    Step(i, n).field \in {"amount", "special", "address", "view key"}
           /\ Step(i, n).op = "show" => Step(i, n).field \in {"menu", "info"}
<1>1. Step(i, n) \in Steps
  BY LengthIs DEF Step
<1>2. /\ Step(i, n).op \in Ops 
      /\ Step(i, n).size \in Nat /\ Step(i, n).size <= MONERO_IO_BUFFER_LENGTH
  BY <1>1, LengthsAssumption DEF Steps
<1> QED
  BY <1>2, LengthIs, StepsAssumption

\* What a handler did before the next step is what it did before this one, and this
\* one.
LEMMA DidNext ==
    ASSUME NEW i, NEW n \in Nat \ {0}, NEW ops
    PROVE  /\ Did(ops, i, n + 1) <=> Did(ops, i, n) \/ Step(i, n).op \in ops
           /\ OnlyDid(ops, i, n + 1) <=> OnlyDid(ops, i, n) /\ Step(i, n).op \in ops
           /\ Clobbered(i, n + 1) <=> Clobbered(i, n) \/ Clobbers(Step(i, n))
<1>1. \A k : k \in 1 .. (n + 1) - 1 <=> k \in 1 .. n - 1 \/ k = n
  OBVIOUS
<1>2. Did(ops, i, n + 1) <=> Did(ops, i, n) \/ Step(i, n).op \in ops
  BY <1>1, Zenon DEF Did
<1>3. OnlyDid(ops, i, n + 1) <=> OnlyDid(ops, i, n) /\ Step(i, n).op \in ops
  BY <1>1, Zenon DEF OnlyDid
<1>4. Clobbered(i, n + 1) <=> Clobbered(i, n) \/ Clobbers(Step(i, n))
  BY <1>1, Zenon DEF Clobbered
<1> QED
  BY <1>2, <1>3, <1>4

LEMMA DidFirst ==
    ASSUME NEW i, NEW ops
    PROVE  ~Did(ops, i, 1) /\ OnlyDid(ops, i, 1) /\ ~Clobbered(i, 1)
BY DEF Did, OnlyDid, Clobbered

LEMMA PartSizeIs ==
    ASSUME NEW i \in Commands, NEW n \in 1 .. Len(Program[i]), NEW t \in BOOLEAN
    PROVE  /\ PartSize(Step(i, n), t) \in 0 .. MONERO_IO_BUFFER_LENGTH + 32
           /\ Step(i, n).op \in Received => PartSize(Step(i, n), t) > 0
           /\ IsSecret(Step(i, n)) /\ t => Step(i, n).size = 32 /\ PartSize(Step(i, n), t) = 64
<1>1. IsSecret(Step(i, n)) => Step(i, n).op \in Received
  BY DEF IsSecret, Received, Moves
<1>2. /\ Step(i, n).size \in Nat /\ Step(i, n).size <= MONERO_IO_BUFFER_LENGTH
      /\ Step(i, n).op \in Received => Step(i, n).size > 0
      /\ IsSecret(Step(i, n)) => Step(i, n).size = 32
  BY StepIs
<1> QED
  BY <1>1, <1>2, LengthsAssumption DEF PartSize

LEMMA StartIs ==
    ASSUME NEW i \in Commands, NEW t \in BOOLEAN
    PROVE  /\ Start[i][t][1] = 0
           /\ \A n \in 1 .. Len(Program[i]) + 1 : Start[i][t][n] \in Nat
           /\ \A n \in 1 .. Len(Program[i]) :
                    Start[i][t][n + 1] = Start[i][t][n] + PartSize(Step(i, n), t)
           /\ \A n \in 1 .. Len(Program[i]) + 1 : \A m \in 1 .. n : Start[i][t][m] <= Start[i][t][n]
<1> DEFINE len == Len(Program[i])
           sizes == [k \in 1 .. len |-> PartSize(Step(i, k), t)]
           b == MONERO_IO_BUFFER_LENGTH + 32
<1>1. len \in Nat /\ b \in Nat
  BY LengthIs, LengthsAssumption
<1>2. \A n \in 1 .. len + 1 : Start[i][t][n] = Before(sizes, n)
  BY DEF Start
<1>3. \A k \in 1 .. len : sizes[k] = PartSize(Step(i, k), t) /\ sizes[k] \in 0 .. b
  BY PartSizeIs
<1> HIDE DEF len, sizes, b
<1>4. ASSUME NEW n \in 1 .. len + 1
      PROVE  n \in Nat /\ \A k \in 1 .. n - 1 : sizes[k] \in 0 .. b
  BY <1>1, <1>3
<1>5. Start[i][t][1] = 0
  BY <1>1, <1>2, BeforeFirst
<1>6. ASSUME NEW n \in 1 .. len + 1
      PROVE  Start[i][t][n] \in Nat
  BY <1>1, <1>2, <1>4, BytesAreFinite
<1>7. ASSUME NEW n \in 1 .. len
      PROVE  Start[i][t][n + 1] = Start[i][t][n] + PartSize(Step(i, n), t)
  <2>1. n \in Nat \ {0} /\ n \in 1 .. len + 1 /\ n + 1 \in 1 .. len + 1
    BY <1>1
  <2>2. \A k \in 1 .. n : sizes[k] \in 0 .. b
    BY <1>1, <1>3
  <2>3. Before(sizes, n + 1) = Before(sizes, n) + sizes[n]
    BY <1>1, <2>1, <2>2, BeforeNext
  <2> QED
    BY <1>2, <1>3, <2>1, <2>3
<1>8. ASSUME NEW n \in 1 .. len + 1, NEW m \in 1 .. n
      PROVE  Start[i][t][m] <= Start[i][t][n]
  <2>1. m \in 1 .. len + 1
    BY <1>1
  <2>2. Before(sizes, m) <= Before(sizes, n)
    BY <1>1, <1>4, BeforeMonotone
  <2> QED
    BY <1>2, <2>1, <2>2
<1> QED
  BY <1>5, <1>6, <1>7, <1>8 DEF len

LEMMA WrittenIs ==
    ASSUME NEW i \in Commands
    PROVE  /\ \A n \in 1 .. Len(Program[i]) + 1 :
                Written[i][n] \in Nat /\ Written[i][n] + 4 <= MONERO_APDU_LENGTH
           /\ \A n \in 1 .. Len(Program[i]) :
                    Written[i][n + 1] = Written[i][n] + WrittenSize(Step(i, n))
<1> DEFINE len == Len(Program[i])
           sizes == [k \in 1 .. len |-> WrittenSize(Step(i, k))]
           b == MONERO_IO_BUFFER_LENGTH
<1>1. len \in Nat /\ b \in Nat
  BY LengthIs, LengthsAssumption
<1>2. \A n \in 1 .. len + 1 : Written[i][n] = Before(sizes, n)
  BY DEF Written
<1>3. \A k \in 1 .. len : sizes[k] = WrittenSize(Step(i, k)) /\ sizes[k] \in 0 .. b
  <2> SUFFICES ASSUME NEW k \in 1 .. len
               PROVE  WrittenSize(Step(i, k)) \in 0 .. b
    OBVIOUS
  <2>1. Step(i, k).size \in Nat /\ Step(i, k).size <= MONERO_IO_BUFFER_LENGTH
    BY StepIs
  <2> QED
    BY <2>1, LengthsAssumption DEF WrittenSize
<1> HIDE DEF len, sizes, b
<1>4. ASSUME NEW n \in 1 .. len + 1
      PROVE  n \in Nat /\ \A k \in 1 .. n - 1 : sizes[k] \in 0 .. b
  BY <1>1, <1>3
<1>5. ASSUME NEW n \in 1 .. len + 1
      PROVE  Written[i][n] \in Nat
  BY <1>1, <1>2, <1>4, BytesAreFinite
<1>6. ASSUME NEW n \in 1 .. len + 1
      PROVE  Written[i][n] + 4 <= MONERO_APDU_LENGTH
  <2>1. len + 1 \in 1 .. len + 1 /\ n \in 1 .. len + 1
    BY <1>1
  <2>2. Written[i][n] <= Written[i][len + 1]
    BY <1>1, <1>2, <1>4, <2>1, BeforeMonotone
  <2>3. Written[i][len + 1] + 4 <= MONERO_APDU_LENGTH
    BY HandlersAssumption DEF LeavesRoom, len
  <2> QED
    BY <1>5, <2>1, <2>2, <2>3, LengthsAssumption
<1>7. ASSUME NEW n \in 1 .. len
      PROVE  Written[i][n + 1] = Written[i][n] + WrittenSize(Step(i, n))
  <2>1. n \in Nat \ {0} /\ n \in 1 .. len + 1 /\ n + 1 \in 1 .. len + 1
    BY <1>1
  <2>2. \A k \in 1 .. n : sizes[k] \in 0 .. b
    BY <1>1, <1>3
  <2>3. Before(sizes, n + 1) = Before(sizes, n) + sizes[n]
    BY <1>1, <2>1, <2>2, BeforeNext
  <2> QED
    BY <1>2, <1>3, <2>1, <2>3
<1> QED
  BY <1>5, <1>6, <1>7 DEF len

-----------------------------------------------------------------------------
(* The message.                                                             *)

\* A part of the message is a field where it starts, or the tag after it.
IsPart(part, i, t) ==
    \E n \in 1 .. Len(Program[i]) :
        /\ Step(i, n).op \in Received
        /\ \/ part = [field |-> Step(i, n).field, start |-> Start[i][t][n], size |-> Step(i, n).size]
           \/ t /\ IsSecret(Step(i, n))
              /\ part = [field |-> "hmac", start |-> Start[i][t][n] + 32, size |-> 32]

LEMMA LayoutIs ==
    ASSUME NEW i \in Commands, NEW t \in BOOLEAN
    PROVE  \A part : part \in Layout[i][t] <=> IsPart(part, i, t)
BY DEF Layout, IsPart

\* No two parts of a message start at the same byte.
LEMMA PartsApart ==
    ASSUME NEW i \in Commands, NEW t \in BOOLEAN,
           NEW part, IsPart(part, i, t), NEW other, IsPart(other, i, t), part.start = other.start
    PROVE  part = other
<1> DEFINE at == Start[i][t]
<1>1. \A n \in 1 .. Len(Program[i]) : Step(i, n).op \in Received =>
            /\ at[n] \in Nat /\ Step(i, n).size > 0 /\ Step(i, n).size \in Nat
            /\ \A m \in 1 .. Len(Program[i]) : m > n => at[m] >= at[n] + PartSize(Step(i, n), t)
  <2> SUFFICES ASSUME NEW n \in 1 .. Len(Program[i]), Step(i, n).op \in Received
               PROVE  /\ at[n] \in Nat /\ Step(i, n).size > 0 /\ Step(i, n).size \in Nat
                      /\ \A m \in 1 .. Len(Program[i]) : m > n =>
                            at[m] >= at[n] + PartSize(Step(i, n), t)
    OBVIOUS
  <2>1. Len(Program[i]) \in Nat /\ Step(i, n).size > 0 /\ Step(i, n).size \in Nat
    BY StepIs
  <2>2. n \in 1 .. Len(Program[i]) + 1 /\ at[n] \in Nat
    <3>1. n \in 1 .. Len(Program[i]) + 1
      BY <2>1
    <3> HIDE DEF at
    <3>2. \A k \in 1 .. Len(Program[i]) + 1 : Start[i][t][k] \in Nat
      BY StartIs
    <3> QED
      BY <3>1, <3>2 DEF at
  <2>3. ASSUME NEW m \in 1 .. Len(Program[i]), m > n
        PROVE  at[m] >= at[n] + PartSize(Step(i, n), t)
    <3>1. n + 1 \in 1 .. m /\ m \in 1 .. Len(Program[i]) + 1
      BY <2>1, <2>3
    <3>2. at[n + 1] = at[n] + PartSize(Step(i, n), t)
      BY StartIs
    <3>3. at[n + 1] <= at[m]
      BY <3>1, StartIs
    <3>4. at[m] \in Nat /\ at[n + 1] \in Nat
      BY <2>1, <3>1, StartIs
    <3> QED
      BY <3>2, <3>3, <3>4
  <2> QED
    BY <2>1, <2>2, <2>3
<1>2. \A n \in 1 .. Len(Program[i]) : IsSecret(Step(i, n)) /\ t =>
            Step(i, n).size = 32 /\ PartSize(Step(i, n), t) = 64
  BY PartSizeIs
<1>3. \A n \in 1 .. Len(Program[i]) : Step(i, n).op \in Received =>
            PartSize(Step(i, n), t) \in Nat /\ PartSize(Step(i, n), t) > 0
  BY PartSizeIs, LengthsAssumption
<1>4. PICK n \in 1 .. Len(Program[i]) :
        /\ Step(i, n).op \in Received
        /\ \/ part = [field |-> Step(i, n).field, start |-> at[n], size |-> Step(i, n).size]
           \/ t /\ IsSecret(Step(i, n))
              /\ part = [field |-> "hmac", start |-> at[n] + 32, size |-> 32]
  BY DEF IsPart
<1>5. PICK m \in 1 .. Len(Program[i]) :
        /\ Step(i, m).op \in Received
        /\ \/ other = [field |-> Step(i, m).field, start |-> at[m], size |-> Step(i, m).size]
           \/ t /\ IsSecret(Step(i, m))
              /\ other = [field |-> "hmac", start |-> at[m] + 32, size |-> 32]
  BY DEF IsPart
<1> HIDE DEF at
<1>6. part.start \in {at[n], at[n] + 32} /\ (part.start = at[n] + 32 => t /\ IsSecret(Step(i, n)))
  BY <1>1, <1>4
<1>7. other.start \in {at[m], at[m] + 32} /\ (other.start = at[m] + 32 => t /\ IsSecret(Step(i, m)))
  BY <1>1, <1>5
<1>8. n = m
  <2>1. /\ at[n] \in Nat /\ PartSize(Step(i, n), t) \in Nat
        /\ at[n] <= part.start /\ part.start < at[n] + PartSize(Step(i, n), t)
    BY <1>1, <1>2, <1>3, <1>4, <1>6
  <2>2. /\ at[m] \in Nat /\ PartSize(Step(i, m), t) \in Nat
        /\ at[m] <= other.start /\ other.start < at[m] + PartSize(Step(i, m), t)
    BY <1>1, <1>2, <1>3, <1>5, <1>7
  <2>3. ~(n < m)
    BY <1>1, <1>4, <2>1, <2>2
  <2>4. ~(m < n)
    BY <1>1, <1>5, <2>1, <2>2
  <2> QED
    BY <2>3, <2>4
<1> QED
  BY <1>1, <1>4, <1>5, <1>8

LEMMA FieldIs ==
    ASSUME ins \in Commands, tagged \in BOOLEAN, NEW n \in 1 .. Len(Program[ins]),
           Step(ins, n).op \in Received
    PROVE  LET start == Start[ins][tagged][n]
           IN  FieldAt(start, Step(ins, n).size) =
                    IF start + Step(ins, n).size > io_length THEN "none" ELSE Step(ins, n).field
<1> DEFINE part == [field |-> Step(ins, n).field, start |-> Start[ins][tagged][n],
                    size |-> Step(ins, n).size]
           there == {p \in Layout[ins][tagged] :
                        p.start = Start[ins][tagged][n] /\ p.size = Step(ins, n).size}
<1>1. IsPart(part, ins, tagged)
  BY DEF IsPart
<1>2. there = {part}
  <2>1. part \in there
    BY <1>1, LayoutIs
  <2>2. ASSUME NEW p \in there PROVE p = part
    <3>1. IsPart(p, ins, tagged) /\ p.start = part.start
      BY <2>2, LayoutIs
    <3> QED
      BY <1>1, <3>1, PartsApart
  <2> QED
    BY <2>1, <2>2
<1>3. (CHOOSE p \in there : TRUE) = part
  BY <1>2
<1> QED
  BY <1>2, <1>3 DEF FieldAt

LEMMA TagIs ==
    ASSUME ins \in Commands, tagged, tagged \in BOOLEAN, NEW n \in 1 .. Len(Program[ins]),
           IsSecret(Step(ins, n))
    PROVE  LET start == Start[ins][tagged][n] + 32
           IN  FieldAt(start, 32) = IF start + 32 > io_length THEN "none" ELSE "hmac"
<1> DEFINE part == [field |-> "hmac", start |-> Start[ins][tagged][n] + 32, size |-> 32]
           there == {p \in Layout[ins][tagged] : p.start = Start[ins][tagged][n] + 32 /\ p.size = 32}
<1>1. IsPart(part, ins, tagged)
  BY DEF IsPart, IsSecret, Received, Moves
<1>2. there = {part}
  <2>1. part \in there
    BY <1>1, LayoutIs
  <2>2. ASSUME NEW p \in there PROVE p = part
    <3>1. IsPart(p, ins, tagged) /\ p.start = part.start
      BY <2>2, LayoutIs
    <3> QED
      BY <1>1, <3>1, PartsApart
  <2> QED
    BY <2>1, <2>2
<1>3. (CHOOSE p \in there : TRUE) = part
  BY <1>2
<1>4. there # {} /\ part.field = "hmac"
  BY <1>2
<1> HIDE DEF part
<1> QED
  BY <1>3, <1>4, Zenon DEF FieldAt

-----------------------------------------------------------------------------
(* Steps of a handler.                                                      *)

LEMMA Typed ==
    ASSUME IInv
    PROVE  /\ io_offset \in Nat /\ io_length \in Nat /\ io_offset <= io_length
           /\ io_length <= MONERO_IO_BUFFER_LENGTH
           /\ tagged \in BOOLEAN /\ tx_in_progress \in BOOLEAN /\ secret \in Secrets
           /\ pieces \in Parts
<1>1. ExchangeTypeOK /\ CommandInv
  BY DEF IInv
<1>2. io_length \in 0 .. MONERO_IO_BUFFER_LENGTH /\ io_offset \in 0 .. io_length
  BY <1>1 DEF ExchangeTypeOK
<1>3. /\ io_offset \in Nat /\ io_length \in Nat /\ io_offset <= io_length
      /\ io_length <= MONERO_IO_BUFFER_LENGTH
  BY <1>2, LengthsAssumption
<1>4. tagged \in BOOLEAN /\ tx_in_progress \in BOOLEAN /\ secret \in Secrets
  BY <1>1, Zenon DEF ExchangeTypeOK
<1>5. pieces \in Parts
  BY <1>1 DEF CommandInv
<1> QED
  BY <1>3, <1>4, <1>5

AtStep == phase = "run" /\ pc <= Len(Program[ins])

\* Where a handler is, and what it has done after the step.
LEMMA StepTaken ==
    ASSUME IInv, AtStep
    PROVE  /\ ins \in Commands /\ pc \in 1 .. Len(Program[ins])
           /\ pc \in Nat \ {0} /\ Len(Program[ins]) \in Nat
           /\ pc + 1 \in 1 .. Len(Program[ins]) + 1 /\ pc \in 1 .. Len(Program[ins]) + 1
           /\ sent = NoAnswer /\ question = "none" /\ disp_addr_mode \in {"zero", "other"}
BY LengthIs DEF IInv, ExchangeTypeOK, AtStep, CommandInv, ScreenInv, Running

LEMMA Proceeds ==
    ASSUME IInv, AtStep, Proceed
    PROVE  /\ pc' = pc + 1 /\ pc' \in Nat /\ phase' = "run"
           /\ UNCHANGED <<ins, secret, tagged, sent>>
<1>1. pc \in Nat
  BY StepTaken
<1> QED
  BY <1>1 DEF Proceed, AtStep

LEMMA StepDone ==
    ASSUME IInv, AtStep, Proceed
    PROVE  /\ \A ops : Did(ops, ins, pc)' <=> Did(ops, ins, pc) \/ Now.op \in ops
           /\ Reading' <=> Reading /\ Now.op \in Moves \cup Looks
           /\ Discarded' <=> Discarded \/ Now.op = "discard"
           /\ Clobbered(ins, pc)' <=> Clobbered(ins, pc) \/ Clobbers(Now)
           /\ TookSpendKey' <=> secret = "spend" /\ (Did({"key"}, ins, pc) \/ Now.op = "key")
<1>1. pc \in Nat \ {0}
  BY StepTaken
<1>2. ins' = ins /\ pc' = pc + 1 /\ phase' = "run" /\ secret' = secret
  BY DEF Proceed, AtStep
<1>3. ASSUME NEW ops PROVE Did(ops, ins, pc)' <=> Did(ops, ins, pc) \/ Now.op \in ops
  <2>1. Did(ops, ins, pc)' <=> Did(ops, ins, pc + 1)
    BY <1>2 DEF Did, Step
  <2> QED
    BY <1>1, <2>1, DidNext DEF Now
<1>4. Reading' <=> OnlyDid(Moves \cup Looks, ins, pc + 1)
  BY <1>2 DEF Reading, OnlyDid, Step
<1>5. Clobbered(ins, pc)' <=> Clobbered(ins, pc + 1)
  BY <1>2 DEF Clobbered, Step
<1>6. Reading' <=> Reading /\ Now.op \in Moves \cup Looks
  BY <1>1, <1>4, DidNext DEF Now, Reading, AtStep
<1>7. Clobbered(ins, pc)' <=> Clobbered(ins, pc) \/ Clobbers(Now)
  BY <1>1, <1>5, DidNext DEF Now
<1> QED
  BY <1>2, <1>3, <1>6, <1>7 DEF Discarded, TookSpendKey

LEMMA HandlerKeepsTo ==
    ASSUME NEW i \in Commands, NEW n \in 1 .. Len(Program[i])
    PROVE  /\ ReadsFirst(i, n) /\ DiscardsBetween(i, n) /\ FollowsInTime(i, n)
           /\ OnlyFeeUnbounded(i, n) /\ NothingAfterSpendKey(i, n)
BY HandlersAssumption

\* What a step of the handler leaves to be shown of it.
LEMMA StepKeeps ==
    ASSUME IInv, AtStep, Proceed,
           ExchangeTypeOK', ReadingInv', AnswerInv', FieldsReadWhereSent',
           pieces' \in Parts, misused' = {}, Clobbers(Now) \/ intact' = intact,
           UNCHANGED question, disp_addr_mode' # "mode"
    PROVE  IInv'
<1>1. phase' = "run" /\ sent' = sent /\ ins' = ins /\ pc' = pc + 1
  BY DEF Proceed, AtStep
<1>2. CommandInv'
  BY <1>1, StepTaken DEF CommandInv, Running
<1>3. MessageInv'
  BY <1>1, StepDone DEF MessageInv, IInv, AtStep
<1>4. LengthInv' /\ ScreenInv'
  BY <1>1, StepTaken DEF LengthInv, ScreenInv
<1>5. PointersReadTheMessage' /\ AnswersFit' /\ QuestionsCanBeAnswered'
  BY <1>1 DEF PointersReadTheMessage, AnswersFit, QuestionsCanBeAnswered, IInv
<1> QED
  BY <1>2, <1>3, <1>4, <1>5 DEF IInv

LEMMA AnswerStays ==
    ASSUME IInv, AtStep, Proceed, UNCHANGED <<io_length, pieces>>,
           Now.op \notin Writes \cup {"discard"}
    PROVE  AnswerInv' /\ pieces' \in Parts
<1>1. ins' = ins /\ pc' = pc + 1 /\ phase' = "run"
  BY DEF Proceed, AtStep
<1>2. Discarded' <=> Discarded
  BY StepDone
<1>3. Did(Writes, ins, pc)' <=> Did(Writes, ins, pc)
  BY StepDone
<1>4. Written[ins][pc] \in Nat /\ Written[ins][pc + 1] = Written[ins][pc]
  BY StepTaken, WrittenIs DEF WrittenSize, Now
<1>5. SizeOf(pieces)' = SizeOf(pieces) /\ Written[ins][pc]' = Written[ins][pc + 1]
  BY <1>1
<1> QED
  BY <1>1, <1>2, <1>3, <1>4, <1>5 DEF AnswerInv, Running, AtStep, IInv, CommandInv

LEMMA NotReading ==
    ASSUME IInv, AtStep, Proceed, Now.op \notin Moves \cup Looks
    PROVE  ReadingInv'
BY StepDone DEF ReadingInv

-----------------------------------------------------------------------------
(* Reading the command.                                                     *)

\* A field is only read while the offset is known, and after a placeholder of the
\* spend key only the public key of VERIFY_KEY is.
LEMMA WhereReading ==
    ASSUME IInv, AtStep, Now.op \in Moves \cup {"unbounded"}
    PROVE  /\ Reading /\ tx_in_progress = tagged
           /\ io_offset + Behind = Start[ins][tagged][pc]
           /\ TookSpendKey =>
                /\ ins = "VERIFY_KEY" /\ Now.op = "fetch" /\ Now.field = "pub" /\ Now.size = 32
                /\ pc - 1 \in 1 .. Len(Program[ins]) /\ Step(ins, pc - 1).op = "key"
<1>1. ReadsFirst(ins, pc) /\ NothingAfterSpendKey(ins, pc)
  BY StepTaken, HandlerKeepsTo
<1>2. Reading
  BY <1>1 DEF ReadsFirst, Reading, AtStep, Now
<1>3. /\ tx_in_progress = tagged /\ io_offset + Behind = Start[ins][tagged][pc]
      /\ TookSpendKey => ins \in TakesSpendKey
  BY <1>2 DEF ReadingInv, IInv
<1>4. TookSpendKey => pc - 1 \in 1 .. Len(Program[ins])
  BY StepTaken, DidFirst DEF TookSpendKey
<1>5. TookSpendKey =>
        /\ ins = "VERIFY_KEY" /\ Now = [op |-> "fetch", field |-> "pub", size |-> 32]
        /\ Step(ins, pc - 1).op = "key"
  BY <1>1, <1>3 DEF NothingAfterSpendKey, TookSpendKey, Now
<1> QED
  BY <1>2, <1>3, <1>4, <1>5

LEMMA ReadingMoves ==
    ASSUME IInv, AtStep, Proceed, UNCHANGED tx_in_progress,
           Reading => /\ io_offset' + Behind' = io_offset + Behind + PartSize(Now, tagged)
                      /\ TookSpendKey' => ins \in TakesSpendKey
    PROVE  ReadingInv'
<1>1. ins' = ins /\ pc' = pc + 1 /\ tagged' = tagged
  BY DEF Proceed
<1>2. tagged \in BOOLEAN
  BY DEF IInv, ExchangeTypeOK
<1>3. Start[ins][tagged][pc + 1] = Start[ins][tagged][pc] + PartSize(Now, tagged)
  BY <1>2, StepTaken, StartIs DEF Now
<1>4. Reading' => Reading
  BY StepDone
<1>5. Start[ins][tagged][pc]' = Start[ins][tagged][pc + 1]
  BY <1>1
<1> QED
  BY <1>1, <1>3, <1>4, <1>5 DEF ReadingInv, IInv

\* What is read right may be remembered, and so may the two exceptions.
LEMMA ReadKeeps ==
    ASSUME IInv, AtStep, Proceed, Now.op \in Moves \cup {"unbounded"},
           NEW got, Read(Now.field, got), io_offset' \in 0 .. io_length, ReadingInv',
           \/ got = Now.field
           \/ ins = "VERIFY_KEY" /\ secret = "spend" /\ tagged /\ Now.field = "pub" /\ got = "hmac"
           \/ ins = "VALIDATE fee" /\ Now.field = "fee" /\ got = "none"
    PROVE  IInv'
<1>1. ExchangeTypeOK'
  <2>1. pc' \in Nat /\ phase' = "run"
    BY Proceeds
  <2>3. ExchangeTypeOK
    BY DEF IInv
  <2>2. UNCHANGED <<ins, secret, tagged, sent, io_length, intact, tx_in_progress, display,
                    question, disp_addr_mode>>
    BY DEF Proceed, Read, screen
  <2> QED
    BY <2>1, <2>2, <2>3 DEF ExchangeTypeOK
<1>2. AnswerInv' /\ pieces' \in Parts
  <2>1. Now.op \notin Writes \cup {"discard"}
    BY DEF Moves, Writes
  <2> QED
    BY <2>1, AnswerStays DEF Read
<1>3. FieldsReadWhereSent'
  <2>1. reads' = reads \cup {[field |-> Now.field, got |-> got]}
    BY DEF Read
  <2>2. ins' = ins /\ secret' = secret /\ tagged' = tagged
    BY DEF Proceed
  <2> SUFFICES ASSUME NEW r \in reads'
               PROVE  \/ r.got = r.field
                      \/ ins' = "VERIFY_KEY" /\ secret' = "spend" /\ tagged'
                         /\ r = [field |-> "pub", got |-> "hmac"]
                      \/ ins' = "VALIDATE fee" /\ r = [field |-> "fee", got |-> "none"]
    BY DEF FieldsReadWhereSent
  <2>3. CASE r \in reads
    BY <2>2, <2>3 DEF FieldsReadWhereSent, IInv
  <2>4. CASE r = [field |-> Now.field, got |-> got]
    BY <2>2, <2>4
  <2> QED
    BY <2>1, <2>3, <2>4
<1>4. misused' = {} /\ intact' = intact /\ UNCHANGED screen
  BY DEF Read, IInv, PointersReadTheMessage
<1>5. question' = question /\ disp_addr_mode' # "mode"
  BY <1>4, StepTaken DEF screen
<1> QED
  BY <1>1, <1>2, <1>3, <1>4, <1>5, StepKeeps

LEMMA FetchKeeps == ASSUME IInv, FetchStep PROVE IInv'
<1>1. AtStep /\ Now.op \in {"fetch", "point"} /\ Proceed
  BY DEF FetchStep, At, AtStep
<1>2. Now.op \in Moves /\ Now.op \in Received /\ Now.op # "key" /\ ~IsSecret(Now)
  BY <1>1 DEF Moves, Received, IsSecret
<1>3. /\ Available >= Now.size /\ io_offset' = io_offset + Now.size
      /\ Read(Now.field, FieldAt(io_offset, Now.size))
  BY DEF FetchStep
<1>4. io_offset \in Nat /\ io_length \in Nat /\ tagged \in BOOLEAN
  BY Typed
<1>5. Now.size \in Nat
  BY <1>1, StepTaken, StepIs DEF Now
<1>10. io_offset + Now.size <= io_length /\ io_offset' \in 0 .. io_length
  BY <1>3, <1>4, <1>5 DEF Available
<1>6. /\ Reading /\ tx_in_progress = tagged
      /\ io_offset + Behind = Start[ins][tagged][pc]
  BY <1>1, <1>2, WhereReading
<1>7. ReadingInv'
  <2>1. PartSize(Now, tagged) = Now.size
    BY <1>2 DEF PartSize
  <2>2. TookSpendKey' <=> TookSpendKey
    BY <1>1, <1>2, StepDone DEF TookSpendKey
  <2>3. Behind' = Behind /\ Behind \in Nat
    BY <1>1, <2>2 DEF Behind, Proceed
  <2>4. TookSpendKey => ins \in TakesSpendKey
    BY <1>6 DEF IInv, ReadingInv
  <2> QED
    BY <1>1, <1>3, <1>4, <1>5, <2>1, <2>2, <2>3, <2>4, ReadingMoves DEF Read
<1>8. CASE Behind = 0
  <2>1. FieldAt(io_offset, Now.size) = Now.field
    BY <1>1, <1>2, <1>4, <1>5, <1>6, <1>8, <1>10, StepTaken, FieldIs DEF Now
  <2> QED
    BY <1>1, <1>2, <1>3, <1>7, <1>10, <2>1, ReadKeeps
<1>9. CASE Behind # 0
  <2>1. TookSpendKey /\ tagged /\ Behind = 32 /\ secret = "spend"
    BY <1>9 DEF Behind, TookSpendKey
  <2>2. ins = "VERIFY_KEY" /\ Now.field = "pub" /\ Now.size = 32
    BY <1>1, <1>2, <2>1, WhereReading
  <2>3. PICK k \in 1 .. Len(Program[ins]) : k + 1 = pc /\ Step(ins, k).op = "key"
    <3>1. pc \in Nat /\ (pc - 1) + 1 = pc
      BY <1>1, StepTaken
    <3>2. pc - 1 \in 1 .. Len(Program[ins]) /\ Step(ins, pc - 1).op = "key"
      BY <1>1, <1>2, <2>1, WhereReading
    <3> QED
      BY <3>1, <3>2
  <2>4. IsSecret(Step(ins, k)) /\ ins \in Commands
    BY <1>1, <2>3, StepTaken DEF IsSecret
  <2>5. PartSize(Step(ins, k), tagged) = 64
    BY <1>4, <2>1, <2>4, PartSizeIs
  <2>6. k \in 1 .. Len(Program[ins]) + 1
    BY <1>1, StepTaken
  <2>7. /\ Start[ins][tagged][k] \in Nat
        /\ Start[ins][tagged][k + 1] = Start[ins][tagged][k] + 64
    BY <1>4, <2>4, <2>5, <2>6, StartIs
  <2>8. io_offset = Start[ins][tagged][k] + 32
    <3>1. Start[ins][tagged][pc] = Start[ins][tagged][k] + 64
      BY <2>3, <2>7
    <3>2. io_offset + 32 = Start[ins][tagged][pc] /\ io_offset \in Nat
      BY <1>4, <1>6, <2>1
    <3> QED
      BY <2>7, <3>1, <3>2
  <2>9. FieldAt(io_offset, Now.size) = "hmac"
    <3>1. FieldAt(Start[ins][tagged][k] + 32, 32) =
            IF Start[ins][tagged][k] + 32 + 32 > io_length THEN "none" ELSE "hmac"
      BY <1>4, <2>1, <2>4, TagIs
    <3> QED
      BY <1>4, <1>10, <2>2, <2>7, <2>8, <3>1
  <2> QED
    BY <1>1, <1>2, <1>3, <1>7, <1>10, <2>1, <2>2, <2>9, ReadKeeps
<1> QED
  BY <1>8, <1>9

\* What follows a secret in a transaction is its tag, and its field is read right.
LEMMA SecretIs ==
    ASSUME IInv, AtStep, Proceed, IsSecret(Now),
           Available >= IF tx_in_progress THEN 64 ELSE 32
    PROVE  /\ Reading /\ ~TookSpendKey /\ tx_in_progress = tagged
           /\ FieldAt(io_offset, 32) = Now.field
           /\ io_offset + (IF tx_in_progress THEN 64 ELSE 32) <= io_length
           /\ PartSize(Now, tagged) = IF tx_in_progress THEN 64 ELSE 32
<1>1. Now.op \in {"open", "key"} /\ Now.op \in Moves /\ Now.op \in Received /\ Now.op # "fetch"
  BY DEF IsSecret, Moves, Received
<1>2. Reading /\ tx_in_progress = tagged /\ ~TookSpendKey
  BY <1>1, WhereReading
<1>3. io_offset + Behind = Start[ins][tagged][pc] /\ Behind = 0
  BY <1>1, <1>2, WhereReading DEF Behind
<1>4. io_offset \in Nat /\ io_length \in Nat
  BY Typed
<1>5. io_offset = Start[ins][tagged][pc]
  BY <1>3, <1>4
<1>6. io_offset + (IF tx_in_progress THEN 64 ELSE 32) <= io_length
  BY <1>4 DEF Available
<1>7. Now.size = 32 /\ PartSize(Now, tagged) = IF tagged THEN 64 ELSE 32
  <2>1. Now.size = 32
    BY StepTaken, StepIs DEF Now
  <2> QED
    BY <1>1, <2>1 DEF PartSize
<1>8. FieldAt(io_offset, 32) = Now.field
  <2>1. ins \in Commands /\ pc \in 1 .. Len(Program[ins]) /\ tagged \in BOOLEAN
    BY StepTaken, Typed
  <2>2. FieldAt(Start[ins][tagged][pc], 32) =
            IF Start[ins][tagged][pc] + 32 > io_length THEN "none" ELSE Now.field
    BY <1>1, <1>7, <2>1, FieldIs DEF Now
  <2>3. ~(io_offset + 32 > io_length)
    BY <1>4, <1>6
  <2> QED
    BY <1>5, <2>2, <2>3
<1> QED
  BY <1>2, <1>6, <1>7, <1>8

LEMMA FetchDecryptKeeps == ASSUME IInv, FetchDecrypt PROVE IInv'
<1>1. /\ AtStep /\ Now.op = "open" /\ Proceed
      /\ Available >= IF tx_in_progress THEN 64 ELSE 32
      /\ io_offset' = io_offset + IF tx_in_progress THEN 64 ELSE 32
      /\ Read(Now.field, FieldAt(io_offset, 32))
  BY DEF FetchDecrypt, At, AtStep
<1>2. IsSecret(Now) /\ Now.op \in Moves
  BY <1>1 DEF IsSecret, Moves
<1>3. /\ ~TookSpendKey /\ FieldAt(io_offset, 32) = Now.field
      /\ io_offset + (IF tx_in_progress THEN 64 ELSE 32) <= io_length
      /\ PartSize(Now, tagged) = IF tx_in_progress THEN 64 ELSE 32
  BY <1>1, <1>2, SecretIs
<1>4. io_offset' \in 0 .. io_length
  BY <1>1, <1>3, Typed
<1>5. ~TookSpendKey'
  BY <1>1, <1>3, StepDone DEF TookSpendKey
<1>6. io_offset \in Nat /\ Behind = 0 /\ Behind' = 0
  BY <1>3, <1>5, Typed DEF Behind
<1>7. ReadingInv'
  <2>1. UNCHANGED tx_in_progress
    BY <1>1 DEF Read
  <2> QED
    BY <1>1, <1>3, <1>5, <1>6, <2>1, ReadingMoves
<1> QED
  BY <1>1, <1>2, <1>3, <1>4, <1>7, ReadKeeps

\* The key that was sent is found, and only after a placeholder of the spend key is
\* the offset left at the tag.
LEMMA FetchDecryptKeyKeeps == ASSUME IInv, FetchDecryptKey PROVE IInv'
<1>1. /\ AtStep /\ Now.op = "key" /\ Proceed
      /\ Available >= IF tx_in_progress THEN 64 ELSE 32
      /\ KeyIs("spend") => ins \in TakesSpendKey
      /\ io_offset' = io_offset + IF tx_in_progress /\ ~KeyIs("spend") THEN 64 ELSE 32
      /\ Read(Now.field, FieldAt(io_offset, 32))
  BY DEF FetchDecryptKey, At, AtStep
<1>2. IsSecret(Now) /\ Now.op \in Moves
  BY <1>1 DEF IsSecret, Moves
<1>3. /\ ~TookSpendKey /\ FieldAt(io_offset, 32) = Now.field /\ tx_in_progress = tagged
      /\ io_offset + (IF tx_in_progress THEN 64 ELSE 32) <= io_length
      /\ PartSize(Now, tagged) = IF tx_in_progress THEN 64 ELSE 32
  BY <1>1, <1>2, SecretIs
<1>4. KeyIs("spend") <=> secret = "spend"
  BY <1>3 DEF KeyIs
<1>5. io_offset \in Nat /\ io_length \in Nat /\ Behind = 0
  BY <1>3, Typed DEF Behind
<1>6. io_offset' \in 0 .. io_length
  BY <1>1, <1>3, <1>5
<1>7. TookSpendKey' <=> secret = "spend"
  BY <1>1, StepDone
<1>8. Behind' = IF secret = "spend" /\ tagged THEN 32 ELSE 0
  BY <1>1, <1>7 DEF Behind, Proceed
<1>9. ReadingInv'
  <2>1. UNCHANGED tx_in_progress
    BY <1>1 DEF Read
  <2>2. io_offset' + Behind' = io_offset + Behind + PartSize(Now, tagged)
    <3>1. CASE secret = "spend"
      <4>1. io_offset' = io_offset + 32
        BY <1>1, <1>4, <3>1
      <4>2. Behind' = IF tagged THEN 32 ELSE 0
        BY <1>8, <3>1
      <4>3. PartSize(Now, tagged) = IF tagged THEN 64 ELSE 32
        BY <1>3
      <4> QED
        BY <1>5, <4>1, <4>2, <4>3
    <3>2. CASE secret # "spend"
      <4>1. io_offset' = io_offset + IF tx_in_progress THEN 64 ELSE 32
        BY <1>1, <1>4, <3>2
      <4>2. Behind' = 0
        BY <1>8, <3>2
      <4> QED
        BY <1>3, <1>5, <4>1, <4>2
    <3> QED
      BY <3>1, <3>2
  <2>3. TookSpendKey' => ins \in TakesSpendKey
    BY <1>1, <1>4, <1>7
  <2> QED
    BY <1>1, <2>1, <2>2, <2>3, ReadingMoves
<1> QED
  BY <1>1, <1>2, <1>3, <1>6, <1>9, ReadKeeps

LEMMA FetchVarintKeeps == ASSUME IInv, FetchVarint PROVE IInv'
<1>1. /\ AtStep /\ Now.op = "varint" /\ Proceed
      /\ Available >= 2 /\ io_offset' = io_offset + 2
      /\ Read(Now.field, FieldAt(io_offset, 2))
  BY DEF FetchVarint, At, AtStep
<1>2. Now.op \in Moves /\ Now.op \in Received /\ ~IsSecret(Now) /\ Now.op # "fetch"
  BY <1>1 DEF IsSecret, Moves, Received
<1>3. ~TookSpendKey /\ io_offset + Behind = Start[ins][tagged][pc]
  BY <1>1, <1>2, WhereReading
<1>4. /\ io_offset \in Nat /\ io_length \in Nat /\ Behind = 0 /\ io_offset + 2 <= io_length
      /\ io_offset' \in 0 .. io_length
  <2>1. io_offset \in Nat /\ io_length \in Nat /\ Behind = 0
    BY <1>3, Typed DEF Behind
  <2> QED
    BY <1>1, <2>1 DEF Available
<1>5. Now.size = 2 /\ PartSize(Now, tagged) = 2
  <2>1. Now.size = 2
    BY <1>1, StepTaken, StepIs DEF Now
  <2> QED
    BY <1>2, <2>1 DEF PartSize
<1>6. ~TookSpendKey'
  BY <1>1, <1>3, StepDone DEF TookSpendKey
<1>7. ReadingInv'
  <2>1. UNCHANGED tx_in_progress
    BY <1>1 DEF Read
  <2>2. Behind' = 0
    BY <1>6 DEF Behind
  <2> QED
    BY <1>1, <1>4, <1>5, <1>6, <2>1, <2>2, ReadingMoves
<1>8. FieldAt(io_offset, 2) = Now.field
  <2>1. ins \in Commands /\ pc \in 1 .. Len(Program[ins]) /\ tagged \in BOOLEAN
    BY <1>1, StepTaken, Typed
  <2>2. FieldAt(Start[ins][tagged][pc], 2) =
            IF Start[ins][tagged][pc] + 2 > io_length THEN "none" ELSE Now.field
    BY <1>2, <1>5, <2>1, FieldIs DEF Now
  <2>3. io_offset = Start[ins][tagged][pc]
    BY <1>3, <1>4
  <2> QED
    BY <1>4, <2>2, <2>3
<1> QED
  BY <1>1, <1>2, <1>4, <1>7, <1>8, ReadKeeps

\* The fee may be decoded from beyond the end of a cut message.
LEMMA DecodeUnboundedKeeps == ASSUME IInv, DecodeUnbounded PROVE IInv'
<1>1. /\ AtStep /\ Now.op = "unbounded" /\ Proceed /\ UNCHANGED io_offset
      /\ Read(Now.field, FieldAt(io_offset, 2))
  BY DEF DecodeUnbounded, At, AtStep
<1>2. Now.op \in Received /\ Now.op # "fetch" /\ Now.op \notin Moves \cup Looks
  BY <1>1 DEF Moves, Received, Looks
<1>3. ~TookSpendKey /\ io_offset + Behind = Start[ins][tagged][pc]
  BY <1>1, <1>2, WhereReading
<1>4. io_offset \in Nat /\ io_length \in Nat /\ Behind = 0 /\ io_offset' \in 0 .. io_length
  BY <1>1, <1>3, Typed DEF Behind
<1>5. ReadingInv'
  BY <1>1, <1>2, NotReading
<1>6. FieldAt(io_offset, 2) \in {"none", Now.field}
  <2>1. ins \in Commands /\ pc \in 1 .. Len(Program[ins]) /\ tagged \in BOOLEAN
    BY <1>1, StepTaken, Typed
  <2>2. Now.size = 2
    BY <1>1, StepTaken, StepIs DEF Now
  <2>3. FieldAt(Start[ins][tagged][pc], 2) =
            IF Start[ins][tagged][pc] + 2 > io_length THEN "none" ELSE Now.field
    BY <1>2, <2>1, <2>2, FieldIs DEF Now
  <2>4. io_offset = Start[ins][tagged][pc]
    BY <1>3, <1>4
  <2> QED
    BY <2>3, <2>4
<1>7. ins = "VALIDATE fee" /\ Now.field = "fee"
  <2>1. OnlyFeeUnbounded(ins, pc)
    BY <1>1, StepTaken, HandlerKeepsTo
  <2> QED
    BY <1>1, <2>1 DEF OnlyFeeUnbounded, Now
<1> QED
  BY <1>1, <1>4, <1>5, <1>6, <1>7, ReadKeeps

-----------------------------------------------------------------------------
(* Between reading and writing.                                             *)

Displays == {"menu", "info", "address", "question"}

LEMMA TypeStays ==
    ASSUME IInv, AtStep, Proceed,
           io_length' \in 0 .. MONERO_IO_BUFFER_LENGTH, io_offset' \in 0 .. io_length',
           intact' \in BOOLEAN, tx_in_progress' \in BOOLEAN, display' \in Displays,
           UNCHANGED question, disp_addr_mode' \in {"zero", "other"}
    PROVE  ExchangeTypeOK'
<1>1. ExchangeTypeOK
  BY DEF IInv
<1>2. pc' \in Nat /\ phase' = "run" /\ UNCHANGED <<ins, secret, tagged, sent>>
  BY Proceeds
<1> QED
  BY <1>1, <1>2 DEF ExchangeTypeOK, Displays

LEMMA ReadsStay == ASSUME IInv, AtStep, Proceed, UNCHANGED reads PROVE FieldsReadWhereSent'
<1>1. UNCHANGED <<ins, secret, tagged>>
  BY Proceeds
<1> QED
  BY <1>1 DEF FieldsReadWhereSent, IInv

\* A step that neither reads a field nor writes, nor discards.
LEMMA QuietKeeps ==
    ASSUME IInv, AtStep, Proceed, UNCHANGED <<reads, io_length, pieces, question>>,
           Now.op \notin Writes \cup {"discard"}, ReadingInv', misused' = {},
           io_offset' \in 0 .. io_length, intact' \in BOOLEAN, Clobbers(Now) \/ intact' = intact,
           tx_in_progress' \in BOOLEAN, display' \in Displays, disp_addr_mode' \in {"zero", "other"}
    PROVE  IInv'
<1>1. ExchangeTypeOK'
  BY Typed, TypeStays, LengthsAssumption
<1>2. AnswerInv' /\ pieces' \in Parts
  BY AnswerStays
<1>3. FieldsReadWhereSent'
  BY ReadsStay
<1> QED
  BY <1>1, <1>2, <1>3, StepKeeps

\* What the next lemmas take from the invariant.
LEMMA Unchanging ==
    ASSUME IInv, AtStep
    PROVE  /\ misused = {} /\ intact \in BOOLEAN /\ tx_in_progress \in BOOLEAN
           /\ display \in Displays /\ disp_addr_mode \in {"zero", "other"}
           /\ io_offset \in 0 .. io_length
<1>1. ExchangeTypeOK /\ PointersReadTheMessage
  BY DEF IInv
<1>2. intact \in BOOLEAN /\ tx_in_progress \in BOOLEAN
  BY <1>1, Zenon DEF ExchangeTypeOK
<1> QED
  BY <1>1, <1>2, StepTaken DEF ExchangeTypeOK, PointersReadTheMessage, Displays

LEMMA FetchRemainingKeeps == ASSUME IInv, FetchRemaining PROVE IInv'
<1>1. /\ AtStep /\ Now.op = "remaining" /\ Proceed /\ io_offset' = io_length
      /\ UNCHANGED <<history, io_length, intact, pieces, tx_in_progress, screen>>
  BY DEF FetchRemaining, At, AtStep
<1>2. Now.op \notin Writes \cup {"discard"} /\ Now.op \notin Moves \cup Looks
  BY <1>1 DEF Writes, Moves, Looks
<1>3. ReadingInv'
  BY <1>1, <1>2, NotReading
<1>4. io_offset' \in 0 .. io_length
  BY <1>1, Typed
<1> QED
  BY <1>1, <1>2, <1>3, <1>4, Unchanging, QuietKeeps DEF history, screen

LEMMA LookAtRestKeeps == ASSUME IInv, LookAtRest PROVE IInv'
<1>1. /\ AtStep /\ Now.op \in Looks \cup {"unread"} /\ Proceed
      /\ UNCHANGED <<buffer, history, pieces, tx_in_progress, screen>>
  BY DEF LookAtRest, At, AtStep, Looks
<1>2. Now.op \notin Writes \cup {"discard"}
  BY <1>1 DEF Writes, Looks
<1>3. ReadingInv'
  <2>1. CASE Now.op = "unread"
    BY <1>1, <2>1, NotReading DEF Moves, Looks
  <2>2. CASE Now.op \in Looks
    <3>1. Now.op \notin Received /\ Now.op # "key"
      BY <2>2 DEF Looks, Received, Moves
    <3>2. PartSize(Now, tagged) = 0
      BY <3>1 DEF PartSize
    <3>3. TookSpendKey' <=> TookSpendKey
      BY <1>1, <3>1, StepDone DEF TookSpendKey
    <3>4. Behind' = Behind /\ Behind \in Nat /\ io_offset \in Nat
      BY <1>1, <3>3, Typed DEF Behind, Proceed
    <3>5. Reading => (TookSpendKey => ins \in TakesSpendKey)
      BY DEF ReadingInv, IInv
    <3> QED
      BY <1>1, <3>2, <3>3, <3>4, <3>5, ReadingMoves DEF buffer
  <2> QED
    BY <1>1, <2>1, <2>2
<1> QED
  BY <1>1, <1>2, <1>3, Unchanging, QuietKeeps DEF buffer, history, screen

\* Nothing was written over the message before a pointer is followed.
LEMMA UseKeeps == ASSUME IInv, UseStep PROVE IInv'
<1>1. /\ AtStep /\ Now.op = "use" /\ Proceed
      /\ misused' = IF intact THEN misused ELSE misused \cup {Now.field}
      /\ UNCHANGED <<reads, buffer, pieces, tx_in_progress, screen>>
  BY DEF UseStep, At, AtStep
<1>2. Now.op \notin Writes \cup {"discard"} /\ Now.op \notin Moves \cup Looks
  BY <1>1 DEF Writes, Moves, Looks
<1>3. intact
  <2>1. ~Clobbered(ins, pc)
    BY <1>1, StepTaken, HandlerKeepsTo DEF FollowsInTime, Now
  <2> QED
    BY <1>1, <2>1 DEF AtStep, MessageInv, IInv
<1>4. misused' = {}
  BY <1>1, <1>3, Unchanging
<1> QED
  BY <1>1, <1>2, <1>4, NotReading, Unchanging, QuietKeeps DEF buffer, screen

LEMMA ScratchKeeps == ASSUME IInv, ScratchStep PROVE IInv'
<1>1. /\ AtStep /\ Now.op = "scratch" /\ Proceed /\ intact' = FALSE
      /\ UNCHANGED <<history, io_offset, io_length, pieces, tx_in_progress, screen>>
  BY DEF ScratchStep, At, AtStep
<1>2. Now.op \notin Writes \cup {"discard"} /\ Now.op \notin Moves \cup Looks /\ Clobbers(Now)
  BY <1>1 DEF Writes, Moves, Looks, Clobbers
<1> QED
  BY <1>1, <1>2, NotReading, Unchanging, QuietKeeps DEF history, screen

LEMMA TmpKeeps == ASSUME IInv, TmpStep PROVE IInv'
<1>1. /\ AtStep /\ Now.op = "tmp" /\ Proceed /\ disp_addr_mode' \in {"zero", "other"}
      /\ UNCHANGED <<history, buffer, pieces, tx_in_progress, display, question>>
  BY DEF TmpStep, At, AtStep
<1>2. Now.op \notin Writes \cup {"discard"} /\ Now.op \notin Moves \cup Looks
  BY <1>1 DEF Writes, Moves, Looks
<1> QED
  BY <1>1, <1>2, NotReading, Unchanging, QuietKeeps DEF history, buffer

LEMMA TransactionKeeps == ASSUME IInv, TransactionStep PROVE IInv'
<1>1. /\ AtStep /\ Now.op = "transaction" /\ Proceed /\ tx_in_progress' \in BOOLEAN
      /\ UNCHANGED <<history, buffer, pieces, screen>>
  BY DEF TransactionStep, At, AtStep
<1>2. Now.op \notin Writes \cup {"discard"} /\ Now.op \notin Moves \cup Looks
  BY <1>1 DEF Writes, Moves, Looks
<1> QED
  BY <1>1, <1>2, NotReading, Unchanging, QuietKeeps DEF history, buffer, screen

LEMMA ShowKeeps == ASSUME IInv, ShowStep PROVE IInv'
<1>1. /\ AtStep /\ Now.op = "show" /\ Proceed /\ display' = Now.field
      /\ UNCHANGED <<history, buffer, pieces, tx_in_progress, question, disp_addr_mode>>
  BY DEF ShowStep, At, AtStep
<1>2. Now.op \notin Writes \cup {"discard"} /\ Now.op \notin Moves \cup Looks
  BY <1>1 DEF Writes, Moves, Looks
<1>3. display' \in Displays
  <2>1. Now.field \in {"menu", "info"}
    BY <1>1, StepTaken, StepIs DEF Now
  <2> QED
    BY <1>1, <2>1 DEF Displays
<1> QED
  BY <1>1, <1>2, <1>3, NotReading, Unchanging, QuietKeeps DEF history, buffer

LEMMA NoQuestionKeeps == ASSUME IInv, NoQuestion PROVE IInv'
<1>1. /\ AtStep /\ Now.op = "may ask" /\ Proceed
      /\ UNCHANGED <<buffer, history, pieces, tx_in_progress, screen>>
  BY DEF NoQuestion, At, AtStep
<1>2. Now.op \notin Writes \cup {"discard"} /\ Now.op \notin Moves \cup Looks
  BY <1>1 DEF Writes, Moves, Looks
<1> QED
  BY <1>1, <1>2, NotReading, Unchanging, QuietKeeps DEF history, buffer, screen

\* Nothing of an answer is there to discard or to clear.
LEMMA NothingWritten ==
    ASSUME IInv, AtStep, Now.op \in {"discard", "init"}
    PROVE  pieces = <<>> /\ ~Did(Writes, ins, pc)
<1>1. DiscardsBetween(ins, pc)
  BY StepTaken, HandlerKeepsTo
<1>2. ~Did(Writes, ins, pc)
  BY <1>1 DEF DiscardsBetween, Now
<1> QED
  BY <1>2 DEF AnswerInv, IInv, Running, AtStep

LEMMA EmptiedAnswer ==
    ASSUME IInv, AtStep, Proceed, Now.op \in {"discard", "init"}, io_length' = 0, UNCHANGED pieces
    PROVE  AnswerInv' /\ pieces' \in Parts
<1>1. pieces = <<>> /\ pieces \in Parts
  BY NothingWritten, Typed
<1>2. /\ pc' = pc + 1 /\ ins' = ins /\ ins \in Commands
      /\ pc + 1 \in 1 .. Len(Program[ins]) + 1
  BY Proceeds, StepTaken
<1>3. Written[ins][pc]' \in Nat
  BY <1>2, WrittenIs
<1>4. SizeOf(pieces)' = 0
  BY <1>1, SizeOfNothing
<1> QED
  BY <1>1, <1>3, <1>4 DEF AnswerInv

LEMMA DiscardKeeps == ASSUME IInv, DiscardStep PROVE IInv'
<1>1. /\ AtStep /\ Now.op = "discard" /\ Proceed /\ io_offset' = 0 /\ io_length' = 0
      /\ intact' = (intact /\ Now.field # "clear")
      /\ UNCHANGED <<history, pieces, tx_in_progress, screen>>
  BY DEF DiscardStep, At, AtStep
<1>2. Now.op \notin Moves \cup Looks
  BY <1>1 DEF Moves, Looks
<1>3. ExchangeTypeOK'
  <2>1. intact' \in BOOLEAN
    BY <1>1
  <2> QED
    BY <1>1, <2>1, Unchanging, TypeStays, LengthsAssumption DEF screen
<1>4. AnswerInv' /\ pieces' \in Parts
  BY <1>1, EmptiedAnswer
<1>5. Clobbers(Now) \/ intact' = intact
  BY <1>1, Unchanging DEF Clobbers, Clears
<1>6. FieldsReadWhereSent' /\ ReadingInv'
  BY <1>1, <1>2, ReadsStay, NotReading DEF history
<1>7. misused' = {} /\ UNCHANGED question /\ disp_addr_mode' # "mode"
  BY <1>1, Unchanging DEF history, screen
<1> QED
  BY <1>1, <1>3, <1>4, <1>5, <1>6, <1>7, StepKeeps

LEMMA InitKeeps == ASSUME IInv, InitStep PROVE IInv'
<1>1. /\ AtStep /\ Now.op = "init" /\ Proceed /\ io_offset' = 0 /\ io_length' = 0
      /\ intact' = FALSE /\ disp_addr_mode' = "zero" /\ tx_in_progress' = FALSE
      /\ UNCHANGED <<history, pieces, display, question>>
  BY DEF InitStep, MoneroInit, At, AtStep
<1>2. Now.op \notin Moves \cup Looks /\ Clobbers(Now)
  BY <1>1 DEF Moves, Looks, Clobbers
<1>3. ExchangeTypeOK'
  <2>1. intact' \in BOOLEAN /\ tx_in_progress' \in BOOLEAN
    BY <1>1
  <2>2. io_length' \in 0 .. MONERO_IO_BUFFER_LENGTH /\ io_offset' \in 0 .. io_length'
    BY <1>1, LengthsAssumption
  <2>3. display' \in Displays /\ disp_addr_mode' \in {"zero", "other"} /\ UNCHANGED question
    BY <1>1, Unchanging
  <2> QED
    BY <1>1, <2>1, <2>2, <2>3, TypeStays
<1>4. AnswerInv' /\ pieces' \in Parts
  BY <1>1, EmptiedAnswer
<1>5. FieldsReadWhereSent' /\ ReadingInv'
  BY <1>1, <1>2, ReadsStay, NotReading DEF history
<1>6. misused' = {}
  BY <1>1, Unchanging DEF history
<1> QED
  BY <1>1, <1>2, <1>3, <1>4, <1>5, <1>6, StepKeeps

-----------------------------------------------------------------------------
(* Writing and sending the answer.                                          *)

LEMMA InsertKeeps == ASSUME IInv, InsertStep PROVE AtStep /\ Proceed /\ IInv'
<1>1. AtStep /\ Now.op \in Writes
  BY DEF InsertStep, At, AtStep, Writes
<1>2. Now.op \notin Moves \cup Looks /\ Now.op # "discard" /\ Clobbers(Now)
  BY <1>1 DEF Writes, Moves, Looks, Clobbers
<1>3. Size \in Nat /\ Size <= WrittenSize(Now) /\ Size <= MONERO_IO_BUFFER_LENGTH
  <2>1. /\ Now.size \in Nat /\ Now.size <= MONERO_IO_BUFFER_LENGTH
        /\ Now.op = "seal" => Now.size = 32
    BY <1>1, StepTaken, StepIs DEF Now
  <2>2. At("seal") => Now.op = "seal"
    BY DEF At
  <2> QED
    BY <1>1, <2>1, <2>2, LengthsAssumption DEF Size, WrittenSize
<1>4. Discarded
  <2>1. DiscardsBetween(ins, pc)
    BY <1>1, StepTaken, HandlerKeepsTo
  <2> QED
    BY <1>1, <2>1 DEF DiscardsBetween, Discarded, Now
<1>5. io_length = SizeOf(pieces) /\ io_length <= Written[ins][pc] /\ io_length \in Nat
  BY <1>1, <1>4, Typed DEF AnswerInv, IInv, Running, AtStep
<1>6. /\ Written[ins][pc] \in Nat /\ Written[ins][pc + 1] = Written[ins][pc] + WrittenSize(Now)
      /\ Written[ins][pc + 1] + 4 <= MONERO_APDU_LENGTH /\ Written[ins][pc + 1] \in Nat
  BY <1>1, StepTaken, WrittenIs DEF Now
<1>7. WrittenSize(Now) \in Nat
  <2>1. Now.size \in Nat
    BY <1>1, StepTaken, StepIs DEF Now
  <2> QED
    BY <2>1 DEF WrittenSize
<1>8. io_length + Size <= Written[ins][pc + 1] /\ io_length + Size <= MONERO_IO_BUFFER_LENGTH
  BY <1>3, <1>5, <1>6, <1>7, LengthsAssumption
<1>9. /\ io_offset' = io_offset + Size /\ io_length' = io_length + Size /\ intact' = FALSE
      /\ pieces' = Append(pieces, [field |-> Now.field, size |-> Size])
      /\ Proceed /\ UNCHANGED <<history, tx_in_progress, screen>>
  BY <1>8 DEF InsertStep
<1>10. pieces' \in Parts /\ SizeOf(pieces') = SizeOf(pieces) + Size
  <2>1. Now.field \in Fields
    BY <1>1, StepTaken DEF Now, Fields
  <2>2. [field |-> Now.field, size |-> Size] \in Part
    BY <1>3, <2>1, LengthsAssumption DEF Part
  <2> QED
    BY <1>9, <2>2, Typed, SizeOfAppend
<1>11. AnswerInv'
  <2>1. ins' = ins /\ pc' = pc + 1 /\ Discarded'
    BY <1>1, <1>4, <1>9, Proceeds, StepDone
  <2>2. Did(Writes, ins, pc)'
    BY <1>1, <1>9, StepDone
  <2>3. SizeOf(pieces)' = io_length' /\ io_length' <= Written[ins][pc]'
    BY <1>5, <1>8, <1>9, <1>10, <2>1
  <2> QED
    BY <2>1, <2>2, <2>3 DEF AnswerInv
<1>12. ExchangeTypeOK'
  <2>1. io_length' \in 0 .. MONERO_IO_BUFFER_LENGTH /\ io_offset' \in 0 .. io_length'
    BY <1>3, <1>8, <1>9, Typed, LengthsAssumption
  <2>2. intact' \in BOOLEAN
    BY <1>9
  <2> QED
    BY <1>1, <1>9, <2>1, <2>2, Unchanging, TypeStays DEF screen
<1>13. FieldsReadWhereSent' /\ ReadingInv'
  BY <1>1, <1>2, <1>9, ReadsStay, NotReading DEF history
<1>14. misused' = {} /\ UNCHANGED question /\ disp_addr_mode' # "mode"
  BY <1>1, <1>9, Unchanging DEF history, screen
<1> QED
  BY <1>1, <1>2, <1>9, <1>10, <1>11, <1>12, <1>13, <1>14, StepKeeps

\* What an answer leaves behind.
LEMMA Answered ==
    ASSUME IInv, NEW status \in Statuses, status \notin {"none", "IO_FULL"},
           NEW length \in Nat, NEW parts, Answer(status, length, parts),
           tx_in_progress' \in BOOLEAN, display' \in Displays, question' = "none",
           disp_addr_mode' \in {"zero", "other"}, length + 2 <= MONERO_APDU_LENGTH,
           disp_addr_mode' = "zero" \/ length + 4 <= MONERO_APDU_LENGTH
    PROVE  /\ IInv' /\ phase' = "idle"
           /\ sent' = [status |-> status, pieces |-> parts, length |-> length + 2,
                       leftover |-> length - SizeOf(parts)]
<1>1. /\ phase' = "idle" /\ ins' = "none" /\ secret' = "sealed" /\ tagged' = FALSE
      /\ pc' = 0 /\ reads' = {} /\ misused' = {} /\ pieces' = <<>> /\ intact' = FALSE
  BY DEF Answer, Over
<1>2. /\ io_offset' = 0 /\ io_length' = length + 2
      /\ sent' = [status |-> status, pieces |-> parts, length |-> length + 2,
                  leftover |-> length - SizeOf(parts)]
  BY DEF Answer
<1>3. ExchangeTypeOK'
  <2>1. io_length' \in 0 .. MONERO_IO_BUFFER_LENGTH /\ io_offset' \in 0 .. io_length'
    BY <1>2, LengthsAssumption
  <2>2. tagged' \in BOOLEAN /\ intact' \in BOOLEAN /\ secret' \in Secrets /\ pc' \in Nat
    BY <1>1 DEF Secrets
  <2>3. sent'.status \in Statuses
    BY <1>2
  <2> QED
    BY <1>1, <2>1, <2>2, <2>3 DEF ExchangeTypeOK, Displays
<1>4. CommandInv'
  BY <1>1, <1>2 DEF CommandInv, Running, Parts
<1>5. ReadingInv' /\ AnswerInv' /\ MessageInv'
  BY <1>1 DEF ReadingInv, Reading, AnswerInv, Running, MessageInv
<1>6. LengthInv' /\ ScreenInv'
  BY <1>1, <1>2 DEF LengthInv, ScreenInv
<1>7. FieldsReadWhereSent' /\ PointersReadTheMessage' /\ QuestionsCanBeAnswered'
  BY <1>1 DEF FieldsReadWhereSent, PointersReadTheMessage, QuestionsCanBeAnswered
<1>8. AnswersFit'
  BY <1>2 DEF AnswersFit
<1> QED
  BY <1>1, <1>2, <1>3, <1>4, <1>5, <1>6, <1>7, <1>8 DEF IInv

\* An answer that holds only what was put in it, and leaves room for another status.
LEMMA Finished ==
    ASSUME IInv, Running, Discarded
    PROVE  io_length = SizeOf(pieces) /\ io_length \in Nat /\ io_length + 4 <= MONERO_APDU_LENGTH
<1>1. io_length = SizeOf(pieces) /\ io_length <= Written[ins][pc] /\ io_length \in Nat
  BY Typed DEF AnswerInv, IInv
<1>2. Written[ins][pc] \in Nat /\ Written[ins][pc] + 4 <= MONERO_APDU_LENGTH
  BY WrittenIs DEF CommandInv, IInv
<1> QED
  BY <1>1, <1>2, LengthsAssumption

\* The step, if it ends a command, sends a fresh answer, and sends nothing to a host
\* that does not wait for it but through an overwritten mode.
FreshStep ==
    phase # "idle" =>
        /\ sent'.leftover = 0
        /\ sent'.status \notin {"SW_OK", "SW_DENY"} =>
              \A n \in DOMAIN sent'.pieces : sent'.pieces[n].field = "exception"

UnaskedStep == phase = "idle" /\ phase' = "idle" /\ sent' # sent => disp_addr_mode = "other"

StepFacts == IInv' /\ FreshStep /\ UnaskedStep

LEMMA ProceedsFreshly == ASSUME IInv, AtStep, Proceed PROVE FreshStep /\ UnaskedStep
<1>1. sent' = NoAnswer /\ phase' = "run"
  BY StepTaken, Proceeds
<1> QED
  BY <1>1 DEF FreshStep, UnaskedStep, NoAnswer, AtStep

LEMMA RunIs ==
    ASSUME IInv, phase = "run"
    PROVE  /\ Running /\ question = "none" /\ disp_addr_mode \in {"zero", "other"}
           /\ display \in Displays /\ tx_in_progress \in BOOLEAN /\ ins \in Commands
           /\ pc \in 1 .. Len(Program[ins]) + 1 /\ Len(Program[ins]) \in Nat
<1>1. ExchangeTypeOK /\ ScreenInv /\ CommandInv
  BY DEF IInv
<1>2. tx_in_progress \in BOOLEAN
  BY Typed
<1> QED
  BY <1>1, <1>2, LengthIs DEF ExchangeTypeOK, ScreenInv, CommandInv, Running, Displays

LEMMA ReturnKeeps == ASSUME IInv, Return PROVE StepFacts
<1>1. /\ phase = "run" /\ pc > Len(Program[ins]) /\ Answer("SW_OK", io_length, pieces)
      /\ UNCHANGED <<tx_in_progress, screen>>
  BY DEF Return
<1>2. pc = Len(Program[ins]) + 1 /\ 1 \in 1 .. Len(Program[ins])
  <2>1. Program[ins] # <<>> /\ Program[ins] \in Seq(Steps)
    BY <1>1, RunIs, HandlersAssumption, LengthIs
  <2> QED
    BY <1>1, <2>1, RunIs
<1>3. Discarded
  BY <1>1, <1>2, RunIs, HandlerKeepsTo DEF DiscardsBetween, Discarded
<1>4. io_length = SizeOf(pieces) /\ io_length \in Nat /\ io_length + 4 <= MONERO_APDU_LENGTH
  BY <1>1, <1>3, RunIs, Finished
<1>5. "SW_OK" \in Statuses
  BY DEF Statuses
<1>6. /\ IInv' /\ phase' = "idle"
      /\ sent' = [status |-> "SW_OK", pieces |-> pieces, length |-> io_length + 2,
                  leftover |-> io_length - SizeOf(pieces)]
  BY <1>1, <1>4, <1>5, RunIs, Answered, LengthsAssumption DEF screen
<1> QED
  BY <1>1, <1>4, <1>6 DEF StepFacts, FreshStep, UnaskedStep

LEMMA RefuseKeeps == ASSUME IInv, Refuse PROVE StepFacts
<1>1. PICK status \in Refusals : Answer(status, 0, <<>>)
  BY DEF Refuse
<1>2. phase = "run" /\ UNCHANGED <<tx_in_progress, screen>>
  BY DEF Refuse
<1>3. status \in Statuses /\ status \notin {"none", "IO_FULL"}
  <2>1. status \in {"SW_SECURITY_LOCKED", "SW_PROTOCOL_NOT_SUPPORTED", "0x0001"}
    BY DEF Refusals, check_protocol
  <2> QED
    BY <2>1 DEF Statuses
<1>4. /\ IInv'
      /\ sent' = [status |-> status, pieces |-> <<>>, length |-> 0 + 2, leftover |-> 0 - SizeOf(<<>>)]
  BY <1>1, <1>2, <1>3, RunIs, Answered, LengthsAssumption DEF screen
<1> QED
  BY <1>2, <1>4, SizeOfNothing DEF StepFacts, FreshStep, UnaskedStep

LEMMA ThrowsKeeps == ASSUME IInv, Throws PROVE StepFacts
<1> DEFINE part == [field |-> "exception", size |-> 4]
<1>1. phase = "run" /\ Catch("exception") /\ display' \in {display, "info"}
      /\ UNCHANGED <<question, disp_addr_mode>>
  BY DEF Throws
<1>2. PICK code \in {<<>>, <<part>>} : Answer("exception", SizeOf(code), code)
  BY <1>1 DEF Catch
<1>3. tx_in_progress' = FALSE
  BY <1>1 DEF Catch
<1>4. SizeOf(<<part>>) = 4
  <2>1. part \in Part
    <3>1. 4 \in 0 .. MONERO_IO_BUFFER_LENGTH
      BY LengthsAssumption
    <3>2. "exception" \in Fields
      BY DEF Fields
    <3> QED
      BY <3>1, <3>2 DEF Part
  <2>2. <<>> \in Parts
    BY DEF Parts
  <2>3. SizeOf(Append(<<>>, part)) = SizeOf(<<>>) + part.size
    BY <2>1, <2>2, SizeOfAppend
  <2>4. Append(<<>>, part) = <<part>>
    OBVIOUS
  <2> QED
    BY <2>3, <2>4, SizeOfNothing
<1>5. SizeOf(code) \in {0, 4}
  BY <1>2, <1>4, SizeOfNothing
<1>6. "exception" \in Statuses /\ display' \in Displays
  BY <1>1, RunIs DEF Statuses, Displays
<1>7. /\ IInv'
      /\ sent' = [status |-> "exception", pieces |-> code, length |-> SizeOf(code) + 2,
                  leftover |-> SizeOf(code) - SizeOf(code)]
  <2>1. SizeOf(code) \in Nat /\ SizeOf(code) + 4 <= MONERO_APDU_LENGTH
        /\ SizeOf(code) + 2 <= MONERO_APDU_LENGTH
    BY <1>5, LengthsAssumption
  <2>2. question' = "none" /\ disp_addr_mode' \in {"zero", "other"} /\ tx_in_progress' \in BOOLEAN
    BY <1>1, <1>3, RunIs
  <2> QED
    BY <1>2, <1>6, <2>1, <2>2, Answered
<1>8. \A n \in DOMAIN code : code[n].field = "exception"
  BY <1>2
<1> QED
  BY <1>1, <1>5, <1>7, <1>8 DEF StepFacts, FreshStep, UnaskedStep

-----------------------------------------------------------------------------
(* The host and the user.                                                   *)

LEMMA ReceiveKeeps == ASSUME IInv, NEW i \in Commands, Receive(i) PROVE StepFacts
<1>1. /\ phase = "idle" /\ phase' = "run" /\ ins' = i /\ pc' = 1 /\ tagged' = tx_in_progress
      /\ io_offset' = 0 /\ intact' = TRUE /\ reads' = {} /\ misused' = {} /\ pieces' = <<>>
      /\ sent' = NoAnswer /\ UNCHANGED <<tx_in_progress, screen>>
  BY DEF Receive
<1>2. secret' \in Secrets
  BY DEF Receive, SecretsOf, Secrets
<1>3. io_length' \in Nat /\ io_length' <= 255
  <2>1. tx_in_progress \in BOOLEAN /\ Len(Program[i]) \in Nat
    BY Typed, LengthIs
  <2>2. Start[i][tx_in_progress][Len(Program[i]) + 1] \in Nat
    BY <2>1, StartIs
  <2>3. \A part \in Layout[i][tx_in_progress] : part.start \in Nat /\ part.size \in Nat \ {0}
    <3> SUFFICES ASSUME NEW part \in Layout[i][tx_in_progress]
                 PROVE  part.start \in Nat /\ part.size \in Nat \ {0}
      OBVIOUS
    <3>1. PICK n \in 1 .. Len(Program[i]) :
            /\ Step(i, n).op \in Received
            /\ \/ part.start = Start[i][tx_in_progress][n] /\ part.size = Step(i, n).size
               \/ part.start = Start[i][tx_in_progress][n] + 32 /\ part.size = 32
      BY <2>1, LayoutIs DEF IsPart
    <3>2. n \in 1 .. Len(Program[i]) + 1
      BY <2>1
    <3>3. Start[i][tx_in_progress][n] \in Nat
      BY <2>1, <3>2, StartIs
    <3>4. Step(i, n).size \in Nat /\ Step(i, n).size > 0
      BY <3>1, StepIs
    <3> QED
      BY <3>1, <3>3, <3>4
  <2>4. \A length \in Lengths(i, tx_in_progress) : length \in Nat
    BY <2>2, <2>3 DEF Lengths
  <2> QED
    BY <2>4 DEF Receive
<1>4. question' = "none" /\ disp_addr_mode' # "mode"
  BY <1>1 DEF IInv, ScreenInv, screen
<1>5. 1 \in 1 .. Len(Program[i]) + 1
  BY LengthIs
<1>6. ExchangeTypeOK'
  <2>1. io_length' \in 0 .. MONERO_IO_BUFFER_LENGTH /\ io_offset' \in 0 .. io_length'
    BY <1>1, <1>3, LengthsAssumption
  <2>2. ExchangeTypeOK
    BY DEF IInv
  <2>3. tagged' \in BOOLEAN /\ intact' \in BOOLEAN /\ tx_in_progress' \in BOOLEAN
    BY <1>1, Typed
  <2>4. sent'.status \in Statuses
    BY <1>1 DEF NoAnswer, Statuses
  <2> QED
    BY <1>1, <1>2, <2>1, <2>2, <2>3, <2>4 DEF ExchangeTypeOK, screen
<1>7. CommandInv'
  BY <1>1, <1>5 DEF CommandInv, Running, Parts
<1>8. ReadingInv'
  <2>1. ~Did({"key"}, ins, pc)'
    BY <1>1, DidFirst DEF Did
  <2>2. Behind' = 0 /\ ~TookSpendKey'
    BY <2>1 DEF Behind, TookSpendKey
  <2>3. Start[ins][tagged][pc]' = 0
    BY <1>1, Typed, StartIs
  <2>4. tx_in_progress' = tagged'
    BY <1>1
  <2> QED
    BY <1>1, <2>2, <2>3, <2>4 DEF ReadingInv
<1>9. AnswerInv'
  <2>1. ~Discarded'
    BY <1>1 DEF Discarded, Did
  <2> QED
    BY <1>1, <1>3, <2>1 DEF AnswerInv
<1>10. MessageInv' /\ LengthInv' /\ ScreenInv'
  BY <1>1, <1>4 DEF MessageInv, LengthInv, ScreenInv
<1>11. /\ FieldsReadWhereSent' /\ PointersReadTheMessage' /\ AnswersFit'
       /\ QuestionsCanBeAnswered'
  BY <1>1, LengthsAssumption
     DEF FieldsReadWhereSent, PointersReadTheMessage, AnswersFit, QuestionsCanBeAnswered, NoAnswer
<1> QED
  BY <1>1, <1>6, <1>7, <1>8, <1>9, <1>10, <1>11 DEF IInv, StepFacts, FreshStep, UnaskedStep

LEMMA AskKeeps == ASSUME IInv, AskStep PROVE StepFacts
<1>1. /\ AtStep /\ Now.op \in Asks /\ phase' = "asked" /\ question' = Now.field
      /\ display' = IF Now.field = "address" THEN "address" ELSE "question"
      /\ disp_addr_mode' = IF Now.field = "address" THEN "mode" ELSE disp_addr_mode
      /\ UNCHANGED <<command, buffer, history, pieces, tx_in_progress, sent>>
  BY DEF AskStep, At, AtStep, Asks
<1>2. Now.field \in {"amount", "special", "address", "view key"}
  BY <1>1, StepTaken, StepIs DEF Now
<1>3. disp_addr_mode \in {"zero", "other"} /\ sent = NoAnswer
  BY <1>1, StepTaken
<1>4. ExchangeTypeOK'
  <2>1. ExchangeTypeOK
    BY DEF IInv
  <2>2. question' \in {"none", "amount", "special", "address", "view key"}
    BY <1>1, <1>2
  <2>3. display' \in Displays /\ disp_addr_mode' \in {"zero", "mode", "other"}
    BY <1>1, <1>3 DEF Displays
  <2> QED
    BY <1>1, <2>1, <2>2, <2>3 DEF ExchangeTypeOK, Displays, command, buffer
<1>5. CommandInv'
  <2>1. Step(ins, pc)' = Now /\ ins' = ins /\ pc' = pc /\ pieces' = pieces /\ sent' = sent
    BY <1>1 DEF Step, Now, command
  <2> QED
    BY <1>1, <1>3, <2>1, StepTaken, Typed DEF CommandInv, Running, AtStep
<1>6. AnswerInv'
  <2>1. ins' = ins /\ pc' = pc /\ pieces' = pieces /\ io_length' = io_length
    BY <1>1 DEF command, buffer
  <2>2. (Discarded' <=> Discarded) /\ (Did(Writes, ins, pc)' <=> Did(Writes, ins, pc))
    BY <2>1 DEF Discarded, Did, Step
  <2>3. SizeOf(pieces)' = SizeOf(pieces) /\ Written[ins][pc]' = Written[ins][pc]
    BY <2>1
  <2> QED
    BY <1>1, <2>1, <2>2, <2>3 DEF AnswerInv, IInv, Running, AtStep
<1>7. ReadingInv' /\ MessageInv' /\ LengthInv' /\ ScreenInv'
  BY <1>1, <1>2, <1>3 DEF ReadingInv, Reading, MessageInv, LengthInv, ScreenInv
<1>8. QuestionsCanBeAnswered'
  BY <1>1, <1>2 DEF QuestionsCanBeAnswered
<1>9. FieldsReadWhereSent' /\ PointersReadTheMessage' /\ AnswersFit'
  BY <1>1 DEF FieldsReadWhereSent, PointersReadTheMessage, AnswersFit, IInv, history, command
<1>10. FreshStep /\ UnaskedStep
  BY <1>1, <1>3 DEF FreshStep, UnaskedStep, NoAnswer
<1> QED
  BY <1>4, <1>5, <1>6, <1>7, <1>8, <1>9, <1>10 DEF IInv, StepFacts

\* A question is only asked after a discard.
LEMMA AskedIs ==
    ASSUME IInv, phase = "asked"
    PROVE  /\ io_length = SizeOf(pieces) /\ io_length \in Nat
           /\ io_length + 4 <= MONERO_APDU_LENGTH
           /\ disp_addr_mode = "mode" => question = "address"
           /\ disp_addr_mode \in {"zero", "mode", "other"} /\ tx_in_progress \in BOOLEAN
           /\ QuestionsCanBeAnswered /\ (display = "address" => question = "address")
<1>1. ins \in Commands /\ pc \in 1 .. Len(Program[ins]) /\ Step(ins, pc).op \in Asks
  <2>1. /\ ins \in Commands /\ pc \in 1 .. Len(Program[ins]) + 1 /\ pc <= Len(Program[ins])
        /\ Step(ins, pc).op \in Asks
    BY DEF IInv, CommandInv, Running
  <2>2. Len(Program[ins]) \in Nat
    BY <2>1, LengthIs
  <2> QED
    BY <2>1, <2>2
<1>2. Discarded
  BY <1>1, HandlerKeepsTo DEF DiscardsBetween, Discarded
<1>3. Running
  BY DEF Running
<1> QED
  BY <1>2, <1>3, Finished, Typed DEF IInv, ScreenInv, ExchangeTypeOK

LEMMA AnswerQuestionKeeps == ASSUME IInv, AnswerQuestion PROVE StepFacts
<1>1. /\ phase = "asked" /\ question \in {"amount", "special"} /\ question' = "none"
      /\ display' = (IF question = "amount" THEN "info" ELSE "menu") /\ UNCHANGED disp_addr_mode
  BY DEF AnswerQuestion
<1>2. PICK status \in {"SW_OK", "SW_DENY"} :
        /\ Answer(status, io_length, pieces)
        /\ tx_in_progress' = (tx_in_progress /\ ~(question = "amount" /\ status = "SW_DENY"))
  BY DEF AnswerQuestion
<1>3. status \in Statuses /\ display' \in Displays /\ disp_addr_mode' \in {"zero", "other"}
  BY <1>1, AskedIs DEF Statuses, Displays
<1>4. tx_in_progress' \in BOOLEAN
  BY <1>2
<1>5. io_length = SizeOf(pieces) /\ io_length \in Nat /\ io_length + 4 <= MONERO_APDU_LENGTH
  BY <1>1, AskedIs
<1>6. /\ IInv'
      /\ sent' = [status |-> status, pieces |-> pieces, length |-> io_length + 2,
                  leftover |-> io_length - SizeOf(pieces)]
  BY <1>1, <1>2, <1>3, <1>4, <1>5, Answered, LengthsAssumption
<1> QED
  BY <1>1, <1>5, <1>6 DEF StepFacts, FreshStep, UnaskedStep

LEMMA AnswerViewKeyKeeps == ASSUME IInv, AnswerViewKey PROVE StepFacts
<1> DEFINE part == [field |-> "view_priv", size |-> 32]
<1>1. /\ phase = "asked" /\ question = "view key" /\ Answer("SW_OK", 32, <<part>>)
      /\ display' = "menu" /\ question' = "none" /\ UNCHANGED <<tx_in_progress, disp_addr_mode>>
  BY DEF AnswerViewKey
<1>2. SizeOf(<<part>>) = 32
  <2>1. part \in Part
    <3>1. 32 \in 0 .. MONERO_IO_BUFFER_LENGTH
      BY LengthsAssumption
    <3>2. "view_priv" \in Fields
      BY DEF Fields
    <3> QED
      BY <3>1, <3>2 DEF Part
  <2>2. <<>> \in Parts
    BY DEF Parts
  <2>3. SizeOf(Append(<<>>, part)) = SizeOf(<<>>) + part.size
    BY <2>1, <2>2, SizeOfAppend
  <2>4. Append(<<>>, part) = <<part>>
    OBVIOUS
  <2> QED
    BY <2>3, <2>4, SizeOfNothing
<1> HIDE DEF part
<1>3. /\ "SW_OK" \in Statuses /\ display' \in Displays /\ disp_addr_mode' \in {"zero", "other"}
      /\ tx_in_progress' \in BOOLEAN
  BY <1>1, AskedIs DEF Statuses, Displays
<1>4. /\ IInv'
      /\ sent' = [status |-> "SW_OK", pieces |-> <<part>>, length |-> 32 + 2,
                  leftover |-> 32 - SizeOf(<<part>>)]
  <2>1. 32 \in Nat /\ 32 + 2 <= MONERO_APDU_LENGTH /\ 32 + 4 <= MONERO_APDU_LENGTH
    BY LengthsAssumption
  <2> QED
    BY <1>1, <1>3, <2>1, Answered
<1>5. sent'.leftover = 0 /\ sent'.status = "SW_OK"
  BY <1>2, <1>4
<1> QED
  BY <1>1, <1>4, <1>5 DEF StepFacts, FreshStep, UnaskedStep

\* Between commands, the display may change.
LEMMA IdleKeeps ==
    ASSUME IInv, phase = "idle",
           UNCHANGED <<phase, command, buffer, history, pieces, tx_in_progress, question, sent>>,
           display' \in Displays,
           disp_addr_mode' = disp_addr_mode \/ disp_addr_mode' = "zero"
    PROVE  StepFacts
<1>1. UNCHANGED <<phase, ins, secret, tagged, pc, io_offset, io_length, intact, reads, misused,
                  pieces, tx_in_progress, question, sent>>
  BY DEF command, buffer, history
<1>2. ExchangeTypeOK'
  <2>1. ExchangeTypeOK
    BY DEF IInv
  <2> QED
    BY <1>1, <2>1 DEF ExchangeTypeOK, Displays
<1>3. CommandInv' /\ AnswerInv'
  BY <1>1 DEF CommandInv, AnswerInv, Running, IInv
<1>4. ReadingInv' /\ MessageInv'
  BY <1>1 DEF ReadingInv, Reading, MessageInv
<1>5. LengthInv' /\ ScreenInv' /\ QuestionsCanBeAnswered'
  BY <1>1 DEF LengthInv, ScreenInv, QuestionsCanBeAnswered, IInv
<1>6. FieldsReadWhereSent' /\ PointersReadTheMessage' /\ AnswersFit'
  BY <1>1 DEF FieldsReadWhereSent, PointersReadTheMessage, AnswersFit, IInv
<1> QED
  BY <1>1, <1>2, <1>3, <1>4, <1>5, <1>6 DEF IInv, StepFacts, FreshStep, UnaskedStep

\* "Back" answers a question about an address, or, with a mode overwritten after it was
\* shown, nobody.
LEMMA BackKeeps == ASSUME IInv, Back PROVE StepFacts
<1>1. /\ display = "address" /\ phase # "run" /\ disp_addr_mode' = "zero" /\ display' = "menu"
      /\ UNCHANGED tx_in_progress
  BY DEF Back
<1>2. /\ display' \in Displays /\ "SW_OK" \in Statuses /\ tx_in_progress' \in BOOLEAN
      /\ io_length \in Nat /\ phase \in {"idle", "asked"}
  BY <1>1, Typed DEF Displays, Statuses, IInv, ExchangeTypeOK
<1>3. CASE disp_addr_mode # "zero"
  <2>1. Answer("SW_OK", io_length, pieces) /\ question' = "none"
    BY <1>3 DEF Back
  <2>2. io_length + 2 <= MONERO_APDU_LENGTH
    <3>1. CASE phase = "idle"
      BY <1>3, <3>1 DEF IInv, LengthInv
    <3>2. CASE phase = "asked"
      BY <1>2, <3>2, AskedIs, LengthsAssumption
    <3> QED
      BY <1>2, <3>1, <3>2
  <2>3. /\ IInv'
        /\ sent' = [status |-> "SW_OK", pieces |-> pieces, length |-> io_length + 2,
                    leftover |-> io_length - SizeOf(pieces)]
    BY <1>1, <1>2, <2>1, <2>2, Answered
  <2>4. FreshStep
    BY <1>2, <2>3, AskedIs DEF FreshStep
  <2>5. UnaskedStep
    BY <1>2, <1>3 DEF UnaskedStep, IInv, ScreenInv, ExchangeTypeOK
  <2> QED
    BY <2>3, <2>4, <2>5 DEF StepFacts
<1>4. CASE disp_addr_mode = "zero"
  <2>1. UNCHANGED <<phase, command, buffer, history, pieces, sent, question>>
    BY <1>4 DEF Back
  <2>2. phase = "idle"
    BY <1>1, <1>2, <1>4, AskedIs DEF QuestionsCanBeAnswered
  <2> QED
    BY <1>1, <1>2, <2>1, <2>2, IdleKeeps
<1> QED
  BY <1>3, <1>4

LEMMA ShowAddressKeeps == ASSUME IInv, ShowAddress PROVE StepFacts
<1>1. /\ phase = "idle" /\ display' = "address" /\ disp_addr_mode' = "zero"
      /\ UNCHANGED <<phase, command, buffer, history, pieces, tx_in_progress, question, sent>>
  BY DEF ShowAddress
<1> QED
  BY <1>1, IdleKeeps DEF Displays

LEMMA CloseInfoKeeps == ASSUME IInv, CloseInfo PROVE StepFacts
<1>1. /\ phase = "idle" /\ display' = "menu" /\ UNCHANGED disp_addr_mode
      /\ UNCHANGED <<phase, command, buffer, history, pieces, tx_in_progress, question, sent>>
  BY DEF CloseInfo
<1> QED
  BY <1>1, IdleKeeps DEF Displays

\* monero_init, from the menu or after a reset of the transport, leaves an empty buffer.
LEMMA MoneroInitKeeps ==
    ASSUME IInv, MoneroInit, phase' = "idle", ins' \in Commands \cup {"none"},
           secret' \in Secrets, tagged' \in BOOLEAN, pc' \in Nat,
           reads' = {}, misused' = {}, pieces' = <<>>,
           display' \in Displays, question' = "none", UNCHANGED sent
    PROVE  StepFacts
<1>1. /\ io_offset' = 0 /\ io_length' = 0 /\ intact' = FALSE
      /\ disp_addr_mode' = "zero" /\ tx_in_progress' = FALSE
  BY DEF MoneroInit
<1>2. ExchangeTypeOK'
  <2>1. ExchangeTypeOK
    BY DEF IInv
  <2>2. io_length' \in 0 .. MONERO_IO_BUFFER_LENGTH /\ io_offset' \in 0 .. io_length'
    BY <1>1, LengthsAssumption
  <2>3. intact' \in BOOLEAN /\ tx_in_progress' \in BOOLEAN
    BY <1>1
  <2>4. sent'.status \in Statuses
    BY <2>1 DEF ExchangeTypeOK
  <2> QED
    BY <1>1, <2>2, <2>3, <2>4 DEF ExchangeTypeOK, Displays
<1>3. CommandInv' /\ AnswerInv'
  BY <1>1 DEF CommandInv, AnswerInv, Running, Parts
<1>4. ReadingInv' /\ MessageInv'
  BY DEF ReadingInv, Reading, MessageInv
<1>5. LengthInv' /\ ScreenInv' /\ QuestionsCanBeAnswered'
  BY <1>1, LengthsAssumption DEF LengthInv, ScreenInv, QuestionsCanBeAnswered
<1>6. FieldsReadWhereSent' /\ PointersReadTheMessage' /\ AnswersFit'
  BY DEF FieldsReadWhereSent, PointersReadTheMessage, AnswersFit, IInv
<1>7. FreshStep /\ UnaskedStep
  BY DEF FreshStep, UnaskedStep, IInv, CommandInv, Running, NoAnswer
<1> QED
  BY <1>2, <1>3, <1>4, <1>5, <1>6, <1>7 DEF IInv, StepFacts

LEMMA ChooseSettingKeeps == ASSUME IInv, ChooseSetting PROVE StepFacts
<1>1. /\ phase = "idle" /\ MoneroInit
      /\ UNCHANGED <<phase, ins, secret, tagged, pc, reads, misused, pieces, display, question, sent>>
  BY DEF ChooseSetting, command, history
<1>2. /\ ins \in Commands \cup {"none"} /\ pc \in Nat
      /\ display \in Displays /\ question = "none"
  BY <1>1 DEF IInv, ExchangeTypeOK, ScreenInv, Displays
<1>3. reads = {} /\ misused = {} /\ pieces = <<>>
  BY <1>1 DEF IInv, CommandInv, PointersReadTheMessage
<1> QED
  BY <1>1, <1>2, <1>3, Typed, MoneroInitKeeps

LEMMA RestartKeeps == ASSUME IInv, Restart PROVE StepFacts
<1>1. /\ phase' = "idle" /\ MoneroInit /\ display' = "menu" /\ question' = "none" /\ UNCHANGED sent
      /\ ins' = "none" /\ secret' = "sealed" /\ tagged' = FALSE /\ pc' = 0
      /\ reads' = {} /\ misused' = {} /\ pieces' = <<>>
  BY DEF Restart, Over
<1>2. secret' \in Secrets /\ tagged' \in BOOLEAN /\ pc' \in Nat /\ display' \in Displays
  BY <1>1 DEF Secrets, Displays
<1> QED
  BY <1>1, <1>2, MoneroInitKeeps

\* The invariant is one of the exchange; lock and PIN are not in it.
LEMMA ExchangeStays ==
    ASSUME IInv, UNCHANGED <<phase, ins, secret, tagged, pc, io_offset, io_length, intact, reads,
                             misused, pieces, tx_in_progress, display, question, disp_addr_mode, sent>>
    PROVE  IInv'
<1>1. ExchangeTypeOK' /\ LengthInv' /\ ScreenInv'
  BY DEF IInv, ExchangeTypeOK, LengthInv, ScreenInv
<1>2. CommandInv'
  BY DEF IInv, CommandInv, Running, Step
<1>3. AnswerInv'
  <2>1. (Discarded' <=> Discarded) /\ (Did(Writes, ins, pc)' <=> Did(Writes, ins, pc))
    BY DEF Discarded, Did, Step
  <2>2. SizeOf(pieces)' = SizeOf(pieces) /\ Written[ins][pc]' = Written[ins][pc]
    OBVIOUS
  <2> QED
    BY <2>1, <2>2 DEF IInv, AnswerInv, Running
<1>4. ReadingInv'
  BY DEF IInv, ReadingInv, Reading, OnlyDid, Behind, TookSpendKey, Did, Step
<1>5. MessageInv'
  BY DEF IInv, MessageInv, Clobbered, Step
<1>6. /\ FieldsReadWhereSent' /\ PointersReadTheMessage' /\ AnswersFit'
      /\ QuestionsCanBeAnswered'
  BY DEF IInv, FieldsReadWhereSent, PointersReadTheMessage, AnswersFit,
              QuestionsCanBeAnswered
<1> QED
  BY <1>1, <1>2, <1>3, <1>4, <1>5, <1>6 DEF IInv

\* The PIN is of no concern to the exchange.
LEMMA PinChangesKeeps == ASSUME IInv, PinChanges PROVE StepFacts
<1>1. /\ phase # "run"
      /\ UNCHANGED <<phase, ins, secret, tagged, pc, io_offset, io_length, intact, reads, misused,
                     pieces, tx_in_progress, display, question, disp_addr_mode, sent>>
  BY DEF PinChanges, command, buffer, history, screen
<1>2. IInv'
  BY <1>1, ExchangeStays
<1>3. FreshStep /\ UnaskedStep
  <2>1. phase # "idle" => sent = NoAnswer
    BY DEF IInv, CommandInv, Running
  <2>2. sent' = sent
    BY <1>1
  <2> QED
    BY <2>1, <2>2 DEF FreshStep, UnaskedStep, NoAnswer
<1> QED
  BY <1>2, <1>3 DEF StepFacts

\* Lock and PIN have their few values.
LEMMA AccessKeeps == ASSUME AccessTypeOK, [Next]_vars PROVE AccessTypeOK'
<1> DEFINE Kept == UNCHANGED <<protocol_barrier, pin_verified>>
<1>1. Kept => AccessTypeOK'
  BY DEF AccessTypeOK
<1>2. ASSUME MoneroInit PROVE AccessTypeOK'
  BY <1>2 DEF MoneroInit, AccessTypeOK
<1>3. CASE \E i \in Commands : Receive(i)
  BY <1>3 DEF Receive, Unlock, AccessTypeOK
<1>4. CASE Throws
  BY <1>4 DEF Throws, AccessTypeOK
<1>5. CASE Handle
  <2>1. CASE FetchStep \/ FetchDecrypt \/ FetchDecryptKey \/ FetchVarint \/ DecodeUnbounded
    BY <1>1, <2>1
       DEF FetchStep, FetchDecrypt, FetchDecryptKey, FetchVarint, DecodeUnbounded, Read, access
  <2>2. CASE FetchRemaining \/ LookAtRest \/ DiscardStep \/ UseStep \/ ScratchStep \/ TmpStep
    BY <1>1, <2>2
       DEF FetchRemaining, LookAtRest, DiscardStep, UseStep, ScratchStep, TmpStep, access
  <2>3. CASE TransactionStep \/ ShowStep \/ AskStep \/ NoQuestion \/ Return
    BY <1>1, <2>3 DEF TransactionStep, ShowStep, AskStep, NoQuestion, Return, access
  <2>4. CASE InsertStep
    BY <1>1, <2>4 DEF InsertStep, access
  <2>5. CASE InitStep
    BY <1>2, <2>5 DEF InitStep
  <2> QED
    BY <1>5, <2>1, <2>2, <2>3, <2>4, <2>5 DEF Handle
<1>6. CASE CloseInfo
  BY <1>6 DEF CloseInfo, access, AccessTypeOK
<1>7. CASE ChooseSetting \/ Restart
  BY <1>2, <1>7 DEF ChooseSetting, Restart
<1>8. CASE PinChanges
  <2>1. protocol_barrier' = protocol_barrier /\ pin_verified' \in BOOLEAN
    BY <1>8 DEF PinChanges
  <2> QED
    BY <2>1 DEF AccessTypeOK
<1>9. CASE Refuse \/ AnswerQuestion \/ AnswerViewKey \/ Back \/ ShowAddress
  BY <1>1, <1>9 DEF Refuse, AnswerQuestion, AnswerViewKey, Back, ShowAddress, access
<1>10. CASE UNCHANGED vars
  BY <1>1, <1>10 DEF vars, access
<1> QED
  BY <1>3, <1>4, <1>5, <1>6, <1>7, <1>8, <1>9, <1>10 DEF Next

-----------------------------------------------------------------------------
(* The theorems.                                                            *)

LEMMA InitHolds == ASSUME Init PROVE IInv
<1>1. ExchangeTypeOK
  <2>1. io_length \in 0 .. MONERO_IO_BUFFER_LENGTH /\ io_offset \in 0 .. io_length
    BY LengthsAssumption DEF Init
  <2>2. tagged \in BOOLEAN /\ intact \in BOOLEAN /\ tx_in_progress \in BOOLEAN
    BY DEF Init
  <2>3. sent.status \in Statuses /\ secret \in Secrets /\ pc \in Nat
    BY DEF Init, NoAnswer, Statuses, Secrets
  <2>4. /\ phase \in {"idle", "run", "asked"} /\ ins \in Commands \cup {"none"}
        /\ display \in {"menu", "info", "address", "question"}
        /\ question \in {"none", "amount", "special", "address", "view key"}
        /\ disp_addr_mode \in {"zero", "mode", "other"}
    BY DEF Init
  <2> QED
    BY <2>1, <2>2, <2>3, <2>4 DEF ExchangeTypeOK
<1>2. CommandInv /\ ReadingInv /\ AnswerInv /\ MessageInv
  BY DEF Init, CommandInv, ReadingInv, Reading, AnswerInv, Running, MessageInv, Parts
<1>3. LengthInv /\ ScreenInv
  BY LengthsAssumption DEF Init, LengthInv, ScreenInv
<1>4. FieldsReadWhereSent /\ PointersReadTheMessage /\ AnswersFit /\ QuestionsCanBeAnswered
  BY LengthsAssumption
     DEF Init, FieldsReadWhereSent, PointersReadTheMessage, AnswersFit, QuestionsCanBeAnswered,
         NoAnswer
<1> QED
  BY <1>1, <1>2, <1>3, <1>4 DEF IInv

LEMMA HandlerKeeps == ASSUME IInv, Handle PROVE StepFacts
<1>1. CASE FetchStep
  BY <1>1, FetchKeeps, ProceedsFreshly DEF FetchStep, At, AtStep, StepFacts
<1>2. CASE FetchDecrypt
  BY <1>2, FetchDecryptKeeps, ProceedsFreshly DEF FetchDecrypt, At, AtStep, StepFacts
<1>3. CASE FetchDecryptKey
  BY <1>3, FetchDecryptKeyKeeps, ProceedsFreshly DEF FetchDecryptKey, At, AtStep, StepFacts
<1>4. CASE FetchVarint
  BY <1>4, FetchVarintKeeps, ProceedsFreshly DEF FetchVarint, At, AtStep, StepFacts
<1>5. CASE DecodeUnbounded
  BY <1>5, DecodeUnboundedKeeps, ProceedsFreshly DEF DecodeUnbounded, At, AtStep, StepFacts
<1>6. CASE FetchRemaining
  BY <1>6, FetchRemainingKeeps, ProceedsFreshly DEF FetchRemaining, At, AtStep, StepFacts
<1>7. CASE LookAtRest
  BY <1>7, LookAtRestKeeps, ProceedsFreshly DEF LookAtRest, At, AtStep, StepFacts
<1>8. CASE DiscardStep
  BY <1>8, DiscardKeeps, ProceedsFreshly DEF DiscardStep, At, AtStep, StepFacts
<1>9. CASE UseStep
  BY <1>9, UseKeeps, ProceedsFreshly DEF UseStep, At, AtStep, StepFacts
<1>10. CASE ScratchStep
  BY <1>10, ScratchKeeps, ProceedsFreshly DEF ScratchStep, At, AtStep, StepFacts
<1>11. CASE TmpStep
  BY <1>11, TmpKeeps, ProceedsFreshly DEF TmpStep, At, AtStep, StepFacts
<1>12. CASE TransactionStep
  BY <1>12, TransactionKeeps, ProceedsFreshly DEF TransactionStep, At, AtStep, StepFacts
<1>13. CASE ShowStep
  BY <1>13, ShowKeeps, ProceedsFreshly DEF ShowStep, At, AtStep, StepFacts
<1>14. CASE InitStep
  BY <1>14, InitKeeps, ProceedsFreshly DEF InitStep, At, AtStep, StepFacts
<1>15. CASE InsertStep
  BY <1>15, InsertKeeps, ProceedsFreshly DEF StepFacts
<1>16. CASE NoQuestion
  BY <1>16, NoQuestionKeeps, ProceedsFreshly DEF NoQuestion, At, AtStep, StepFacts
<1> QED
  BY <1>1, <1>2, <1>3, <1>4, <1>5, <1>6, <1>7, <1>8, <1>9, <1>10, <1>11, <1>12, <1>13, <1>14,
     <1>15, <1>16, AskKeeps, ReturnKeeps DEF Handle

LEMMA NextKeeps == ASSUME IInv, [Next]_vars PROVE IInv' /\ [FreshStep]_vars /\ [UnaskedStep]_vars
<1>1. ASSUME Next PROVE StepFacts
  BY <1>1, ReceiveKeeps, RefuseKeeps, ThrowsKeeps, HandlerKeeps, AnswerQuestionKeeps,
     AnswerViewKeyKeeps, BackKeeps, ShowAddressKeeps, CloseInfoKeeps, ChooseSettingKeeps,
     PinChangesKeeps, RestartKeeps DEF Next
<1>2. CASE UNCHANGED vars
  <2>1. UNCHANGED <<phase, ins, secret, tagged, pc, io_offset, io_length, intact, reads, misused,
                    pieces, tx_in_progress, display, question, disp_addr_mode, sent>>
    BY <1>2 DEF vars, command, buffer, history, screen
  <2> QED
    BY <1>2, <2>1, ExchangeStays
<1> QED
  BY <1>1, <1>2 DEF StepFacts

\* The invariant, and with it all that the runs check of a state.
THEOREM Invariant == Spec => []IInv
<1>1. Init => IInv
  BY InitHolds
<1>2. IInv /\ [Next]_vars => IInv'
  BY NextKeeps
<1> QED
  BY <1>1, <1>2, PTL DEF Spec

\* Both counters of the exchange buffer stay within it, the offset before the length,
\* for all handlers and every length of a message.
THEOREM TypeCorrect == Spec => []TypeOK
<1>1. Init => AccessTypeOK
  BY DEF Init, AccessTypeOK
<1>2. AccessTypeOK /\ [Next]_vars => AccessTypeOK'
  BY AccessKeeps
<1>3. IInv => ExchangeTypeOK
  BY DEF IInv
<1>4. TypeOK <=> ExchangeTypeOK /\ AccessTypeOK
  BY DEF TypeOK
<1> QED
  BY <1>1, <1>2, <1>3, <1>4, Invariant, PTL DEF Spec

\* Every field is read from where the host put it, but for the two exceptions of the
\* code.
THEOREM FieldsCorrect == Spec => []FieldsReadWhereSent
<1>1. IInv => FieldsReadWhereSent
  BY DEF IInv
<1> QED
  BY <1>1, Invariant, PTL

\* No pointer into the buffer is followed after the message has gone.
THEOREM PointersCorrect == Spec => []PointersReadTheMessage
<1>1. IInv => PointersReadTheMessage
  BY DEF IInv
<1> QED
  BY <1>1, Invariant, PTL

\* Every answer fits the buffer and the transport, that of "Back" with the answer before
\* it included.
THEOREM AnswersFitCorrect == Spec => []AnswersFit
<1>1. IInv => AnswersFit
  BY DEF IInv
<1> QED
  BY <1>1, Invariant, PTL

\* A question the host waits for is on the display, and its answer will be sent.
THEOREM QuestionsCorrect == Spec => []QuestionsCanBeAnswered
<1>1. IInv => QuestionsCanBeAnswered
  BY DEF IInv
<1> QED
  BY <1>1, Invariant, PTL

\* No answer the host waits for holds anything but what its handler put in.
THEOREM Fresh == Spec => AnswersAreFresh
<1>1. IInv /\ [Next]_vars => [FreshStep]_vars
  BY NextKeeps
<1>2. AnswersAreFresh <=> [][FreshStep]_vars
  BY PTL DEF AnswersAreFresh, FreshStep
<1> QED
  BY <1>1, <1>2, Invariant, PTL DEF Spec

\* "Back" answers a host that does not wait only after the mode was overwritten.
THEOREM Unasked == Spec => OnlyAnOverwrittenModeAnswersUnasked
<1>1. IInv /\ [Next]_vars => [UnaskedStep]_vars
  BY NextKeeps
<1>2. OnlyAnOverwrittenModeAnswersUnasked <=> [][UnaskedStep]_vars
  BY PTL DEF OnlyAnOverwrittenModeAnswersUnasked, UnaskedStep
<1> QED
  BY <1>1, <1>2, Invariant, PTL DEF Spec
=============================================================================
