--------------------------- MODULE OxenNvramProofs ---------------------------
(***************************************************************************)
(* Proofs about OxenNvram, for every set of key pairs: the memory can be   *)
(* booted wherever the power failed, a reset leaves nothing, a denial is    *)
(* respected, and the memory implements SettingsStore.                      *)
(***************************************************************************)
EXTENDS OxenNvram, TLAPS

\* What is true of the memory while the writes of an installation go on.
InstallInv(net) ==
    /\ job = InstallWrites(net)
    /\ at \in 2 .. 10 => ~Good
    /\ at > 4 => nv["export"] = "prompt"
    /\ at > 5 => nv["confirm"] = "default"
    /\ at > 6 => nv["spend"] = "zero"
    /\ at > 7 => nv["view"] = "zero"
    /\ at > 8 => nv["key_mode"] = "seed"
    /\ at > 9 => nv["network"] = net
    /\ at > 10 => Good

\* The same for a pair of keys, and for the operations of a single write.
PairInv(k) ==
    /\ job = StorePair(k)
    /\ at > 1 => nv["view"] = k
    /\ at > 2 => nv["spend"] = k
    /\ at > 3 => nv["key_mode"] = "external"

SingleWrites ==
    {W("view", k) : k \in Pairs} \cup {W("export", mode) : mode \in ExportModes}
        \cup {W("confirm", value) : value \in Confirmations}

JobInv ==
    Writing =>
        \/ \E net \in Networks : InstallInv(net) /\ task \in {"init", "load"}
        \/ /\ Good
           /\ \/ \E k \in Pairs : PairInv(k) /\ task = "run"
              \/ \E w \in SingleWrites : job = <<w>> /\ task \in {"init", "run"}
              \/ job = <<W("magic", "zero")>> /\ task = "init"

\* Outside of a boot the magic is there.
UsableInv ==
    /\ InstalledIsUsable
    /\ task \in {"load", "run"} /\ ~Writing => Good
    /\ task = "off" => ~Writing

\* A permission held in RAM is never older than a stored denial.
DenialInv ==
    /\ asked => ~Writing /\ nv["export"] = "prompt"
    /\ task \in {"load", "run"} /\ export_view_key =>
          \/ Writing /\ job = <<W("export", "allow")>>
          \/ nv["export"] # "deny" /\ ~(Writing /\ job = <<W("export", "deny")>>)

IInv == TypeOK /\ JobInv /\ UsableInv /\ DenialInv

-----------------------------------------------------------------------------
(* The shapes of the jobs. *)

\* Tuples of flash writes are sequences of flash writes.
LEMMA Tuples ==
    /\ \A a, b, c \in Writes : <<a, b, c>> \in Seq(Writes)
    /\ \A a, b, c, d, e, f, g, h, i, j \in Writes :
          <<a, b, c, d, e, f, g, h, i, j>> \in Seq(Writes)
  OBVIOUS

\* A write of an admissible value to a field is a flash write.
LEMMA WriteType ==
    ASSUME NEW f \in Fields, NEW v \in ValuesOf(f)
    PROVE  W(f, v) \in Writes
  BY DEF W, Writes

\* Every job that an operation starts consists of flash writes.
LEMMA JobType ==
    /\ <<>> \in Seq(Writes)
    /\ \A net \in Networks : InstallWrites(net) \in Seq(Writes)
    /\ \A k \in Pairs : StorePair(k) \in Seq(Writes)
    /\ \A w \in SingleWrites : <<w>> \in Seq(Writes)
    /\ <<W("magic", "zero")>> \in Seq(Writes)
  <1>1. \A f \in Fields : \A v \in ValuesOf(f) : W(f, v) \in Writes
    BY WriteType
  <1>2. /\ W("magic", "zero") \in Writes /\ W("magic", "good") \in Writes
        /\ W("key_mode", "zero") \in Writes /\ W("key_mode", "seed") \in Writes
        /\ W("key_mode", "external") \in Writes
        /\ W("spend", "zero") \in Writes /\ W("view", "zero") \in Writes
        /\ \A k \in Pairs : W("view", k) \in Writes /\ W("spend", k) \in Writes
        /\ \A mode \in ExportModes : W("export", mode) \in Writes
        /\ \A value \in Confirmations : W("confirm", value) \in Writes
        /\ \A net \in Networks : W("network", net) \in Writes
    BY <1>1 DEF Fields, ValuesOf, Halves
  <1>3. /\ W("network", "MAINNET") \in Writes /\ W("export", "prompt") \in Writes
        /\ W("confirm", "default") \in Writes
    BY <1>2 DEF Networks, ExportModes, Confirmations
  <1>4. \A net \in Networks : InstallWrites(net) \in Seq(Writes)
    <2> SUFFICES ASSUME NEW net \in Networks PROVE InstallWrites(net) \in Seq(Writes)
      OBVIOUS
    <2> QED BY <1>2, <1>3, Tuples DEF InstallWrites
  <1>5. \A k \in Pairs : StorePair(k) \in Seq(Writes)
    BY <1>2, Tuples DEF StorePair
  <1>6. \A w \in SingleWrites : w \in Writes
    BY <1>2 DEF SingleWrites
  <1> QED BY <1>2, <1>4, <1>5, <1>6

\* The four answers to the question about the view key, as their bits fall.
LEMMA Answers ==
    /\ ~Remembers(ACCEPT)
    /\ Remembers(REJECT) /\ WithoutRemember(REJECT) # ACCEPT
    /\ Remembers(WithRemember(ACCEPT))
    /\ WithoutRemember(WithRemember(ACCEPT)) = ACCEPT
    /\ WithRemember(REJECT) = REJECT
  BY DEF Remembers, WithoutRemember, WithRemember, ACCEPT, REJECT, RememberBit

\* An answer gives the permission and stores at most that, or takes it and
\* stores the denial.
LEMMA Decided ==
    ASSUME NEW value \in {ACCEPT, REJECT, WithRemember(ACCEPT), WithRemember(REJECT)},
           Decide(value)
    PROVE  /\ at' = 1 /\ task' = "run" /\ UNCHANGED <<nv, loaded>>
           /\ \/ export_view_key' = TRUE /\ value \in {ACCEPT, WithRemember(ACCEPT)}
                 /\ job' \in {<<>>, <<W("export", "allow")>>}
              \/ export_view_key' = FALSE /\ job' = <<W("export", "deny")>>
  BY Answers DEF Decide, Do

\* The values of the buttons are among these.
LEMMA ButtonValues ==
    \A button \in Buttons :
        ValueOf(button) \in {ACCEPT, REJECT, WithRemember(ACCEPT), WithRemember(REJECT)}
  BY DEF Buttons, ValueOf

-----------------------------------------------------------------------------
(* The inductive invariant holds at first and is kept by every step. *)

\* A cleared state in RAM is well typed.
LEMMA ClearedType ==
    /\ NoKeys \in (Halves \cup {"seed"}) \X (Halves \cup {"seed"})
    /\ "none" \in Buttons \cup {"none"}
    /\ Tasks = {"off", "init", "load", "run", "failed"}
    /\ Len(<<>>) = 0
  BY DEF NoKeys, Halves, Tasks

\* The first state satisfies the invariant.
LEMMA InitIInv == Init => IInv
  <1> SUFFICES ASSUME Init PROVE IInv
    OBVIOUS
  <1>1. TypeOK
    <2>1. /\ DOMAIN nv = Fields
          /\ \A f \in Fields : nv[f] \in ValuesOf(f)
      BY DEF Init, Fields, ValuesOf, Networks, ExportModes, Confirmations, Halves
    <2>2. /\ job \in Seq(Writes) /\ at \in 1 .. Len(job) + 1 /\ task \in Tasks
          /\ loaded \in (Halves \cup {"seed"}) \X (Halves \cup {"seed"})
          /\ answered \in Buttons \cup {"none"}
      BY JobType, ClearedType DEF Init
    <2> QED BY <2>1, <2>2 DEF Init, TypeOK
  <1> QED BY <1>1 DEF Init, IInv, JobInv, UsableInv, DenialInv, InstalledIsUsable, Writing,
                      Good, Fields

\* A flash write keeps the types.
LEMMA WriteKeepsTypes ==
    ASSUME TypeOK, Write
    PROVE  TypeOK'
  <1>1. job[at] \in Writes /\ at' = at + 1 /\ at' \in 1 .. Len(job) + 1 /\ job' = job
    BY DEF TypeOK, Write, Writing
  <1>2. PICK f \in Fields : job[at].field = f /\ job[at].value \in ValuesOf(f)
    BY <1>1 DEF Writes
  <1>3. nv' = [nv EXCEPT ![f] = job[at].value]
    BY <1>2 DEF Write
  <1>4. DOMAIN nv' = Fields /\ \A g \in Fields : nv'[g] \in ValuesOf(g)
    BY <1>2, <1>3 DEF TypeOK
  <1> QED BY <1>1, <1>4 DEF TypeOK, Write

\* Losing power keeps the types, also when a field is torn.
LEMMA PowerOffKeepsTypes ==
    ASSUME TypeOK, PowerOff
    PROVE  TypeOK'
  <1>1. DOMAIN nv' = Fields /\ \A g \in Fields : nv'[g] \in ValuesOf(g)
    <2>1. CASE UNCHANGED nv
      BY <2>1 DEF TypeOK
    <2>2. CASE ~UNCHANGED nv
      <3>1. PICK f \in WideFields : nv' = [nv EXCEPT ![f] = "torn"]
        BY <2>2 DEF PowerOff
      <3>2. f \in Fields /\ "torn" \in ValuesOf(f)
        BY DEF WideFields, Fields, ValuesOf, Halves
      <3> QED BY <3>1, <3>2 DEF TypeOK
    <2> QED BY <2>1, <2>2
  <1>2. Len(job') = 0 /\ job' \in Seq(Writes) /\ at' = 1 /\ task' = "off"
    BY JobType DEF PowerOff, Do
  <1>3. /\ at' \in 1 .. Len(job') + 1 /\ task' \in Tasks
        /\ loaded' \in (Halves \cup {"seed"}) \X (Halves \cup {"seed"})
        /\ answered' \in Buttons \cup {"none"}
    BY <1>2, ClearedType DEF PowerOff
  <1> QED BY <1>1, <1>2, <1>3 DEF TypeOK, PowerOff

\* An operation that starts a job of known shape keeps the types.
LEMMA DoKeepsTypes ==
    ASSUME TypeOK, UNCHANGED <<nv, loaded>>,
           NEW j \in Seq(Writes), NEW t \in Tasks, Do(j, t),
           export_view_key' \in BOOLEAN, asked' \in BOOLEAN,
           answered' \in Buttons \cup {"none"}
    PROVE  TypeOK'
  BY DEF TypeOK, Do

\* An answer starts a job of known shape.
LEMMA DecideKeepsTypes ==
    ASSUME TypeOK,
           NEW value \in {ACCEPT, REJECT, WithRemember(ACCEPT), WithRemember(REJECT)},
           Decide(value), asked' \in BOOLEAN, answered' \in Buttons \cup {"none"}
    PROVE  TypeOK'
  <1>1. job' \in Seq(Writes)
    BY Decided, JobType DEF SingleWrites, ExportModes
  <1>2. Do(job', "run") /\ "run" \in Tasks /\ export_view_key' \in BOOLEAN
    BY Decided DEF Do, Tasks
  <1> QED BY <1>1, <1>2, Decided, DoKeepsTypes

\* The memory, the jobs and the state in RAM keep their types.
LEMMA TypeStep ==
    ASSUME TypeOK, [Next]_vars
    PROVE  TypeOK'
  <1>1. CASE UNCHANGED vars
    BY <1>1 DEF TypeOK, vars
  <1>2. CASE PowerOn \/ Reinit \/ PinEntered
    BY <1>2 DEF TypeOK, PowerOn, Reinit, PinEntered, Tasks
  <1>3. CASE PowerOff
    BY <1>3, PowerOffKeepsTypes
  <1>4. CASE Write
    BY <1>4, WriteKeepsTypes
  <1>5. CASE MoneroInit
    <2>1. PICK j \in Seq(Writes) : Do(j, "load")
      BY <1>5, JobType DEF MoneroInit, Networks
    <2>2. Len(j) \in Nat /\ 1 \in 1 .. Len(j) + 1
      OBVIOUS
    <2>3. /\ job' \in Seq(Writes) /\ at' \in 1 .. Len(job') + 1 /\ task' \in Tasks
          /\ loaded' \in (Halves \cup {"seed"}) \X (Halves \cup {"seed"})
          /\ answered' \in Buttons \cup {"none"}
      BY <1>5, <2>1, <2>2, ClearedType DEF MoneroInit, Do
    <2> QED BY <1>5, <2>3 DEF TypeOK, MoneroInit
  <1>6. CASE LoadKeys
    <2>1. loaded' \in (Halves \cup {"seed"}) \X (Halves \cup {"seed"})
      BY <1>6 DEF LoadKeys, TypeOK, Fields, ValuesOf
    <2> QED BY <1>6, <2>1 DEF TypeOK, LoadKeys, Tasks
  <1>7. CASE GetViewKey
    <2>1. CASE nv["export"] \in {"allow", "deny"}
      <3>1. PICK value \in {ACCEPT, REJECT} : Decide(value) /\ UNCHANGED asked
        BY <1>7, <2>1 DEF GetViewKey
      <3> QED BY <1>7, <3>1, DecideKeepsTypes DEF GetViewKey, TypeOK
    <2>2. CASE nv["export"] \notin {"allow", "deny"}
      BY <1>7, <2>2 DEF GetViewKey, TypeOK
    <2> QED BY <2>1, <2>2
  <1>8. ASSUME NEW button \in Buttons, AnswerViewKey(button) PROVE TypeOK'
    <2>1. ValueOf(button) \in {ACCEPT, REJECT, WithRemember(ACCEPT), WithRemember(REJECT)}
      BY ButtonValues
    <2> QED BY <1>8, <2>1, DecideKeepsTypes DEF AnswerViewKey
  <1>9. ASSUME NEW k \in Pairs, PutKey(k) \/ PutKeyBadSpend(k) PROVE TypeOK'
    <2>1. PICK j \in Seq(Writes) : Do(j, "run")
      BY <1>9, JobType DEF PutKey, PutKeyBadSpend, SingleWrites
    <2> QED BY <1>9, <2>1, DoKeepsTypes DEF PutKey, PutKeyBadSpend, TypeOK, Tasks
  <1>10. ASSUME NEW f \in Fields, NEW v \in ValuesOf(f), ChooseSetting(f, v) PROVE TypeOK'
    <2>1. <<W(f, v)>> \in Seq(Writes) /\ Do(<<W(f, v)>>, "init")
      BY <1>10, WriteType DEF ChooseSetting
    <2> QED BY <1>10, <2>1, DoKeepsTypes DEF ChooseSetting, TypeOK, Tasks
  <1>11. ASSUME NEW net \in Networks, SelectNetwork(net) PROVE TypeOK'
    <2>1. InstallWrites(net) \in Seq(Writes) /\ Do(InstallWrites(net), "init")
      BY <1>11, JobType DEF SelectNetwork
    <2> QED BY <1>11, <2>1, DoKeepsTypes DEF SelectNetwork, TypeOK, Tasks
  <1>12. CASE Reset
    <2>1. PICK j \in Seq(Writes) : Do(j, "init")
      BY <1>12, JobType DEF Reset
    <2> QED BY <1>12, <2>1, DoKeepsTypes DEF Reset, TypeOK, Tasks
  <1> QED
    BY <1>1, <1>2, <1>3, <1>4, <1>5, <1>6, <1>7, <1>8, <1>9, <1>10, <1>11, <1>12
    DEF Next, Boot, Operation, Fields, ValuesOf

-----------------------------------------------------------------------------
(* Flash writes and the memory. *)

\* A write changes the field it names, and no other.
Wrote(f, v) == \A g \in Fields : nv'[g] = IF g = f THEN v ELSE nv[g]

\* The action Write is such a write.
LEMMA FieldWrite ==
    ASSUME TypeOK, Write
    PROVE  Wrote(job[at].field, job[at].value)
  BY DEF TypeOK, Write, Wrote

\* One write of an installation, wherever it has got to.
LEMMA InstallWrite ==
    ASSUME TypeOK, NEW net \in Networks, InstallInv(net), Write
    PROVE  /\ InstallInv(net)'
           /\ at' \in 2 .. 11 /\ Len(job') = 10
           /\ at > 1 => ~Good
           /\ nv'["export"] \in {"prompt", nv["export"]}
  <1>1. at \in 1 .. 10 /\ at' = at + 1 /\ job' = job /\ Len(job) = 10
    BY DEF TypeOK, Write, Writing, InstallInv, InstallWrites
  <1>2. Wrote(job[at].field, job[at].value)
    BY FieldWrite
  <1>3. \/ at = 1 /\ Wrote("magic", "zero")
        \/ at = 2 /\ Wrote("network", "MAINNET")
        \/ at = 3 /\ Wrote("key_mode", "zero")
        \/ at = 4 /\ Wrote("export", "prompt")
        \/ at = 5 /\ Wrote("confirm", "default")
        \/ at = 6 /\ Wrote("spend", "zero")
        \/ at = 7 /\ Wrote("view", "zero")
        \/ at = 8 /\ Wrote("key_mode", "seed")
        \/ at = 9 /\ Wrote("network", net)
        \/ at = 10 /\ Wrote("magic", "good")
    BY <1>1, <1>2 DEF InstallWrites, InstallInv, W
  <1> QED BY <1>1, <1>2, <1>3 DEF InstallInv, Good, Fields, Wrote

\* One write of a pair of keys.
LEMMA PairWrite ==
    ASSUME TypeOK, NEW k \in Pairs, PairInv(k), Write
    PROVE  /\ PairInv(k)'
           /\ at' \in 2 .. 4 /\ Len(job') = 3
           /\ \/ at = 1 /\ Wrote("view", k)
              \/ at = 2 /\ Wrote("spend", k)
              \/ at = 3 /\ Wrote("key_mode", "external")
  <1>1. at \in 1 .. 3 /\ at' = at + 1 /\ job' = job /\ Len(job) = 3
    BY DEF TypeOK, Write, Writing, PairInv, StorePair
  <1>2. Wrote(job[at].field, job[at].value)
    BY FieldWrite
  <1>3. \/ at = 1 /\ Wrote("view", k)
        \/ at = 2 /\ Wrote("spend", k)
        \/ at = 3 /\ Wrote("key_mode", "external")
    BY <1>1, <1>2 DEF StorePair, PairInv, W
  <1> QED BY <1>1, <1>2, <1>3 DEF PairInv, Fields, Wrote

\* A job of a single write is done after it.
LEMMA SingleWrite ==
    ASSUME TypeOK, NEW f \in Fields, NEW v, job = <<W(f, v)>>, Write
    PROVE  /\ Wrote(f, v)
           /\ ~Writing' /\ at = 1
  <1>1. at = 1 /\ at' = 2 /\ Len(job') = 1
    BY DEF TypeOK, Write, Writing
  <1>2. Wrote(job[at].field, job[at].value)
    BY FieldWrite
  <1> QED BY <1>1, <1>2 DEF W, Writing

\* The single writes, by their field.
LEMMA SingleWriteCases ==
    ASSUME NEW w \in SingleWrites
    PROVE  \/ \E k \in Pairs : w = W("view", k)
           \/ \E mode \in ExportModes : w = W("export", mode)
           \/ \E value \in Confirmations : w = W("confirm", value)
  BY DEF SingleWrites

-----------------------------------------------------------------------------
(* Every step keeps the invariant. *)

\* A write within an installation.
LEMMA InstallWriteStep ==
    ASSUME IInv, NEW net \in Networks, InstallInv(net), task \in {"init", "load"}, Write
    PROVE  JobInv' /\ UsableInv' /\ DenialInv'
  <1>1. /\ InstallInv(net)'
        /\ at' \in 2 .. 11 /\ Len(job') = 10 /\ Len(job) = 10
        /\ nv'["export"] \in {"prompt", nv["export"]}
        /\ task' = task /\ export_view_key' = export_view_key /\ asked' = asked
    BY InstallWrite DEF IInv, Write
  <1>2. JobInv'
    BY <1>1 DEF JobInv
  <1>3. UsableInv'
    BY <1>1 DEF UsableInv, InstalledIsUsable, InstallInv, Writing
  <1>4. ~asked
    BY DEF IInv, DenialInv, Write
  <1>5. /\ job # <<W("export", "allow")>>
        /\ job' # <<W("export", "deny")>>
    BY <1>1
  <1> QED BY <1>1, <1>2, <1>3, <1>4, <1>5 DEF IInv, DenialInv

\* A write of a pair of keys.
LEMMA PairWriteStep ==
    ASSUME IInv, NEW k \in Pairs, PairInv(k), task = "run", Good, Write
    PROVE  JobInv' /\ UsableInv' /\ DenialInv'
  <1>1. /\ PairInv(k)'
        /\ Len(job') = 3 /\ Len(job) = 3
        /\ Good' /\ nv'["export"] = nv["export"]
        /\ nv'["key_mode"] \in {"external", nv["key_mode"]}
        /\ task' = task /\ export_view_key' = export_view_key /\ asked' = asked
    BY PairWrite DEF IInv, Write, Wrote, PairInv, StorePair, Good, Fields
  <1>2. JobInv'
    BY <1>1 DEF JobInv
  <1>3. UsableInv'
    BY <1>1 DEF IInv, UsableInv, InstalledIsUsable
  <1>4. ~asked
    BY DEF IInv, DenialInv, Write
  <1>5. /\ job # <<W("export", "allow")>>
        /\ job' # <<W("export", "deny")>>
    BY <1>1
  <1> QED BY <1>1, <1>2, <1>3, <1>4, <1>5 DEF IInv, DenialInv

\* The write of an operation that has only one.
LEMMA SingleWriteStep ==
    ASSUME IInv, NEW w \in SingleWrites, job = <<w>>, task \in {"init", "run"}, Good, Write
    PROVE  JobInv' /\ UsableInv' /\ DenialInv'
  <1>1. ~Writing' /\ task' = task /\ export_view_key' = export_view_key /\ asked' = asked
    BY SingleWrite DEF IInv, Write, TypeOK, Writing
  <1>2. ~asked
    BY DEF IInv, DenialInv, Write
  <1>3. PICK f \in {"view", "export", "confirm"} : \E v : w = W(f, v)
    BY SingleWriteCases
  <1>4. PICK v : w = W(f, v)
    BY <1>3
  <1>5. Wrote(f, v) /\ at = 1 /\ Writing
    BY <1>4, SingleWrite DEF IInv, Fields, Write
  <1>6. Good' /\ nv'["key_mode"] = nv["key_mode"]
    BY <1>5 DEF Wrote, Good, Fields
  <1>7. JobInv' /\ UsableInv'
    BY <1>1, <1>6 DEF IInv, JobInv, UsableInv, InstalledIsUsable
  <1>8. task \in {"load", "run"} /\ export_view_key => nv'["export"] # "deny"
    <2>1. CASE f = "export"
      <3>1. nv'["export"] = v
        BY <1>5, <2>1 DEF Wrote, Fields
      <3>2. task \in {"load", "run"} /\ export_view_key => v # "deny"
        <4> SUFFICES ASSUME task \in {"load", "run"}, export_view_key, v = "deny"
                     PROVE  FALSE
          OBVIOUS
        <4>1. job = <<W("export", "deny")>>
          BY <1>4, <2>1
        <4>2. job = <<W("export", "allow")>>
          BY <1>5, <4>1 DEF IInv, DenialInv
        <4>3. job[1].value = "deny" /\ job[1].value = "allow"
          BY <4>1, <4>2 DEF W
        <4> QED BY <4>3
      <3> QED BY <3>1, <3>2
    <2>2. CASE f # "export"
      <3>1. nv'["export"] = nv["export"]
        BY <1>5, <2>2 DEF Wrote, Fields
      <3>2. job # <<W("export", "allow")>>
        <4>1. job[1].field = f
          BY <1>4 DEF W
        <4>2. <<W("export", "allow")>>[1].field = "export"
          BY DEF W
        <4> QED BY <4>1, <4>2, <2>2
      <3> QED BY <3>1, <3>2 DEF IInv, DenialInv
    <2> QED BY <2>1, <2>2
  <1> QED BY <1>1, <1>2, <1>7, <1>8 DEF DenialInv

\* The write that wipes the magic.
LEMMA WipeStep ==
    ASSUME IInv, job = <<W("magic", "zero")>>, task = "init", Write
    PROVE  JobInv' /\ UsableInv' /\ DenialInv'
  <1>1. ~Writing' /\ Wrote("magic", "zero") /\ task' = task /\ asked' = asked
    BY SingleWrite DEF IInv, Write, TypeOK, Writing, Fields
  <1>2. ~Good' /\ ~asked
    BY <1>1 DEF Wrote, Good, Fields, IInv, DenialInv, Write
  <1> QED BY <1>1, <1>2 DEF JobInv, UsableInv, DenialInv, InstalledIsUsable

\* Every flash write.
LEMMA WriteStep ==
    ASSUME IInv, Write
    PROVE  JobInv' /\ UsableInv' /\ DenialInv'
  <1>1. Writing
    BY DEF Write
  <1> QED
    BY <1>1, InstallWriteStep, PairWriteStep, SingleWriteStep, WipeStep DEF IInv, JobInv

\* Losing power, wherever the writes have got to.
LEMMA PowerOffStep ==
    ASSUME IInv, PowerOff
    PROVE  JobInv' /\ UsableInv' /\ DenialInv'
  <1>1. ~Writing' /\ task' = "off" /\ ~asked'
    BY DEF PowerOff, Do, Writing
  <1>2. Good' => nv'["key_mode"] \in {"seed", "external"}
    BY DEF PowerOff, Good, IInv, TypeOK, UsableInv, InstalledIsUsable, WideFields, Fields
  <1> QED BY <1>1, <1>2 DEF JobInv, UsableInv, DenialInv, InstalledIsUsable

\* The steps of a boot that write nothing themselves.
LEMMA BootStep ==
    ASSUME IInv, MoneroInit \/ LoadKeys
    PROVE  JobInv' /\ UsableInv' /\ DenialInv'
  <1>1. CASE MoneroInit /\ Good
    <2>1. ~Writing' /\ task' = "load" /\ ~asked' /\ ~export_view_key' /\ nv' = nv
      BY <1>1 DEF MoneroInit, Do, Writing
    <2> QED BY <2>1, <1>1 DEF IInv, JobInv, UsableInv, DenialInv, InstalledIsUsable, Good
  <1>2. CASE MoneroInit /\ ~Good
    <2>1. /\ job' = InstallWrites("MAINNET") /\ at' = 1
          /\ task' = "load" /\ ~asked' /\ ~export_view_key' /\ nv' = nv
      BY <1>2 DEF MoneroInit, Do
    <2>2. Writing' /\ InstallInv("MAINNET")' /\ "MAINNET" \in Networks
      BY <2>1 DEF Writing, InstallInv, InstallWrites, Networks
    <2>3. ~Good'
      BY <1>2, <2>1 DEF Good
    <2> QED BY <2>1, <2>2, <2>3 DEF JobInv, UsableInv, DenialInv, InstalledIsUsable
  <1>3. CASE LoadKeys
    <2>1. ~Writing /\ ~Writing' /\ nv' = nv /\ Good /\ task = "load"
      BY <1>3 DEF LoadKeys, Writing, IInv, UsableInv
    <2>2. task' = "run"
      BY <1>3, <2>1 DEF LoadKeys, IInv, UsableInv, InstalledIsUsable
    <2> QED
      BY <1>3, <2>1, <2>2
      DEF LoadKeys, IInv, JobInv, UsableInv, DenialInv, InstalledIsUsable, Good
  <1> QED BY <1>1, <1>2, <1>3

\* The steps that start nothing.
LEMMA IdleStep ==
    ASSUME IInv, PowerOn \/ Reinit \/ PinEntered \/ UNCHANGED vars
    PROVE  JobInv' /\ UsableInv' /\ DenialInv'
  <1>1. /\ UNCHANGED <<nv, job, at, loaded, export_view_key, asked, answered>>
        /\ Writing' <=> Writing
        /\ Good' <=> Good
    BY DEF PowerOn, Reinit, PinEntered, vars, Writing, Good
  <1>2. CASE UNCHANGED vars
    BY <1>1, <1>2 DEF IInv, JobInv, UsableInv, DenialInv, InstalledIsUsable, InstallInv,
                      PairInv, Good, vars
  <1>3. CASE PowerOn
    BY <1>1, <1>3 DEF PowerOn, IInv, JobInv, UsableInv, DenialInv, InstalledIsUsable
  <1>4. CASE Reinit \/ PinEntered
    BY <1>1, <1>4 DEF Reinit, PinEntered, Serving, IInv, JobInv, UsableInv, DenialInv,
                      InstalledIsUsable
  <1> QED BY <1>2, <1>3, <1>4

\* The answer to the question about the view key, by the user or by the
\* stored mode.
LEMMA DecideStep ==
    ASSUME IInv, Serving,
           NEW value \in {ACCEPT, REJECT, WithRemember(ACCEPT), WithRemember(REJECT)},
           Decide(value), ~asked',
           nv["export"] = "deny" => value = REJECT
    PROVE  JobInv' /\ UsableInv' /\ DenialInv'
  <1>1. /\ at' = 1 /\ task' = "run" /\ nv' = nv /\ Good /\ Good'
        /\ \/ export_view_key' = TRUE /\ value \in {ACCEPT, WithRemember(ACCEPT)}
              /\ job' \in {<<>>, <<W("export", "allow")>>}
           \/ export_view_key' = FALSE /\ job' = <<W("export", "deny")>>
    BY Decided DEF IInv, UsableInv, Serving, Good
  <1>2. JobInv'
    BY <1>1 DEF JobInv, SingleWrites, ExportModes, Writing
  <1>3. UsableInv'
    BY <1>1 DEF IInv, UsableInv, InstalledIsUsable, Good
  <1>4. value \in {ACCEPT, WithRemember(ACCEPT)} => value # REJECT
    BY DEF WithRemember, Remembers, ACCEPT, REJECT, RememberBit
  <1>5. job' = <<W("export", "allow")>> => Writing'
    BY <1>1 DEF Writing
  <1>6. job' = <<>> => ~Writing'
    BY <1>1 DEF Writing
  <1> QED BY <1>1, <1>2, <1>3, <1>4, <1>5, <1>6 DEF DenialInv

\* The operations that start flash writes.
LEMMA JobStep ==
    ASSUME IInv, Serving, UNCHANGED <<nv, export_view_key, asked>>, ~asked,
           NEW j, NEW t, Do(j, t),
           \/ t = "init" /\ \E net \in Networks : j = InstallWrites(net)
           \/ t = "init" /\ j = <<W("magic", "zero")>>
           \/ t = "init" /\ \E w \in SingleWrites : j = <<w>>
           \/ t = "run" /\ \E k \in Pairs : j = StorePair(k) \/ j = <<W("view", k)>>
    PROVE  JobInv' /\ UsableInv' /\ DenialInv'
  <1>0. Len(j) >= 1
    <2>1. CASE \E w : j = <<w>>
      BY <2>1
    <2>2. CASE \E net \in Networks : j = InstallWrites(net)
      BY <2>2 DEF InstallWrites
    <2>3. CASE \E k \in Pairs : j = StorePair(k)
      BY <2>3 DEF StorePair
    <2> QED BY <2>1, <2>2, <2>3
  <1>1. /\ Good /\ Good' /\ job' = j /\ at' = 1 /\ task' = t /\ Writing'
    BY <1>0 DEF IInv, UsableInv, Serving, Do, Good, Writing
  <1>2. JobInv'
    BY <1>1 DEF JobInv, InstallInv, PairInv, SingleWrites
  <1>3. UsableInv'
    BY <1>1 DEF IInv, UsableInv, InstalledIsUsable, Good
  <1>4. t = "run" => j # <<W("export", "deny")>>
    BY DEF StorePair, W
  <1>5. task = "run" /\ ~Writing
    BY DEF Serving
  <1> QED BY <1>1, <1>2, <1>3, <1>4, <1>5 DEF IInv, DenialInv

\* Every step keeps the invariant.
LEMMA IInvStep ==
    ASSUME IInv, [Next]_vars
    PROVE  IInv'
  <1>1. TypeOK'
    BY TypeStep DEF IInv
  <1> SUFFICES JobInv' /\ UsableInv' /\ DenialInv'
    BY <1>1 DEF IInv
  <1>2. CASE Write
    BY <1>2, WriteStep
  <1>3. CASE PowerOff
    BY <1>3, PowerOffStep
  <1>4. CASE MoneroInit \/ LoadKeys
    BY <1>4, BootStep
  <1>5. CASE PowerOn \/ Reinit \/ PinEntered \/ UNCHANGED vars
    BY <1>5, IdleStep
  <1>6. CASE GetViewKey
    <2>1. CASE nv["export"] \in {"allow", "deny"}
      <3>1. PICK value \in {ACCEPT, REJECT} : Decide(value) /\ UNCHANGED asked
                                              /\ (nv["export"] = "deny" => value = REJECT)
        BY <1>6, <2>1 DEF GetViewKey
      <3> QED BY <1>6, <3>1, DecideStep DEF GetViewKey
    <2>2. CASE nv["export"] \notin {"allow", "deny"}
      <3>1. /\ UNCHANGED <<nv, job, at, task, loaded, export_view_key>>
            /\ Serving /\ nv["export"] = "prompt" /\ Writing' = Writing /\ Good' = Good
        BY <1>6, <2>2 DEF GetViewKey, IInv, TypeOK, Fields, ValuesOf, ExportModes,
                          Writing, Good
      <3> QED BY <3>1 DEF IInv, JobInv, UsableInv, DenialInv, InstalledIsUsable, Serving, Good
    <2> QED BY <2>1, <2>2
  <1>7. ASSUME NEW button \in Buttons, AnswerViewKey(button)
        PROVE  JobInv' /\ UsableInv' /\ DenialInv'
    <2>1. nv["export"] # "deny" /\ Serving /\ ~asked' /\ Decide(ValueOf(button))
      BY <1>7 DEF AnswerViewKey, IInv, DenialInv
    <2> QED BY <2>1, ButtonValues, DecideStep
  <1>8. ASSUME NEW k \in Pairs, PutKey(k) \/ PutKeyBadSpend(k)
        PROVE  JobInv' /\ UsableInv' /\ DenialInv'
    BY <1>8, JobStep DEF PutKey, PutKeyBadSpend
  <1>9. ASSUME NEW mode \in ExportModes, ChooseSetting("export", mode)
        PROVE  JobInv' /\ UsableInv' /\ DenialInv'
    BY <1>9, JobStep DEF ChooseSetting, SingleWrites
  <1>10. ASSUME NEW value \in Confirmations, ChooseSetting("confirm", value)
         PROVE  JobInv' /\ UsableInv' /\ DenialInv'
    BY <1>10, JobStep DEF ChooseSetting, SingleWrites
  <1>11. ASSUME NEW net \in Networks, SelectNetwork(net)
         PROVE  JobInv' /\ UsableInv' /\ DenialInv'
    BY <1>11, JobStep DEF SelectNetwork
  <1>12. CASE Reset
    BY <1>12, JobStep DEF Reset
  <1> QED
    BY <1>2, <1>3, <1>4, <1>5, <1>6, <1>7, <1>8, <1>9, <1>10, <1>11, <1>12
    DEF Next, Boot, Operation

-----------------------------------------------------------------------------
(* The theorems. *)

\* The invariant holds in every reachable state.
THEOREM Inductive == Spec => []IInv
  BY InitIInv, IInvStep, PTL DEF Spec

\* The memory, the jobs and the state in RAM are well typed.
THEOREM TypeCorrect == Spec => []TypeOK
  <1>1. IInv => TypeOK
    BY DEF IInv
  <1> QED BY <1>1, Inductive, PTL

\* A memory that bears the magic can be booted, wherever the power failed
\* (oxen_install, monero_init_private_key).
THEOREM BootsAlways == Spec => []InstalledIsUsable
  <1>1. IInv => InstalledIsUsable
    BY DEF IInv, UsableInv
  <1> QED BY <1>1, Inductive, PTL

\* A stored denial ends a permission held in RAM (viewkey_export_submenu_selector,
\* ui_menu_export_viewkey_action).
THEOREM Denials == Spec => []DenialIsRespected
  <1>1. IInv => DenialIsRespected
    BY DEF IInv, DenialInv, DenialIsRespected, Serving
  <1> QED BY <1>1, Inductive, PTL

-----------------------------------------------------------------------------
(* The memory as a store. *)

\* A step that does not touch the memory does not touch the store.
LEMMA SameStore ==
    ASSUME nv' = nv
    PROVE  UNCHANGED Store!vars
  BY DEF Store!vars, Account, Good

\* An installation wipes the store with its first write and appears with its
\* last, when nothing of the old memory is left.
LEMMA InstallStore ==
    ASSUME TypeOK, NEW net \in Networks, InstallInv(net), Write
    PROVE  /\ Store!Wipe \/ Store!Install(net) \/ UNCHANGED Store!vars
           /\ ~Good /\ Good' => /\ nv'["key_mode"] = "seed"
                                /\ nv'["export"] = "prompt" /\ nv'["confirm"] = "default"
                                /\ nv'["spend"] = "zero" /\ nv'["view"] = "zero"
  <1>1. InstallInv(net)' /\ at' \in 2 .. 11 /\ (at > 1 => ~Good)
    BY InstallWrite
  <1>2. CASE at' = 11
    <2>1. at = 10
      BY <1>2 DEF Write, TypeOK
    <2>2. /\ ~Good /\ Good'
          /\ nv'["key_mode"] = "seed" /\ nv'["network"] = net
          /\ nv'["export"] = "prompt" /\ nv'["confirm"] = "default"
          /\ nv'["spend"] = "zero" /\ nv'["view"] = "zero"
      BY <1>1, <1>2, <2>1 DEF InstallInv
    <2>3. Account = <<"none", "none">> /\ Account' = <<"seed", "seed">>
      BY <2>2 DEF Account
    <2> QED BY <2>2, <2>3 DEF Store!Install, Store!Pair
  <1>3. CASE at' # 11
    <2>1. ~Good' /\ Account' = <<"none", "none">>
      BY <1>1, <1>3 DEF InstallInv, Account
    <2>2. CASE Good
      BY <2>1, <2>2 DEF Store!Wipe, Store!Wiped, Store!Pair
    <2>3. CASE ~Good
      BY <2>1, <2>3 DEF Store!vars, Account, Good
    <2> QED BY <2>1, <2>2, <2>3
  <1> QED BY <1>2, <1>3

\* A pair of keys comes into use with the write of the key mode, or, where
\* another pair is in use, half by half.
LEMMA PairStore ==
    ASSUME TypeOK, NEW k \in Pairs, PairInv(k), InstalledIsUsable, Good, Write
    PROVE  Store!UsePair(k) \/ Store!ReplaceHalf(k) \/ UNCHANGED Store!vars
  <1>1. /\ PairInv(k)' /\ at' = at + 1
        /\ \/ at = 1 /\ Wrote("view", k)
           \/ at = 2 /\ Wrote("spend", k)
           \/ at = 3 /\ Wrote("key_mode", "external")
    BY PairWrite DEF Write
  <1>2. Good' /\ nv'["network"] = nv["network"] /\ nv'["export"] = nv["export"]
        /\ nv'["confirm"] = nv["confirm"]
    BY <1>1 DEF Wrote, Good, Fields
  <1>3. CASE nv["key_mode"] = "seed" /\ at \in {1, 2}
    <2>1. nv'["key_mode"] = "seed"
      BY <1>1, <1>3 DEF Wrote, Fields
    <2> QED BY <1>2, <1>3, <2>1 DEF Store!vars, Account
  <1>4. CASE nv["key_mode"] = "seed" /\ at = 3
    <2>1. nv'["key_mode"] = "external" /\ nv'["view"] = k /\ nv'["spend"] = k
      BY <1>1, <1>4 DEF Wrote, Fields, PairInv
    <2>2. Account = <<"seed", "seed">> /\ Account' = <<k, k>>
      BY <1>2, <1>4, <2>1 DEF Account
    <2> QED BY <1>2, <2>2 DEF Store!UsePair, Store!Pair
  <1>5. CASE nv["key_mode"] = "external"
    <2>1. /\ Account = <<nv["view"], nv["spend"]>>
          /\ Account' = <<nv'["view"], nv'["spend"]>>
      BY <1>1, <1>2, <1>5 DEF Wrote, Fields, Account
    <2>2. nv["view"] # "seed"
      BY PairsAssumption DEF TypeOK, Fields, ValuesOf, Halves
    <2>3. CASE at = 3
      <3>1. nv'["view"] = nv["view"] /\ nv'["spend"] = nv["spend"]
        BY <1>1, <2>3 DEF Wrote, Fields
      <3> QED BY <1>2, <2>1, <3>1 DEF Store!vars
    <2>4. CASE at = 1
      <3>1. nv'["view"] = k /\ nv'["spend"] = nv["spend"]
        BY <1>1, <2>4 DEF Wrote, Fields
      <3> QED BY <1>2, <2>1, <2>2, <3>1 DEF Store!ReplaceHalf, Store!Pair
    <2>5. CASE at = 2
      <3>1. nv'["view"] = nv["view"] /\ nv'["spend"] = k
        BY <1>1, <2>5 DEF Wrote, Fields
      <3> QED BY <1>2, <2>1, <2>2, <3>1 DEF Store!ReplaceHalf, Store!Pair
    <2> QED BY <1>1, <2>3, <2>4, <2>5
  <1> QED BY <1>1, <1>3, <1>4, <1>5 DEF InstalledIsUsable

\* A single write sets what it names.
LEMMA SingleStore ==
    ASSUME IInv, NEW w \in SingleWrites, job = <<w>>, Good, Write
    PROVE  \/ \E mode \in ExportModes : Store!SetExport(mode)
           \/ \E value \in Confirmations : Store!SetConfirm(value)
           \/ \E k \in Pairs : Store!ReplaceHalf(k)
           \/ UNCHANGED Store!vars
  <1>1. CASE \E mode \in ExportModes : w = W("export", mode)
    <2>1. PICK mode \in ExportModes : Wrote("export", mode)
      BY <1>1, SingleWrite DEF IInv, Fields
    <2>2. /\ Good' /\ nv'["network"] = nv["network"] /\ nv'["confirm"] = nv["confirm"]
          /\ nv'["export"] = mode
          /\ Account' = Account
      BY <2>1 DEF Wrote, Good, Fields, Account
    <2> QED BY <2>2 DEF Store!SetExport
  <1>2. CASE \E value \in Confirmations : w = W("confirm", value)
    <2>1. PICK value \in Confirmations : Wrote("confirm", value)
      BY <1>2, SingleWrite DEF IInv, Fields
    <2>2. /\ Good' /\ nv'["network"] = nv["network"] /\ nv'["export"] = nv["export"]
          /\ nv'["confirm"] = value
          /\ Account' = Account
      BY <2>1 DEF Wrote, Good, Fields, Account
    <2> QED BY <2>2 DEF Store!SetConfirm
  <1>3. CASE \E k \in Pairs : w = W("view", k)
    <2>1. PICK k \in Pairs : Wrote("view", k)
      BY <1>3, SingleWrite DEF IInv, Fields
    <2>2. /\ Good' /\ nv'["network"] = nv["network"] /\ nv'["export"] = nv["export"]
          /\ nv'["confirm"] = nv["confirm"] /\ nv'["key_mode"] = nv["key_mode"]
          /\ nv'["spend"] = nv["spend"] /\ nv'["view"] = k
      BY <2>1 DEF Wrote, Good, Fields
    <2>3. CASE nv["key_mode"] = "seed"
      BY <2>2, <2>3 DEF Store!vars, Account
    <2>4. CASE nv["key_mode"] = "external"
      <3>1. /\ Account = <<nv["view"], nv["spend"]>>
            /\ Account' = <<k, nv["spend"]>>
        BY <2>2, <2>4 DEF Account
      <3>2. nv["view"] # "seed"
        BY PairsAssumption DEF IInv, TypeOK, Fields, ValuesOf, Halves
      <3> QED BY <2>2, <3>1, <3>2 DEF Store!ReplaceHalf, Store!Pair
    <2> QED BY <2>3, <2>4 DEF IInv, UsableInv, InstalledIsUsable
  <1> QED BY <1>1, <1>2, <1>3, SingleWriteCases

\* What a torn field does to the store: a torn magic wipes it, a torn key
\* matters only where an external pair is in use.
LEMMA TornStore ==
    ASSUME IInv, PowerOff
    PROVE  Store!Wipe \/ Store!ReplaceHalf("torn") \/ UNCHANGED Store!vars
  <1>1. CASE UNCHANGED nv
    BY <1>1, SameStore
  <1>2. CASE ~UNCHANGED nv
    <2>1. PICK f \in WideFields : nv' = [nv EXCEPT ![f] = "torn"]
      BY <1>2 DEF PowerOff
    <2>2. Wrote(f, "torn")
      BY <2>1 DEF Wrote, IInv, TypeOK
    <2>3. CASE ~Good
      <3>1. ~Good'
        BY <2>2, <2>3 DEF Wrote, Good, Fields
      <3> QED BY <2>3, <3>1 DEF Store!vars, Account, Good
    <2>4. CASE Good /\ f = "magic"
      <3>1. ~Good' /\ Account' = <<"none", "none">>
        BY <2>2, <2>4 DEF Wrote, Good, Fields, Account
      <3> QED BY <2>4, <3>1 DEF Store!Wipe, Store!Wiped, Store!Pair
    <2>5. CASE Good /\ f # "magic"
      <3>1. /\ Good' /\ nv'["network"] = nv["network"] /\ nv'["export"] = nv["export"]
            /\ nv'["confirm"] = nv["confirm"] /\ nv'["key_mode"] = nv["key_mode"]
            /\ \/ nv'["view"] = "torn" /\ nv'["spend"] = nv["spend"]
               \/ nv'["view"] = nv["view"] /\ nv'["spend"] = "torn"
        BY <2>2, <2>5 DEF Wrote, Good, Fields, WideFields
      <3>2. CASE nv["key_mode"] = "seed"
        BY <2>5, <3>1, <3>2 DEF Store!vars, Account
      <3>3. CASE nv["key_mode"] = "external"
        <4>1. /\ Account = <<nv["view"], nv["spend"]>>
              /\ Account' = <<nv'["view"], nv'["spend"]>>
          BY <2>5, <3>1, <3>3 DEF Account
        <4>2. nv["view"] # "seed"
          BY PairsAssumption DEF IInv, TypeOK, Fields, ValuesOf, Halves
        <4> QED BY <2>5, <3>1, <4>1, <4>2 DEF Store!ReplaceHalf, Store!Pair
      <3> QED BY <2>5, <3>2, <3>3 DEF IInv, UsableInv, InstalledIsUsable
    <2> QED BY <2>3, <2>4, <2>5
  <1> QED BY <1>1, <1>2

\* A wiped magic is a wiped store.
LEMMA WipeStore ==
    ASSUME IInv, job = <<W("magic", "zero")>>, Good, Write
    PROVE  Store!Wipe
  <1>1. Wrote("magic", "zero")
    BY SingleWrite DEF IInv, Fields
  <1>2. ~Good' /\ Account' = <<"none", "none">>
    BY <1>1 DEF Wrote, Good, Fields, Account
  <1> QED BY <1>2 DEF Store!Wipe, Store!Wiped, Store!Pair

\* Every step is a step of the store or leaves it alone.
LEMMA StoreStep ==
    ASSUME IInv, [Next]_vars
    PROVE  [Store!Next]_(Store!vars)
  <1>1. CASE Write
    <2>1. CASE \E net \in Networks : InstallInv(net)
      BY <1>1, <2>1, InstallStore DEF IInv, Store!Next
    <2>2. CASE Good /\ \E k \in Pairs : PairInv(k)
      BY <1>1, <2>2, PairStore DEF IInv, UsableInv, Store!Next
    <2>3. CASE Good /\ \E w \in SingleWrites : job = <<w>>
      BY <1>1, <2>3, SingleStore DEF Store!Next
    <2>4. CASE Good /\ job = <<W("magic", "zero")>>
      BY <1>1, <2>4, WipeStore DEF Store!Next
    <2> QED BY <1>1, <2>1, <2>2, <2>3, <2>4 DEF IInv, JobInv, Write
  <1>2. CASE PowerOff
    BY <1>2, TornStore DEF Store!Next
  <1>3. CASE nv' = nv
    BY <1>3, SameStore
  <1>4. Operation => nv' = nv
    BY DEF Operation, Reinit, PinEntered, GetViewKey, Reset, AnswerViewKey, PutKey,
           PutKeyBadSpend, ChooseSetting, SelectNetwork, Decide
  <1> QED
    BY <1>1, <1>2, <1>3, <1>4 DEF Next, Boot, PowerOn, MoneroInit, LoadKeys, vars

\* A delivered device is an empty store.
LEMMA StoreInit == Init => Store!Init
  BY DEF Init, Store!Init, Store!Pair, Account, Good, Fields

\* The memory, written field by field with the power failing anywhere, is a
\* store whose installation, reset and first key pair are atomic.
THEOREM Implements == Spec => ImplementsStore
  BY Inductive, StoreInit, StoreStep, PTL DEF Spec, Store!Spec, ImplementsStore

\* The magic appears only when nothing of the old settings and keys is left.
LEMMA ResetStep ==
    ASSUME IInv, [Next]_vars, ~Good, Good'
    PROVE  /\ nv'["key_mode"] = "seed"
           /\ nv'["export"] = "prompt" /\ nv'["confirm"] = "default"
           /\ nv'["spend"] = "zero" /\ nv'["view"] = "zero"
  <1>1. nv' # nv
    BY DEF Good
  <1>2. CASE Write
    <2>1. PICK net \in Networks : InstallInv(net)
      BY <1>2 DEF IInv, JobInv, Write
    <2> QED BY <1>2, <2>1, InstallStore DEF IInv
  <1>3. CASE PowerOff
    BY <1>1, <1>3 DEF PowerOff, Good, WideFields, IInv, TypeOK, Fields
  <1>4. Operation => nv' = nv
    BY DEF Operation, Reinit, PinEntered, GetViewKey, Reset, AnswerViewKey, PutKey,
           PutKeyBadSpend, ChooseSetting, SelectNetwork, Decide
  <1> QED
    BY <1>1, <1>2, <1>3, <1>4 DEF Next, Boot, PowerOn, MoneroInit, LoadKeys, vars

\* A reset, a change of network and a first start leave the memory "just
\* installed", also when the power failed in between (oxen_install).
THEOREM ResetsAreComplete == Spec => ResetIsComplete
  <1>1. IInv /\ [Next]_vars =>
          [ ~Good /\ Good' =>
              /\ nv'["key_mode"] = "seed"
              /\ nv'["export"] = "prompt" /\ nv'["confirm"] = "default"
              /\ nv'["spend"] = "zero" /\ nv'["view"] = "zero" ]_vars
    BY ResetStep
  <1> QED BY <1>1, Inductive, PTL DEF Spec, ResetIsComplete

=============================================================================
