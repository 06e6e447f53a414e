----------------------- MODULE SnapshotExchangeProofs -----------------------
(* Proofs about SnapshotExchange, for any finite set of readers, any set of   *)
(* snapshot fields and any modulus of the frame sequence.                     *)
EXTENDS SnapshotExchange, FiniteSetTheorems, TLAPS

-----------------------------------------------------------------------------
(* Types.                                                                     *)

\* Counting one further frame stays inside the counter's width.
LEMMA SequenceStep ==
    ASSUME NEW n \in Sequences
    PROVE  (n + 1) % SeqModulus \in Sequences
  BY ExchangeAssumption DEF Sequences

LEMMA ZeroIsSequence == 0 \in Sequences
  BY ExchangeAssumption DEF Sequences

\* TypeOK, but for the bound of users, which only the count of the readers gives.
Shapes ==
    /\ users \in [Slots -> Int]
    /\ data \in [Slots -> Snapshots]
    /\ active \in Slots
    /\ published \in BOOLEAN
    /\ writerSlot \in Slots
    /\ frameSequence \in Sequences
    /\ wpc \in WriterPcs
    /\ filled \in SUBSET Fields
    /\ rpc \in [Readers -> ReaderPcs]
    /\ slot \in [Readers -> Slots]
    /\ expected \in [Readers -> Int]
    /\ copied \in [Readers -> SUBSET Fields]
    /\ out \in [Readers -> Snapshots]
    /\ ok \in [Readers -> BOOLEAN]

LEMMA InitShapes == Init => Shapes
<1> SUFFICES ASSUME Init PROVE Shapes
  OBVIOUS
<1>1. EmptySnapshot \in Snapshots
  BY ZeroIsSequence DEF EmptySnapshot, Snapshots
<1>2. users \in [Slots -> Int]
  BY DEF Init
<1>3. data \in [Slots -> Snapshots]
  BY <1>1 DEF Init
<1>4. /\ active \in Slots
      /\ published \in BOOLEAN
      /\ writerSlot \in Slots
      /\ frameSequence \in Sequences
      /\ wpc \in WriterPcs
      /\ filled \in SUBSET Fields
  BY <1>1, ZeroIsSequence DEF Init, Slots, WriterPcs
<1>5. /\ rpc \in [Readers -> ReaderPcs]
      /\ slot \in [Readers -> Slots]
      /\ expected \in [Readers -> Int]
      /\ copied \in [Readers -> SUBSET Fields]
      /\ out \in [Readers -> Snapshots]
      /\ ok \in [Readers -> BOOLEAN]
  BY <1>1 DEF Init, Slots, ReaderPcs
<1> QED
  BY <1>2, <1>3, <1>4, <1>5 DEF Shapes

LEMMA StepShapes == Shapes /\ [Next]_vars => Shapes'
<1> SUFFICES ASSUME Shapes, [Next]_vars PROVE Shapes'
  OBVIOUS
<1> USE DEF Shapes, Slots, WriterPcs, ReaderPcs, sharedVars, writerVars,
            readerVars
<1>1. CASE FrameHook
  BY <1>1 DEF FrameHook
<1>2. CASE Claim
  <2>1. frameSequence' \in Sequences
    BY <1>2, SequenceStep DEF Claim
  <2> QED
    BY <1>2, <2>1 DEF Claim, NextSlot
<1>3. CASE Skip
  BY <1>3 DEF Skip
<1>4. ASSUME NEW f \in Fields, Fill(f) PROVE Shapes'
  BY <1>4 DEF Fill, NextSlot, Snapshots
<1>5. CASE Open
  BY <1>5 DEF Open, NextSlot
<1>6. CASE Swing
  BY <1>6 DEF Swing, NextSlot
<1>7. CASE Announce
  BY <1>7 DEF Announce
<1>8. ASSUME NEW r \in Readers, Call(r) PROVE Shapes'
  <2>1. EmptySnapshot \in Snapshots
    BY ZeroIsSequence DEF EmptySnapshot, Snapshots
  <2> QED
    BY <1>8, <2>1 DEF Call, Goto
<1>9. ASSUME NEW r \in Readers, ReaderStep(r) PROVE Shapes'
  <2>1. CASE CheckPublished(r)
    BY <2>1 DEF CheckPublished, Goto
  <2>2. CASE LoadActive(r)
    BY <2>2 DEF LoadActive, Goto
  <2>3. CASE LoadUsers(r)
    BY <2>3 DEF LoadUsers, Goto
  <2>4. CASE Register(r)
    BY <2>4 DEF Register, Goto
  <2>5. CASE CasFails(r)
    BY <2>5 DEF CasFails, Goto
  <2>6. CASE Recheck(r)
    BY <2>6 DEF Recheck, Goto
  <2>7. CASE Leave(r)
    BY <2>7 DEF Leave, Goto
  <2>8. ASSUME NEW f \in Fields, CopyField(r, f) PROVE Shapes'
    <3>1. data[slot[r]][f] \in Sequences
      BY DEF Snapshots
    <3>2. out' \in [Readers -> Snapshots]
      BY <2>8, <3>1 DEF CopyField, Snapshots
    <3> QED
      BY <2>8, <3>2 DEF CopyField, Goto
  <2>9. CASE Release(r)
    BY <2>9 DEF Release, Goto
  <2>10. CASE Return(r)
    BY <2>10 DEF Return, Goto
  <2> QED
    BY <1>9, <2>1, <2>2, <2>3, <2>4, <2>5, <2>6, <2>7, <2>8, <2>9, <2>10
    DEF ReaderStep
<1>10. CASE UNCHANGED vars
  BY <1>10 DEF vars
<1> QED
  BY <1>1, <1>2, <1>3, <1>4, <1>5, <1>6, <1>7, <1>8, <1>9, <1>10
  DEF Next, WriterStep

-----------------------------------------------------------------------------
(* The inductive invariant.  UsersCountReaders and CopyIsStable are not       *)
(* inductive alone: a registration must not be able to turn -1 into 0, and a  *)
(* slot must be whole whenever the writer is not storing into it.             *)

ReaderControl ==
    \A r \in Readers :
        /\ rpc[r] = "cas" => expected[r] >= 0
        /\ ok[r] => rpc[r] \in {"exit", "idle"}
        /\ rpc[r] \notin {"idle", "check", "exit"} => published
        /\ rpc[r] = "release" => copied[r] = Fields
        /\ rpc[r] \notin {"copy", "release", "exit", "idle"} => copied[r] = {}

WriterFilling(s) == wpc = "fill" /\ s = NextSlot

SlotsWhole == \A s \in Slots : WriterFilling(s) \/ IsWhole(data[s])

\* The frame under composition carries the number after the published one.
FrameNumbering ==
    /\ active = writerSlot
    /\ wpc \in {"idle", "claim", "announce"} =>
           data[active][SequenceField] = frameSequence
    /\ wpc \in {"fill", "open", "swing"} =>
           frameSequence = (data[active][SequenceField] + 1) % SeqModulus
    /\ wpc = "fill" =>
           filled # Fields /\ \A f \in filled : data[NextSlot][f] = frameSequence
    /\ wpc \in {"open", "swing"} =>
           \A f \in Fields : data[NextSlot][f] = frameSequence
    /\ ~published =>
           frameSequence = IF wpc \in {"idle", "claim"} THEN 0 ELSE 1 % SeqModulus

IInv ==
    /\ Shapes
    /\ UsersCountReaders
    /\ ReaderControl
    /\ SlotsWhole
    /\ FrameNumbering
    /\ CopyIsStable
    /\ NoTornRead

LEMMA HoldersFinite ==
    ASSUME NEW s \in Slots
    PROVE  /\ IsFiniteSet(Holders(s))
           /\ Cardinality(Holders(s)) \in Nat
<1>1. Holders(s) \subseteq Readers
  BY DEF Holders
<1>2. IsFiniteSet(Holders(s))
  BY <1>1, ExchangeAssumption, FS_Subset
<1> QED
  BY <1>2, FS_CardinalityType

\* A slot somebody holds is not the writer's.
LEMMA HeldNotFilled ==
    ASSUME Shapes, UsersCountReaders, NEW r \in Readers,
           rpc[r] \in {"recheck", "leave", "copy", "release"}
    PROVE  ~WriterOwns(slot[r])
<1>1. slot[r] \in Slots /\ r \in Holders(slot[r])
  BY DEF Shapes, Holders
<1> QED
  BY <1>1 DEF UsersCountReaders

LEMMA InitIInv == Init => IInv
<1> SUFFICES ASSUME Init PROVE IInv
  OBVIOUS
<1>1. Shapes
  BY InitShapes
<1>2. UsersCountReaders
  <2>1. ASSUME NEW s \in Slots PROVE Cardinality(Holders(s)) = 0 /\ ~WriterOwns(s)
    <3>1. Holders(s) = {}
      BY DEF Init, Holders
    <3> QED
      BY <3>1, FS_EmptySet DEF Init, WriterOwns
  <2> QED
    BY <2>1 DEF Init, UsersCountReaders
<1>3. ReaderControl
  BY DEF Init, ReaderControl
<1>4. SlotsWhole
  BY DEF Init, SlotsWhole, IsWhole, EmptySnapshot
<1>5. FrameNumbering
  BY ExchangeAssumption DEF Init, FrameNumbering, EmptySnapshot, Slots
<1>6. CopyIsStable /\ NoTornRead
  BY DEF Init, CopyIsStable, NoTornRead
<1> QED
  BY <1>1, <1>2, <1>3, <1>4, <1>5, <1>6 DEF IInv

\* A reader writes nothing the frame thread or the published frame depends on.
LEMMA ReaderFrame ==
    ASSUME NEW r \in Readers, Call(r) \/ ReaderStep(r)
    PROVE  UNCHANGED <<data, active, published, writerVars>>
  BY DEF Call, ReaderStep, CheckPublished, LoadActive, LoadUsers, Register,
         CasFails, Recheck, Leave, CopyField, Release, Return, sharedVars

LEMMA StepReaderControl == IInv /\ [Next]_vars => ReaderControl'
<1> SUFFICES ASSUME IInv, [Next]_vars PROVE ReaderControl'
  OBVIOUS
<1> USE DEF IInv, Shapes, ReaderControl
<1>1. CASE FrameHook \/ WriterStep
  BY <1>1 DEF FrameHook, WriterStep, Claim, Skip, Fill, Open, Swing, Announce,
              readerVars, sharedVars
<1>2. ASSUME NEW r \in Readers, Call(r) PROVE ReaderControl'
  BY <1>2 DEF Call, Goto, sharedVars
<1>3. ASSUME NEW r \in Readers, ReaderStep(r) PROVE ReaderControl'
  <2> USE DEF Goto, sharedVars
  <2>1. CASE CheckPublished(r)
    BY <2>1 DEF CheckPublished
  <2>2. CASE LoadActive(r)
    BY <2>2 DEF LoadActive
  <2>3. CASE LoadUsers(r)
    BY <2>3 DEF LoadUsers
  <2>4. CASE Register(r)
    BY <2>4 DEF Register
  <2>5. CASE CasFails(r)
    BY <2>5 DEF CasFails
  <2>6. CASE Recheck(r)
    BY <2>6 DEF Recheck
  <2>7. CASE Leave(r)
    BY <2>7 DEF Leave
  <2>8. ASSUME NEW f \in Fields, CopyField(r, f) PROVE ReaderControl'
    BY <2>8 DEF CopyField
  <2>9. CASE Release(r)
    BY <2>9 DEF Release
  <2>10. CASE Return(r)
    BY <2>10 DEF Return
  <2> QED
    BY <1>3, <2>1, <2>2, <2>3, <2>4, <2>5, <2>6, <2>7, <2>8, <2>9, <2>10
    DEF ReaderStep
<1>4. CASE UNCHANGED vars
  BY <1>4 DEF vars, readerVars, sharedVars
<1> QED
  BY <1>1, <1>2, <1>3, <1>4 DEF Next

LEMMA StepFrameNumbering == IInv /\ [Next]_vars => FrameNumbering'
<1> SUFFICES ASSUME IInv, [Next]_vars PROVE FrameNumbering'
  OBVIOUS
<1> USE ExchangeAssumption
        DEF IInv, Shapes, FrameNumbering, NextSlot, Slots, Snapshots, sharedVars
<1>1. CASE FrameHook
  BY <1>1 DEF FrameHook
<1>2. CASE Claim
  BY <1>2 DEF Claim
<1>3. CASE Skip
  BY <1>3 DEF Skip
<1>4. ASSUME NEW f \in Fields, Fill(f) PROVE FrameNumbering'
  BY <1>4 DEF Fill
<1>5. CASE Open
  BY <1>5 DEF Open
<1>6. CASE Swing
  BY <1>6 DEF Swing
<1>7. CASE Announce
  BY <1>7 DEF Announce
<1>8. ASSUME NEW r \in Readers, Call(r) \/ ReaderStep(r) PROVE FrameNumbering'
  BY <1>8, ReaderFrame DEF writerVars
<1>9. CASE UNCHANGED vars
  BY <1>9 DEF vars, writerVars
<1> QED
  BY <1>1, <1>2, <1>3, <1>4, <1>5, <1>6, <1>7, <1>8, <1>9 DEF Next, WriterStep

LEMMA StepSlotsWhole == IInv /\ [Next]_vars => SlotsWhole'
<1> SUFFICES ASSUME IInv, [Next]_vars PROVE SlotsWhole'
  OBVIOUS
<1> USE DEF IInv, Shapes, SlotsWhole, WriterFilling, IsWhole, NextSlot, Slots,
            sharedVars
<1>1. CASE FrameHook \/ Claim \/ Skip
  BY <1>1 DEF FrameHook, Claim, Skip
<1>2. ASSUME NEW f \in Fields, Fill(f) PROVE SlotsWhole'
  <2>1. \A g \in filled' : data'[NextSlot][g] = frameSequence
    BY <1>2 DEF Fill, FrameNumbering, Snapshots
  <2>2. data'[writerSlot] = data[writerSlot]
    BY <1>2 DEF Fill
  <2> QED
    BY <1>2, <2>1, <2>2 DEF Fill
<1>3. CASE Open \/ Swing \/ Announce
  BY <1>3 DEF Open, Swing, Announce
<1>4. ASSUME NEW r \in Readers, Call(r) \/ ReaderStep(r) PROVE SlotsWhole'
  BY <1>4, ReaderFrame DEF writerVars
<1>5. CASE UNCHANGED vars
  BY <1>5 DEF vars, writerVars
<1> QED
  BY <1>1, <1>2, <1>3, <1>4, <1>5 DEF Next, WriterStep

\* The writer leaves every registration alone, and only Claim and Open touch users.
LEMMA WriterStepUsers ==
    ASSUME IInv, FrameHook \/ WriterStep
    PROVE  UsersCountReaders'
<1> USE DEF IInv, Shapes, UsersCountReaders, WriterOwns, NextSlot, Slots,
            sharedVars
<1>1. \A s \in Slots : Holders(s)' = Holders(s)
  BY DEF FrameHook, WriterStep, Claim, Skip, Fill, Open, Swing, Announce,
         readerVars, Holders
<1>2. CASE FrameHook
  BY <1>1, <1>2 DEF FrameHook
<1>3. CASE Claim
  <2>1. Holders(NextSlot) = {}
    <3>1. Cardinality(Holders(NextSlot)) = 0
      BY <1>3 DEF Claim
    <3> QED
      BY <3>1, HoldersFinite, FS_EmptySet
  <2> QED
    BY <1>1, <1>3, <2>1 DEF Claim
<1>4. CASE Skip
  BY <1>1, <1>4 DEF Skip
<1>5. ASSUME NEW f \in Fields, Fill(f) PROVE UsersCountReaders'
  BY <1>1, <1>5 DEF Fill
<1>6. CASE Open
  <2>1. Cardinality({}) = 0
    BY FS_EmptySet
  <2> QED
    BY <1>1, <1>6, <2>1 DEF Open
<1>7. CASE Swing
  BY <1>1, <1>7 DEF Swing
<1>8. CASE Announce
  BY <1>1, <1>8 DEF Announce
<1> QED
  BY <1>2, <1>3, <1>4, <1>5, <1>6, <1>7, <1>8 DEF WriterStep

\* Registering adds the reader to the holders of its slot and to its count.
LEMMA RegisterUsers ==
    ASSUME IInv, NEW r \in Readers, Register(r)
    PROVE  UsersCountReaders'
<1> USE DEF IInv, Shapes, sharedVars
<1>1. \A s \in Slots : WriterOwns(s)' = WriterOwns(s)
  BY DEF Register, writerVars, WriterOwns, NextSlot
<1>2. ~WriterOwns(slot[r])
  BY DEF Register, Goto, ReaderControl, UsersCountReaders
<1>3. ASSUME NEW s \in Slots
      PROVE  Holders(s)' = IF s = slot[r] THEN Holders(s) \cup {r} ELSE Holders(s)
  BY <1>3 DEF Register, Goto, Holders
<1>4. r \notin Holders(slot[r])
  BY DEF Register, Goto, Holders
<1>5. Cardinality(Holders(slot[r]) \cup {r}) = Cardinality(Holders(slot[r])) + 1
  <2>1. slot[r] \in Slots
    OBVIOUS
  <2> QED
    BY <1>4, <2>1, HoldersFinite, FS_AddElement
<1>6. ASSUME NEW s \in Slots
      PROVE  users'[s] = IF s = slot[r] THEN users[s] + 1 ELSE users[s]
  BY DEF Register
<1> QED
  BY <1>1, <1>2, <1>3, <1>5, <1>6 DEF UsersCountReaders

\* Both ways out of a slot take the reader from its holders and from its count.
LEMMA UnregisterUsers ==
    ASSUME IInv, NEW r \in Readers, Leave(r) \/ Release(r)
    PROVE  UsersCountReaders'
<1> USE DEF IInv, Shapes, sharedVars
<1>1. \A s \in Slots : WriterOwns(s)' = WriterOwns(s)
  BY DEF Leave, Release, writerVars, WriterOwns, NextSlot
<1>2. r \in Holders(slot[r])
  BY DEF Leave, Release, Goto, Holders
<1>3. ~WriterOwns(slot[r])
  BY <1>2, HeldNotFilled DEF Holders
<1>4. ASSUME NEW s \in Slots
      PROVE  Holders(s)' = IF s = slot[r] THEN Holders(s) \ {r} ELSE Holders(s)
  BY <1>4 DEF Leave, Release, Goto, Holders
<1>5. Cardinality(Holders(slot[r]) \ {r}) = Cardinality(Holders(slot[r])) - 1
  <2>1. slot[r] \in Slots
    OBVIOUS
  <2>2. IsFiniteSet(Holders(slot[r]))
    BY <2>1, HoldersFinite
  <2> HIDE DEF IInv, Shapes, sharedVars
  <2> QED
    BY <1>2, <2>2, FS_RemoveElement
<1>6. ASSUME NEW s \in Slots
      PROVE  users'[s] = IF s = slot[r] THEN users[s] - 1 ELSE users[s]
  BY DEF Leave, Release
<1> QED
  BY <1>1, <1>3, <1>4, <1>5, <1>6 DEF UsersCountReaders

\* Every other reader step keeps the holders and the counts.
LEMMA OtherReaderUsers ==
    ASSUME IInv, NEW r \in Readers,
           \/ Call(r) \/ CheckPublished(r) \/ LoadActive(r) \/ LoadUsers(r)
           \/ CasFails(r) \/ Recheck(r) \/ (\E f \in Fields : CopyField(r, f))
           \/ Return(r)
    PROVE  UsersCountReaders'
<1> USE DEF IInv, Shapes, sharedVars
<1>1. UNCHANGED <<users, writerVars>>
  BY DEF Call, CheckPublished, LoadActive, LoadUsers, CasFails, Recheck,
         CopyField, Return
<1>2. \A s \in Slots : Holders(s)' = Holders(s)
  BY DEF Call, CheckPublished, LoadActive, LoadUsers, CasFails, Recheck,
         CopyField, Return, Goto, Holders
<1> QED
  BY <1>1, <1>2 DEF UsersCountReaders, WriterOwns, NextSlot, writerVars

LEMMA StepUsers == IInv /\ [Next]_vars => UsersCountReaders'
<1> SUFFICES ASSUME IInv, [Next]_vars PROVE UsersCountReaders'
  OBVIOUS
<1>1. CASE FrameHook \/ WriterStep
  BY <1>1, WriterStepUsers
<1>2. ASSUME NEW r \in Readers, Call(r) \/ ReaderStep(r) PROVE UsersCountReaders'
  BY <1>2, RegisterUsers, UnregisterUsers, OtherReaderUsers DEF ReaderStep
<1>3. CASE UNCHANGED vars
  BY <1>3 DEF vars, sharedVars, writerVars, readerVars, IInv, UsersCountReaders,
              WriterOwns, NextSlot, Holders
<1> QED
  BY <1>1, <1>2, <1>3 DEF Next

\* Only Fill stores into a slot, and no reader copies from the slot it fills.
LEMMA StepCopies == IInv /\ [Next]_vars => CopyIsStable' /\ NoTornRead'
<1> SUFFICES ASSUME IInv, [Next]_vars PROVE CopyIsStable' /\ NoTornRead'
  OBVIOUS
<1> USE DEF IInv, Shapes, CopyIsStable, NoTornRead, IsWhole, Snapshots, sharedVars
<1>1. CASE FrameHook \/ Claim \/ Skip \/ Open \/ Swing \/ Announce
  BY <1>1 DEF FrameHook, Claim, Skip, Open, Swing, Announce, readerVars
<1>2. ASSUME NEW f \in Fields, Fill(f) PROVE CopyIsStable' /\ NoTornRead'
  <2>1. ASSUME NEW r \in Readers, rpc[r] \in {"copy", "release"}
        PROVE  data'[slot[r]] = data[slot[r]]
    <3>1. slot[r] # NextSlot
      BY <1>2, <2>1, HeldNotFilled DEF Fill, WriterOwns
    <3> QED
      BY <1>2, <3>1 DEF Fill
  <2> QED
    BY <1>2, <2>1 DEF Fill, readerVars
<1>3. ASSUME NEW r \in Readers, Call(r) PROVE CopyIsStable' /\ NoTornRead'
  BY <1>3 DEF Call, Goto, EmptySnapshot
<1>4. ASSUME NEW r \in Readers, ReaderStep(r) PROVE CopyIsStable' /\ NoTornRead'
  <2>1. CASE \/ CheckPublished(r) \/ LoadActive(r) \/ LoadUsers(r) \/ CasFails(r)
             \/ Register(r) \/ Recheck(r) \/ Leave(r) \/ Return(r)
    <3>1. UNCHANGED <<data, copied, out, ok>>
      BY <2>1 DEF CheckPublished, LoadActive, LoadUsers, CasFails, Register,
                  Recheck, Leave, Return
    <3>2. rpc'[r] \in {"copy", "release"} => copied[r] = {}
      BY <2>1 DEF CheckPublished, LoadActive, LoadUsers, CasFails, Register,
                  Recheck, Leave, Return, Goto, ReaderControl
    <3>3. \A q \in Readers \ {r} : rpc'[q] = rpc[q] /\ slot'[q] = slot[q]
      BY <2>1 DEF CheckPublished, LoadActive, LoadUsers, CasFails, Register,
                  Recheck, Leave, Return, Goto
    <3>4. ASSUME NEW q \in Readers, rpc'[q] \in {"copy", "release"}
          PROVE  \A f \in copied'[q] : out'[q][f] = data'[slot'[q]][f]
      <4>1. CASE q = r
        BY <3>1, <3>2, <3>4, <4>1
      <4>2. CASE q # r
        BY <3>1, <3>3, <3>4, <4>2
      <4> QED
        BY <4>1, <4>2
    <3>5. NoTornRead'
      BY <3>1
    <3> QED
      BY <3>4, <3>5
  <2>3. ASSUME NEW f \in Fields, CopyField(r, f)
        PROVE  CopyIsStable' /\ NoTornRead'
    <3>1. UNCHANGED <<data, slot, ok>> /\ ~ok[r]
      BY <2>3 DEF CopyField, Goto, ReaderControl
    <3>2. /\ rpc[r] = "copy"
          /\ copied' = [copied EXCEPT ![r] = @ \cup {f}]
          /\ out' = [out EXCEPT ![r][f] = data[slot[r]][f]]
      BY <2>3 DEF CopyField, Goto
    <3>3. \A q \in Readers \ {r} : rpc'[q] = rpc[q]
      BY <2>3 DEF CopyField, Goto
    <3>4. \A q \in Readers \ {r} : out'[q] = out[q] /\ copied'[q] = copied[q]
      BY <3>2
    <3>5. \A g \in copied'[r] : out'[r][g] = data[slot[r]][g]
      BY <3>2
    <3>6. NoTornRead'
      BY <3>1, <3>4
    <3> QED
      BY <3>1, <3>3, <3>4, <3>5, <3>6
  <2>4. CASE Release(r)
    <3>1. \A f \in Fields : out[r][f] = data[slot[r]][f]
      BY <2>4 DEF Release, Goto, ReaderControl
    <3>2. ~WriterFilling(slot[r])
      BY <2>4, HeldNotFilled DEF Release, Goto, WriterOwns, WriterFilling
    <3>3. IsWhole(out[r])
      BY <3>1, <3>2 DEF SlotsWhole
    <3> QED
      BY <2>4, <3>3 DEF Release, Goto
  <2> QED
    BY <1>4, <2>1, <2>3, <2>4 DEF ReaderStep
<1>5. CASE UNCHANGED vars
  BY <1>5 DEF vars, readerVars
<1> QED
  BY <1>1, <1>2, <1>3, <1>4, <1>5 DEF Next, WriterStep

THEOREM Inductive == Spec => []IInv
<1>1. IInv /\ [Next]_vars => IInv'
  BY StepShapes, StepUsers, StepReaderControl, StepSlotsWhole,
     StepFrameNumbering, StepCopies DEF IInv
<1> QED
  BY InitIInv, <1>1, PTL DEF Spec

\* Every variable of PublishFrameSnapshot and GetPublishedSnapshot keeps its type:
\* no sequence of registrations takes users below the writer's mark.
THEOREM TypeCorrect == Spec => []TypeOK
<1>1. IInv => TypeOK
  <2>1. ASSUME IInv, NEW s \in Slots PROVE users[s] \in Nat \cup {-1}
    BY <2>1, HoldersFinite DEF IInv, UsersCountReaders
  <2>2. ASSUME IInv PROVE users \in [Slots -> Nat \cup {-1}]
    BY <2>1, <2>2 DEF IInv, Shapes
  <2> QED
    BY <2>2 DEF IInv, Shapes, TypeOK
<1> QED
  BY <1>1, Inductive, PTL

\* PublishedSlot::users counts exactly the readers inside the slot.
THEOREM UsersExact == Spec => []UsersCountReaders
  BY Inductive, PTL DEF IInv

\* GetPublishedSnapshot never returns a snapshot made of two frames.
THEOREM ReadsWhole == Spec => []NoTornRead
  BY Inductive, PTL DEF IInv

\* What a reader has copied stays what its slot holds until it leaves the slot.
THEOREM CopiesStable == Spec => []CopyIsStable
  BY Inductive, PTL DEF IInv

\* A frame is never composed in the slot readers are sent to.
THEOREM ActiveFrozen == Spec => ActiveSlotFrozen
<1>1. IInv /\ [Next]_vars =>
        [active' = active => data'[active] = data[active]]_vars
  <2> SUFFICES ASSUME IInv, Next PROVE data'[active] = data[active]
    OBVIOUS
  <2> USE DEF IInv, FrameNumbering, Shapes, NextSlot, Slots, sharedVars
  <2>1. CASE FrameHook \/ Claim \/ Skip \/ Open \/ Swing \/ Announce
    BY <2>1 DEF FrameHook, Claim, Skip, Open, Swing, Announce
  <2>2. ASSUME NEW f \in Fields, Fill(f) PROVE data'[active] = data[active]
    BY <2>2 DEF Fill
  <2>3. ASSUME NEW r \in Readers, Call(r) \/ ReaderStep(r)
        PROVE  data'[active] = data[active]
    BY <2>3, ReaderFrame
  <2> QED
    BY <2>1, <2>2, <2>3 DEF Next, WriterStep
<1> QED
  BY <1>1, Inductive, PTL DEF Spec, ActiveSlotFrozen

-----------------------------------------------------------------------------
(* The exchange implements AtomicSnapshot.                                    *)

LEMMA InitAtomic == Init => Atomic!Init
  BY DEF Init, Atomic!Init, Atomic!FrameOf, absLatest, absPhase, absOk, absResult,
         EmptySnapshot

\* A whole snapshot is the frame its sequence field names.
LEMMA WholeIsFrame ==
    ASSUME NEW d \in Snapshots, IsWhole(d)
    PROVE  d = Atomic!FrameOf(d[SequenceField])
  BY ExchangeAssumption DEF Snapshots, IsWhole, Atomic!FrameOf

LEMMA WriterAtomic ==
    ASSUME IInv, FrameHook \/ WriterStep
    PROVE  [Atomic!Next]_(Atomic!vars)
<1> USE DEF IInv, Shapes, NextSlot, Slots, sharedVars
<1>1. absPhase' = absPhase /\ absOk' = absOk
  BY DEF FrameHook, WriterStep, Claim, Skip, Fill, Open, Swing, Announce,
         readerVars, absPhase, absOk
<1>2. absResult' = absResult
  <2>1. ASSUME NEW r \in Readers, rpc[r] \in {"copy", "release"}
        PROVE  data'[slot[r]] = data[slot[r]]
    <3>1. ~WriterOwns(slot[r])
      BY <2>1, HeldNotFilled
    <3>2. ASSUME NEW f \in Fields, Fill(f) PROVE data'[slot[r]] = data[slot[r]]
      BY <3>1, <3>2 DEF Fill, WriterOwns
    <3> QED
      BY <3>2 DEF FrameHook, WriterStep, Claim, Skip, Open, Swing, Announce
  <2>2. UNCHANGED <<rpc, slot, out>>
    BY DEF FrameHook, WriterStep, Claim, Skip, Fill, Open, Swing, Announce,
           readerVars
  <2> QED
    BY <2>1, <2>2 DEF absResult
<1>3. CASE FrameHook \/ Claim \/ Skip \/ Open
  <2>1. absLatest' = absLatest /\ published' = published
    BY <1>3 DEF FrameHook, Claim, Skip, Open, absLatest
  <2> QED
    BY <1>1, <1>2, <2>1 DEF Atomic!vars
<1>4. ASSUME NEW f \in Fields, Fill(f) PROVE [Atomic!Next]_(Atomic!vars)
  <2>1. absLatest' = absLatest /\ published' = published
    BY <1>4 DEF Fill, absLatest, FrameNumbering
  <2> QED
    BY <1>1, <1>2, <2>1 DEF Atomic!vars
<1>5. CASE Swing
  <2>1. CASE published
    <3>1. absLatest' = (absLatest + 1) % SeqModulus
      BY <1>5, <2>1, ExchangeAssumption DEF Swing, absLatest, FrameNumbering
    <3>2. published' = TRUE
      BY <1>5, <2>1 DEF Swing
    <3> QED
      BY <1>1, <1>2, <3>1, <3>2 DEF Atomic!Next, Atomic!Publish
  <2>2. CASE ~published
    <3>1. absLatest' = absLatest /\ published' = published
      BY <1>5, <2>2 DEF Swing, absLatest
    <3> QED
      BY <1>1, <1>2, <3>1 DEF Atomic!vars
  <2> QED
    BY <2>1, <2>2
<1>6. CASE Announce
  <2>1. CASE published
    <3>1. absLatest' = absLatest /\ published' = published
      BY <1>6, <2>1 DEF Announce, absLatest
    <3> QED
      BY <1>1, <1>2, <3>1 DEF Atomic!vars
  <2>2. CASE ~published
    <3>1. absLatest' = (absLatest + 1) % SeqModulus
      BY <1>6, <2>2, ExchangeAssumption DEF Announce, absLatest, FrameNumbering
    <3>2. published' = TRUE
      BY <1>6 DEF Announce
    <3> QED
      BY <1>1, <1>2, <3>1, <3>2 DEF Atomic!Next, Atomic!Publish
  <2> QED
    BY <2>1, <2>2
<1> QED
  BY <1>3, <1>4, <1>5, <1>6 DEF WriterStep

LEMMA ReaderAtomic ==
    ASSUME IInv, NEW r \in Readers, Call(r) \/ ReaderStep(r)
    PROVE  [Atomic!Next]_(Atomic!vars)
<1> USE DEF IInv, Shapes, Goto, sharedVars
<1>1. absLatest' = absLatest /\ UNCHANGED <<data, published>>
  BY ReaderFrame DEF absLatest
<1>2. CASE Call(r)
  <2>1. Atomic!Call(r)
    BY <1>1, <1>2 DEF Call, Atomic!Call, absPhase, absOk, absResult, EmptySnapshot,
                      Atomic!FrameOf
  <2> QED
    BY <2>1 DEF Atomic!Next
<1>3. CASE CheckPublished(r)
  <2>1. CASE published
    <3>1. absPhase' = absPhase /\ absOk' = absOk /\ absResult' = absResult
      BY <1>3, <2>1 DEF CheckPublished, absPhase, absOk, absResult
    <3> QED
      BY <1>1, <3>1 DEF Atomic!vars
  <2>2. CASE ~published
    <3>1. Atomic!Observe(r)
      BY <1>1, <1>3, <2>2
      DEF CheckPublished, Atomic!Observe, absPhase, absOk, absResult, ReaderControl
    <3> QED
      BY <3>1 DEF Atomic!Next
  <2> QED
    BY <2>1, <2>2
<1>4. CASE LoadActive(r) \/ LoadUsers(r) \/ Register(r) \/ CasFails(r) \/ Leave(r)
  <2>1. absPhase' = absPhase
    BY <1>4 DEF LoadActive, LoadUsers, Register, CasFails, Leave, absPhase
  <2>2. absOk' = absOk
    BY <1>4 DEF LoadActive, LoadUsers, Register, CasFails, Leave, absOk
  <2>3. absResult' = absResult
    BY <1>4 DEF LoadActive, LoadUsers, Register, CasFails, Leave, absResult
  <2> QED
    BY <1>1, <2>1, <2>2, <2>3 DEF Atomic!vars
<1>5. CASE Recheck(r)
  <2>1. CASE slot[r] = active
    <3>1. published
      BY <1>5 DEF Recheck, ReaderControl
    <3>2. IsWhole(data[active])
      <4>1. ~WriterFilling(slot[r])
        BY <1>5, HeldNotFilled DEF Recheck, WriterOwns, WriterFilling
      <4> QED
        BY <2>1, <4>1 DEF SlotsWhole
    <3>3. data[active] = Atomic!FrameOf(absLatest)
      BY <3>1, <3>2, WholeIsFrame DEF absLatest
    <3>4. absPhase[r] = "called" /\ absPhase' = [absPhase EXCEPT ![r] = "answered"]
      BY <1>5, <2>1 DEF Recheck, absPhase
    <3>5. absOk' = [absOk EXCEPT ![r] = TRUE]
      BY <1>5, <2>1 DEF Recheck, absOk
    <3>6. absResult' = [absResult EXCEPT ![r] = data[active]]
      BY <1>5, <2>1 DEF Recheck, absResult
    <3>7. Atomic!Observe(r)
      BY <1>1, <3>1, <3>3, <3>4, <3>5, <3>6 DEF Atomic!Observe
    <3> QED
      BY <3>7 DEF Atomic!Next
  <2>2. CASE slot[r] # active
    <3>1. absPhase' = absPhase /\ absOk' = absOk /\ absResult' = absResult
      BY <1>5, <2>2 DEF Recheck, absPhase, absOk, absResult
    <3> QED
      BY <1>1, <3>1 DEF Atomic!vars
  <2> QED
    BY <2>1, <2>2
<1>6. ASSUME NEW f \in Fields, CopyField(r, f) PROVE [Atomic!Next]_(Atomic!vars)
  <2>1. absPhase' = absPhase /\ absOk' = absOk
    BY <1>6 DEF CopyField, absPhase, absOk
  <2>2. absResult' = absResult
    <3>1. \A q \in Readers \ {r} : out'[q] = out[q] /\ rpc'[q] = rpc[q]
      BY <1>6 DEF CopyField
    <3>2. rpc[r] \in {"copy", "release"} /\ rpc'[r] \in {"copy", "release"}
      BY <1>6 DEF CopyField
    <3>3. slot' = slot
      BY <1>6 DEF CopyField
    <3> QED
      BY <1>1, <3>1, <3>2, <3>3 DEF absResult
  <2> QED
    BY <1>1, <2>1, <2>2 DEF Atomic!vars
<1>7. CASE Release(r)
  <2>1. out[r] = data[slot[r]]
    <3>1. \A f \in Fields : out[r][f] = data[slot[r]][f]
      BY <1>7 DEF Release, ReaderControl, CopyIsStable
    <3> QED
      BY <3>1 DEF Snapshots
  <2>2. absPhase' = absPhase /\ absOk' = absOk
    BY <1>7 DEF Release, absPhase, absOk
  <2>3. absResult' = absResult
    BY <1>1, <1>7, <2>1 DEF Release, absResult
  <2> QED
    BY <1>1, <2>2, <2>3 DEF Atomic!vars
<1>8. CASE Return(r)
  <2>1. Atomic!Return(r)
    BY <1>1, <1>8 DEF Return, Atomic!Return, absPhase, absOk, absResult
  <2> QED
    BY <2>1 DEF Atomic!Next
<1> QED
  BY <1>2, <1>3, <1>4, <1>5, <1>6, <1>7, <1>8 DEF ReaderStep

\* GetPublishedSnapshot is linearizable with respect to PublishFrameSnapshot.
THEOREM Linearizable == Spec => ReadsAreAtomic
<1>1. IInv /\ [Next]_vars => [Atomic!Next]_(Atomic!vars)
  <2> SUFFICES ASSUME IInv, [Next]_vars PROVE [Atomic!Next]_(Atomic!vars)
    OBVIOUS
  <2>1. CASE UNCHANGED vars
    BY <2>1 DEF vars, sharedVars, writerVars, readerVars, Atomic!vars, absLatest,
                absPhase, absOk, absResult
  <2> QED
    BY <2>1, WriterAtomic, ReaderAtomic DEF Next
<1> QED
  BY <1>1, InitAtomic, Inductive, PTL DEF Spec, ReadsAreAtomic, Atomic!Spec
-----------------------------------------------------------------------------
(* How long a call can take.  Fairness is not needed to say what bounds it: a *)
(* count of the steps that are left, which the steps of the call lower.       *)

\* Steps the frame thread has left before the hook returns.
WriterLeft ==
    CASE wpc = "idle" -> 0
      [] wpc = "announce" -> 1
      [] wpc = "swing" -> 2
      [] wpc = "open" -> 3
      [] wpc = "fill" -> 3 + Cardinality(Fields \ filled)
      [] wpc = "claim" -> 4 + Cardinality(Fields)

\* "the guest frame writer never waits for them": every step of the hook brings its
\* return nearer and nothing a reader does puts it off, so that the hook takes at most
\* four steps more than a Snapshot has fields, whatever the readers are doing.
HookIsBounded ==
    [][/\ wpc = "idle" <=> WriterLeft = 0
       /\ WriterStep => WriterLeft' < WriterLeft
       /\ (\E r \in Readers : Call(r) \/ ReaderStep(r)) => WriterLeft' = WriterLeft]_vars

\* "Skipping one publication is harmless" because it is rare: a frame is skipped only
\* while a reader is really registered in the slot it would go to.
SkipsMeetReaders ==
    [][wpc = "claim" /\ wpc' = "idle" => Holders(NextSlot) # {}]_vars

\* Steps reader r has left before its call returns, if no frame is published and no
\* other reader moves the count it is about to exchange.
Left(r) ==
    LET fields == Cardinality(Fields)
        current == slot[r] = active
        unmoved == users[slot[r]] = expected[r]
    IN  CASE rpc[r] = "idle" -> 0
          [] rpc[r] = "exit" -> 1
          [] rpc[r] = "release" -> 2
          [] rpc[r] = "copy" -> 2 + Cardinality(Fields \ copied[r])
          [] rpc[r] = "recheck" -> IF current THEN 3 + fields ELSE 8 + fields
          [] rpc[r] = "cas" -> IF ~unmoved THEN 7 + fields
                               ELSE IF current THEN 4 + fields ELSE 9 + fields
          [] rpc[r] = "users" -> IF current THEN 5 + fields ELSE 10 + fields
          [] rpc[r] = "load" -> 6 + fields
          [] rpc[r] \in {"check", "leave"} -> 7 + fields

\* Times reader r may yet change a count of readers before its call returns, if no
\* frame is published.
Turns(r) ==
    CASE rpc[r] \in {"idle", "exit"} -> 0
      [] rpc[r] \in {"release", "copy"} -> 1
      [] rpc[r] = "recheck" -> IF slot[r] = active THEN 1 ELSE 3
      [] rpc[r] \in {"users", "cas"} -> IF slot[r] = active THEN 2 ELSE 4
      [] rpc[r] \in {"check", "load"} -> 2
      [] rpc[r] = "leave" -> 3

\* compare_exchange_weak fails although the count has not moved.
FailsSpuriously(r) ==
    /\ rpc[r] = "cas" /\ rpc'[r] = "load"
    /\ users[slot[r]] = expected[r]

\* What GetPublishedSnapshot's unbounded retry loop rests on: while no frame is being
\* published, a step of a reader brings its own return nearer and can only put off
\* another's by moving a count of readers, which it may do a bounded number of times
\* per call.
RetriesAreBounded ==
    [][wpc = "idle" => \A r \in Readers :
          ReaderStep(r) /\ ~FailsSpuriously(r) =>
             /\ Left(r)' < Left(r)
             /\ Turns(r)' <= Turns(r)
             /\ users' # users => Turns(r)' < Turns(r)
             /\ \A q \in Readers \ {r} :
                   /\ Turns(q)' = Turns(q)
                   /\ users' = users => Left(q)' = Left(q)]_vars

LEMMA OneFieldLess ==
    ASSUME IsFiniteSet(Fields), NEW done \in SUBSET Fields, NEW f \in Fields \ done
    PROVE  /\ Cardinality(Fields \ done) \in Nat
           /\ Cardinality(Fields \ done) > 0
           /\ Cardinality(Fields \ (done \cup {f})) = Cardinality(Fields \ done) - 1
<1> DEFINE rest == Fields \ done
<1>1. IsFiniteSet(rest) /\ f \in rest
  BY FS_Difference
<1>2. Fields \ (done \cup {f}) = rest \ {f}
  OBVIOUS
<1>3. Cardinality(rest \ {f}) = Cardinality(rest) - 1 /\ Cardinality(rest) \in Nat
  BY <1>1, FS_RemoveElement, FS_CardinalityType
<1>4. Cardinality(rest \ {f}) \in Nat
  BY <1>1, FS_RemoveElement, FS_CardinalityType
<1>5. \A m, n \in Nat : m = n - 1 => n > 0
  OBVIOUS
<1> QED
  BY <1>2, <1>3, <1>4, <1>5, Zenon

LEMMA FieldCount ==
    ASSUME IsFiniteSet(Fields)
    PROVE  /\ Cardinality(Fields) \in Nat
           /\ Fields \ {} = Fields
           /\ \A done \in SUBSET Fields : Cardinality(Fields \ done) \in Nat
  BY FS_CardinalityType, FS_Difference

LEMMA HookStepLeft ==
    ASSUME IInv, WriterStep, IsFiniteSet(Fields)
    PROVE  WriterLeft' < WriterLeft
<1> USE FieldCount DEF WriterLeft
<1>1. CASE Claim
  <2>1. wpc = "claim" /\ wpc' = "fill" /\ filled' = {}
    BY <1>1 DEF Claim
  <2> QED
    BY <2>1
<1>2. CASE Skip
  BY <1>2 DEF Skip
<1>3. ASSUME NEW f \in Fields, Fill(f) PROVE WriterLeft' < WriterLeft
  <2>1. /\ wpc = "fill" /\ filled' = filled \cup {f}
        /\ wpc' \in {"open", "fill"}
        /\ filled \in SUBSET Fields /\ f \in Fields \ filled
    BY <1>3 DEF Fill, IInv, Shapes
  <2> DEFINE n == Cardinality(Fields \ filled)
             m == Cardinality(Fields \ filled')
  <2>2. n \in Nat /\ n > 0 /\ m = n - 1
    BY <2>1, OneFieldLess
  <2>3. WriterLeft = 3 + n
    BY <2>1
  <2>4. WriterLeft' = 3 \/ WriterLeft' = 3 + m
    BY <2>1
  <2> HIDE DEF n, m, WriterLeft
  <2> QED
    BY <2>2, <2>3, <2>4
<1>4. CASE Open
  BY <1>4 DEF Open
<1>5. CASE Swing
  BY <1>5 DEF Swing
<1>6. CASE Announce
  BY <1>6 DEF Announce
<1> QED
  BY <1>1, <1>2, <1>3, <1>4, <1>5, <1>6 DEF WriterStep

\* The frame hook returns after a bounded number of its own steps.
THEOREM HookReturns ==
    ASSUME IsFiniteSet(Fields)
    PROVE  Spec => HookIsBounded
<1>1. IInv /\ [Next]_vars =>
        [/\ wpc = "idle" <=> WriterLeft = 0
         /\ WriterStep => WriterLeft' < WriterLeft
         /\ (\E r \in Readers : Call(r) \/ ReaderStep(r)) => WriterLeft' = WriterLeft]_vars
  <2> SUFFICES ASSUME IInv
               PROVE  /\ wpc = "idle" <=> WriterLeft = 0
                      /\ WriterStep => WriterLeft' < WriterLeft
                      /\ (\E r \in Readers : Call(r) \/ ReaderStep(r)) =>
                            WriterLeft' = WriterLeft
    OBVIOUS
  <2>1. wpc = "idle" <=> WriterLeft = 0
    <3>1. wpc \in WriterPcs /\ Cardinality(Fields \ filled) \in Nat
      BY FieldCount DEF IInv, Shapes
    <3>2. Cardinality(Fields) \in Nat
      BY FieldCount
    <3> QED
      BY <3>1, <3>2 DEF WriterLeft, WriterPcs
  <2>2. ASSUME NEW r \in Readers, Call(r) \/ ReaderStep(r)
        PROVE  WriterLeft' = WriterLeft
    BY <2>2, ReaderFrame DEF WriterLeft, writerVars
  <2> QED
    BY <2>1, <2>2, HookStepLeft
<1> QED
  BY <1>1, Inductive, PTL DEF Spec, HookIsBounded

\* A skipped frame met a registered reader.
THEOREM SkipsHaveAReader == Spec => SkipsMeetReaders
<1>1. IInv /\ [Next]_vars =>
        [wpc = "claim" /\ wpc' = "idle" => Holders(NextSlot) # {}]_vars
  <2> SUFFICES ASSUME IInv, Next, wpc = "claim", wpc' = "idle"
               PROVE  Holders(NextSlot) # {}
    OBVIOUS
  <2>1. Skip
    <3>1. \A r \in Readers : ~(Call(r) \/ ReaderStep(r))
      BY ReaderFrame DEF writerVars
    <3> QED
      BY <3>1 DEF Next, WriterStep, FrameHook, Claim, Fill, Open, Swing, Announce
  <2>2. NextSlot \in Slots /\ users[NextSlot] # 0 /\ ~WriterOwns(NextSlot)
    BY <2>1 DEF Skip, IInv, Shapes, Slots, NextSlot, WriterOwns
  <2>3. Cardinality(Holders(NextSlot)) # 0
    BY <2>2 DEF IInv, UsersCountReaders
  <2> QED
    BY <2>3, FS_EmptySet
<1> QED
  BY <1>1, Inductive, PTL DEF Spec, SkipsMeetReaders

\* A reader's step leaves the locals of the others alone, and the frame too.
LEMMA OthersStay ==
    ASSUME IInv, NEW r \in Readers, ReaderStep(r), NEW q \in Readers \ {r}
    PROVE  /\ rpc'[q] = rpc[q] /\ slot'[q] = slot[q]
           /\ expected'[q] = expected[q] /\ copied'[q] = copied[q]
           /\ active' = active
<1> USE DEF IInv, Shapes, Goto, sharedVars
<1>1. CASE \E f \in Fields : CopyField(r, f)
  BY <1>1 DEF CopyField
<1>2. CASE CheckPublished(r) \/ LoadActive(r) \/ LoadUsers(r)
  BY <1>2 DEF CheckPublished, LoadActive, LoadUsers
<1>3. CASE Register(r) \/ CasFails(r) \/ Recheck(r) \/ Leave(r)
  BY <1>3 DEF Register, CasFails, Recheck, Leave
<1>4. CASE Release(r) \/ Return(r)
  BY <1>4 DEF Release, Return
<1> QED
  BY <1>1, <1>2, <1>3, <1>4 DEF ReaderStep

Advances(r) ==
    /\ Left(r)' < Left(r)
    /\ Turns(r)' <= Turns(r)
    /\ users' # users => Turns(r)' < Turns(r)

\* On the way to a slot.
LEMMA SearchAdvances ==
    ASSUME IInv, IsFiniteSet(Fields), NEW r \in Readers, wpc = "idle",
           \/ CheckPublished(r) \/ LoadActive(r) \/ LoadUsers(r) \/ Register(r)
           \/ CasFails(r) /\ ~FailsSpuriously(r)
           \/ Leave(r)
    PROVE  Advances(r)
<1> DEFINE n == Cardinality(Fields)
<1>1. n \in Nat
  BY FieldCount
<1>2. /\ rpc \in [Readers -> ReaderPcs] /\ slot \in [Readers -> Slots]
      /\ expected \in [Readers -> Int] /\ users \in [Slots -> Int]
      /\ slot[r] \in Slots
  BY DEF IInv, Shapes
<1> HIDE DEF n
<1>3. CASE CheckPublished(r)
  <2>1. /\ rpc[r] = "check" /\ rpc'[r] \in {"load", "exit"}
        /\ UNCHANGED <<users, active, slot, expected, copied>>
    BY <1>2, <1>3 DEF CheckPublished, Goto, sharedVars
  <2>2. Left(r) = 7 + n /\ Turns(r) = 2
    BY <2>1 DEF Left, Turns, n
  <2>3. Left(r)' \in {1, 6 + n} /\ Turns(r)' \in {0, 2}
    BY <2>1 DEF Left, Turns, n
  <2> QED
    BY <1>1, <2>1, <2>2, <2>3 DEF Advances
<1>4. CASE LoadActive(r)
  <2>1. /\ rpc[r] = "load" /\ rpc'[r] = "users" /\ slot'[r] = active
        /\ UNCHANGED <<users, active>>
    BY <1>2, <1>4 DEF LoadActive, Goto, sharedVars
  <2>2. Left(r) = 6 + n /\ Turns(r) = 2
    BY <2>1 DEF Left, Turns, n
  <2>3. Left(r)' = 5 + n /\ Turns(r)' = 2
    BY <2>1 DEF Left, Turns, n
  <2> QED
    BY <1>1, <2>1, <2>2, <2>3 DEF Advances
<1>5. CASE LoadUsers(r)
  <2>1. users[slot[r]] >= 0
    <3>1. users[slot[r]] = Cardinality(Holders(slot[r]))
      BY <1>2 DEF IInv, UsersCountReaders, WriterOwns
    <3> QED
      BY <1>2, <3>1, HoldersFinite
  <2>2. /\ rpc[r] = "users" /\ rpc'[r] = "cas"
        /\ expected'[r] = users[slot[r]]
        /\ UNCHANGED <<users, active, slot>>
    BY <1>2, <1>5, <2>1 DEF LoadUsers, Goto, sharedVars
  <2>3. /\ Left(r) = IF slot[r] = active THEN 5 + n ELSE 10 + n
        /\ Turns(r) = IF slot[r] = active THEN 2 ELSE 4
    BY <2>2 DEF Left, Turns, n
  <2>4. /\ Left(r)' = IF slot[r] = active THEN 4 + n ELSE 9 + n
        /\ Turns(r)' = IF slot[r] = active THEN 2 ELSE 4
    BY <2>2 DEF Left, Turns, n
  <2> QED
    BY <1>1, <2>2, <2>3, <2>4 DEF Advances
<1>6. CASE Register(r)
  <2>1. /\ rpc[r] = "cas" /\ rpc'[r] = "recheck"
        /\ users[slot[r]] = expected[r]
        /\ UNCHANGED <<active, slot, copied>>
    BY <1>2, <1>6 DEF Register, Goto
  <2>2. /\ Left(r) = IF slot[r] = active THEN 4 + n ELSE 9 + n
        /\ Turns(r) = IF slot[r] = active THEN 2 ELSE 4
    BY <2>1 DEF Left, Turns, n
  <2>3. /\ Left(r)' = IF slot[r] = active THEN 3 + n ELSE 8 + n
        /\ Turns(r)' = IF slot[r] = active THEN 1 ELSE 3
    BY <2>1 DEF Left, Turns, n
  <2> QED
    BY <1>1, <2>2, <2>3 DEF Advances
<1>7. CASE CasFails(r) /\ ~FailsSpuriously(r)
  <2>1. /\ rpc[r] = "cas" /\ rpc'[r] = "load"
        /\ UNCHANGED <<users, active>>
    BY <1>2, <1>7 DEF CasFails, Goto, sharedVars
  <2>2. users[slot[r]] # expected[r]
    BY <1>7, <2>1 DEF FailsSpuriously
  <2>3. Left(r) = 7 + n /\ Turns(r) \in {2, 4}
    BY <2>1, <2>2 DEF Left, Turns, n
  <2>4. Left(r)' = 6 + n /\ Turns(r)' = 2
    BY <2>1 DEF Left, Turns, n
  <2> QED
    BY <1>1, <2>1, <2>3, <2>4 DEF Advances
<1>8. CASE Leave(r)
  <2>1. rpc[r] = "leave" /\ rpc'[r] = "load"
    BY <1>2, <1>8 DEF Leave, Goto
  <2>2. Left(r) = 7 + n /\ Turns(r) = 3
    BY <2>1 DEF Left, Turns, n
  <2>3. Left(r)' = 6 + n /\ Turns(r)' = 2
    BY <2>1 DEF Left, Turns, n
  <2> QED
    BY <1>1, <2>2, <2>3 DEF Advances
<1> QED
  BY <1>3, <1>4, <1>5, <1>6, <1>7, <1>8

\* In the slot, and out of it.
LEMMA ReadAdvances ==
    ASSUME IInv, IsFiniteSet(Fields), NEW r \in Readers,
           \/ Recheck(r) \/ (\E f \in Fields : CopyField(r, f))
           \/ Release(r) \/ Return(r)
    PROVE  Advances(r)
<1> DEFINE n == Cardinality(Fields)
<1>1. n \in Nat
  BY FieldCount
<1>2. /\ rpc \in [Readers -> ReaderPcs] /\ slot \in [Readers -> Slots]
      /\ copied \in [Readers -> SUBSET Fields]
  BY DEF IInv, Shapes
<1> HIDE DEF n
<1>3. CASE Recheck(r)
  <2>1. /\ rpc[r] = "recheck"
        /\ rpc'[r] = IF slot[r] = active THEN "copy" ELSE "leave"
        /\ UNCHANGED <<users, active, slot, copied>>
    BY <1>2, <1>3 DEF Recheck, Goto, sharedVars
  <2>2. copied[r] = {}
    BY <2>1 DEF IInv, ReaderControl
  <2>3. Cardinality(Fields \ copied[r]) = n
    BY <2>2, FieldCount DEF n
  <2>4. /\ Left(r) = IF slot[r] = active THEN 3 + n ELSE 8 + n
        /\ Turns(r) = IF slot[r] = active THEN 1 ELSE 3
    BY <2>1 DEF Left, Turns, n
  <2>5. /\ Left(r)' = IF slot[r] = active THEN 2 + n ELSE 7 + n
        /\ Turns(r)' = IF slot[r] = active THEN 1 ELSE 3
    BY <2>1, <2>3 DEF Left, Turns, n
  <2> QED
    BY <1>1, <2>1, <2>4, <2>5 DEF Advances
<1>4. ASSUME NEW f \in Fields, CopyField(r, f) PROVE Advances(r)
  <2>1. /\ rpc[r] = "copy" /\ rpc'[r] \in {"copy", "release"}
        /\ copied'[r] = copied[r] \cup {f} /\ f \in Fields \ copied[r]
        /\ copied[r] \in SUBSET Fields
        /\ UNCHANGED users
    BY <1>2, <1>4 DEF CopyField, Goto, sharedVars
  <2> DEFINE i == Cardinality(Fields \ copied[r])
             j == Cardinality(Fields \ copied'[r])
  <2>2. i \in Nat /\ i > 0 /\ j = i - 1
    BY <2>1, OneFieldLess
  <2>3. Left(r) = 2 + i /\ Turns(r) = 1
    BY <2>1 DEF Left, Turns
  <2>4. Left(r)' \in {2, 2 + j} /\ Turns(r)' = 1
    BY <2>1 DEF Left, Turns
  <2> HIDE DEF i, j
  <2> QED
    BY <2>1, <2>2, <2>3, <2>4 DEF Advances
<1>5. CASE Release(r)
  <2>1. rpc[r] = "release" /\ rpc'[r] = "exit"
    BY <1>2, <1>5 DEF Release, Goto
  <2>2. Left(r) = 2 /\ Turns(r) = 1 /\ Left(r)' = 1 /\ Turns(r)' = 0
    BY <2>1 DEF Left, Turns
  <2> QED
    BY <2>2 DEF Advances
<1>6. CASE Return(r)
  <2>1. rpc[r] = "exit" /\ rpc'[r] = "idle" /\ UNCHANGED users
    BY <1>2, <1>6 DEF Return, Goto, sharedVars
  <2>2. Left(r) = 1 /\ Turns(r) = 0 /\ Left(r)' = 0 /\ Turns(r)' = 0
    BY <2>1 DEF Left, Turns
  <2> QED
    BY <2>1, <2>2 DEF Advances
<1> QED
  BY <1>3, <1>4, <1>5, <1>6

\* While no frame is being published, each step of a call brings its return nearer.
THEOREM RetriesEnd ==
    ASSUME IsFiniteSet(Fields)
    PROVE  Spec => RetriesAreBounded
<1>1. IInv /\ [Next]_vars =>
        [wpc = "idle" => \A r \in Readers :
            ReaderStep(r) /\ ~FailsSpuriously(r) =>
               /\ Left(r)' < Left(r)
               /\ Turns(r)' <= Turns(r)
               /\ users' # users => Turns(r)' < Turns(r)
               /\ \A q \in Readers \ {r} :
                     /\ Turns(q)' = Turns(q)
                     /\ users' = users => Left(q)' = Left(q)]_vars
  <2> SUFFICES ASSUME IInv, wpc = "idle", NEW r \in Readers, ReaderStep(r),
                      ~FailsSpuriously(r)
               PROVE  /\ Left(r)' < Left(r)
                      /\ Turns(r)' <= Turns(r)
                      /\ users' # users => Turns(r)' < Turns(r)
                      /\ \A q \in Readers \ {r} :
                            /\ Turns(q)' = Turns(q)
                            /\ users' = users => Left(q)' = Left(q)
    OBVIOUS
  <2>1. Advances(r)
    BY SearchAdvances, ReadAdvances DEF ReaderStep
  <2>2. ASSUME NEW q \in Readers \ {r}
        PROVE  /\ Turns(q)' = Turns(q)
               /\ users' = users => Left(q)' = Left(q)
    BY OthersStay DEF Turns, Left
  <2> QED
    BY <2>1, <2>2 DEF Advances
<1> QED
  BY <1>1, Inductive, PTL DEF Spec, RetriesAreBounded
=============================================================================
