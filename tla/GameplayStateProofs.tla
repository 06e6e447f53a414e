------------------------- MODULE GameplayStateProofs -------------------------
(* Theorems about GameplayState, for every word size, layout of heaps and     *)
(* gaps, guest memory and table size.                                         *)
EXTENDS GameplayState, TLAPS

-----------------------------------------------------------------------------
(* The range test.                                                            *)

\* An accepted range does not wrap: its last byte is address + extent - 1.
LEMMA LastByte ==
    ASSUME NEW address \in Words, NEW extent \in Nat \ {0},
           address <= WordLimit - 1 - extent
    PROVE  Plus(address, extent) - 1 = address + extent - 1
  BY GameplayAssumption DEF Words, Plus

\* The test is sound and complete, at both ends of the address space too.
THEOREM ReadableRangeExact == ReadableRangeIsExact
<1> SUFFICES ASSUME NEW address \in Words, NEW extent \in {1, WordBytes}
             PROVE  IsGuestReadableRange(address, extent) <=>
                      \A byte \in Bytes(address, extent) :
                        /\ byte \in accessible
                        /\ byte \in GuestLow .. GuestHigh - 1
                        /\ HeapOf[byte] # NoHeap
                        /\ HeapOf[address + extent - 1] = HeapOf[address]
  BY DEF ReadableRangeIsExact
<1> DEFINE last == address + extent - 1
<1>1. /\ extent \in Nat \ {0} /\ (extent <= WordBytes \/ extent = 1)
      /\ address \in Nat /\ last \in Nat
  BY GameplayAssumption DEF Words
<1>2. address \in Bytes(address, extent) /\ last \in Bytes(address, extent)
  BY <1>1 DEF Bytes
<1>3. ASSUME IsGuestReadableRange(address, extent),
             NEW byte \in Bytes(address, extent)
      PROVE  /\ byte \in accessible
             /\ byte \in GuestLow .. GuestHigh - 1
             /\ HeapOf[byte] # NoHeap
             /\ HeapOf[last] = HeapOf[address]
  <2>1. Plus(address, extent) - 1 = last
    BY <1>1, <1>3, LastByte, GameplayAssumption DEF IsGuestReadableRange
  <2>2. /\ IsGuestPointer(address) /\ IsGuestPointer(last)
        /\ HeapOf[address] # NoHeap
        /\ HeapOf[last] = HeapOf[address]
        /\ HasAccess(address, last)
    BY <1>3, <2>1 DEF IsGuestReadableRange
  <2>3. byte \in Int /\ address <= byte /\ byte <= last
    BY <1>1 DEF Bytes
  <2>4. byte \in Words /\ last \in Words
    BY <1>1, <2>2, <2>3, GameplayAssumption DEF Words, IsGuestPointer
  <2>5. HeapOf[byte] = HeapOf[address]
    <3>1. /\ address \in Words /\ address <= byte /\ byte <= last
          /\ HeapOf[address] = HeapOf[last] /\ HeapOf[address] # NoHeap
      BY <2>2, <2>3
    <3> QED
      BY <2>4, <3>1, HeapAssumption
  <2>6. byte \in address .. last
    BY <1>1, <2>3
  <2>7. byte \in accessible
    BY <2>2, <2>6 DEF HasAccess
  <2>8. byte \in GuestLow .. GuestHigh - 1
    BY <1>1, <2>2, <2>3, GameplayAssumption DEF IsGuestPointer
  <2> QED
    BY <2>2, <2>5, <2>7, <2>8
<1>4. ASSUME \A byte \in Bytes(address, extent) :
                /\ byte \in accessible
                /\ byte \in GuestLow .. GuestHigh - 1
                /\ HeapOf[byte] # NoHeap
                /\ HeapOf[last] = HeapOf[address]
      PROVE  IsGuestReadableRange(address, extent)
  <2>1. IsGuestPointer(address) /\ IsGuestPointer(last)
    BY <1>2, <1>4, GameplayAssumption DEF IsGuestPointer
  <2>2. address <= WordLimit - 1 - extent
    BY <1>1, <2>1, GameplayAssumption DEF IsGuestPointer, Words
  <2>3. Plus(address, extent) - 1 = last
    BY <1>1, <2>2, LastByte, GameplayAssumption
  <2>4. HeapOf[address] # NoHeap /\ HeapOf[last] = HeapOf[address]
    BY <1>2, <1>4
  <2>5. HasAccess(address, last)
    BY <1>4 DEF HasAccess, Bytes
  <2> QED
    BY <1>1, <2>1, <2>2, <2>3, <2>4, <2>5 DEF IsGuestReadableRange
<1> QED
  BY <1>3, <1>4

-----------------------------------------------------------------------------
(* Types.                                                                     *)

LEMMA SignedIsInt32 ==
    ASSUME NEW word \in Words
    PROVE  AsSigned(word) \in Int32
BY GameplayAssumption DEF Words, AsSigned, Int32

LEMMA UnknownIsInt32 == Unknown \in Int32 /\ YearUnknown \in Int32
BY GameplayAssumption DEF Unknown, YearUnknown, Int32

LEMMA DefaultInSnapshots == DefaultSnapshot \in Snapshots
<1>1. WordLimit - 1 \in Words /\ YearUnknown \in Int32
  BY GameplayAssumption DEF Words, YearUnknown, Int32
<1> QED
  BY <1>1 DEF DefaultSnapshot, Snapshots

LEMMA OneMore ==
    ASSUME NEW n \in Nat
    PROVE  n + 1 \in Nat
OBVIOUS

LEMMA ZeroIsWord == 0 \in Words
BY GameplayAssumption DEF Words

LEMMA LoadedIsWord ==
    ASSUME NEW address, NEW found \in Words, NEW default \in Words
    PROVE  Loaded(address, found, default) \in Words
BY DEF Loaded

LEMMA NextTypeOK == TypeOK /\ [Next]_vars => TypeOK'
<1> SUFFICES ASSUME TypeOK, [Next]_vars PROVE TypeOK'
  OBVIOUS
<1> USE DEF TypeOK
<1>1. CASE UNCHANGED vars
  BY <1>1 DEF vars
<1>2. CASE FrameHook
  BY <1>2, DefaultInSnapshots DEF FrameHook
<1>3. CASE ReadFrontend
  <2>1. snap' \in Snapshots
    BY <1>3 DEF ReadFrontend, Snapshots
  <2> QED
    BY <1>3, <2>1 DEF ReadFrontend, Goto
<1>4. CASE ReadTurnOwner
  <2> DEFINE playerRead == ReadsWord(Global.activePlayer)
             maskRead == playerRead /\ ReadsWord(Global.humanMask)
             known(player, mask) == maskRead /\ player < PlayerBits /\ mask # {}
  <2>1. PICK player \in Numbers, mask \in Masks :
          snap' = [snap EXCEPT
              !.active_player = IF playerRead THEN player ELSE @,
              !.human_player_mask = IF maskRead THEN mask ELSE @,
              !.turn_owner_known = known(player, mask),
              !.human_turn = known(player, mask) /\ player \in mask]
    BY <1>4 DEF ReadTurnOwner
  <2>2. player \in Words /\ mask \in SUBSET Bits
    BY GameplayAssumption
  <2> DEFINE newPlayer == IF playerRead THEN player ELSE snap.active_player
             newMask == IF maskRead THEN mask ELSE snap.human_player_mask
             humans == known(player, mask) /\ player \in mask
  <2>3. /\ newPlayer \in Words /\ newMask \in SUBSET Bits
        /\ known(player, mask) \in BOOLEAN /\ humans \in BOOLEAN
    <3> HIDE DEF playerRead, maskRead
    <3> QED
      BY <2>2 DEF Snapshots
  <2>4. snap' = [snap EXCEPT
              !.active_player = newPlayer,
              !.human_player_mask = newMask,
              !.turn_owner_known = known(player, mask),
              !.human_turn = humans]
    BY <2>1
  <2>5. snap' \in Snapshots
    <3> HIDE DEF newPlayer, newMask, known, humans
    <3> QED
      BY <2>3, <2>4 DEF Snapshots
  <2> QED
    BY <1>4, <2>5 DEF ReadTurnOwner, Goto
<1>5. CASE ReadPlayer
  <2>1. snap' \in Snapshots
    <3> DEFINE index == snap.active_player * WordBytes
               civilizationAt == Plus(Global.civilizations, index)
               eraAt == Plus(Global.eras, index)
    <3>1. PICK civilization, era, turn, year \in Numbers :
            snap' = [snap EXCEPT
                !.civilization_known = ReadsWord(civilizationAt),
                !.civilization = Loaded(civilizationAt, civilization, @),
                !.era_known = ReadsWord(eraAt),
                !.era = Loaded(eraAt, era, @),
                !.turn_number_known = ReadsWord(Global.turn),
                !.turn = Loaded(Global.turn, turn, @),
                !.year_known = ReadsWord(Global.year),
                !.year = AsSigned(Loaded(Global.year, year, 0))]
      BY <1>5 DEF ReadPlayer
    <3>2. \A n \in Numbers : n \in Words
      BY GameplayAssumption
    <3>3. /\ Loaded(civilizationAt, civilization, snap.civilization) \in Words
          /\ Loaded(eraAt, era, snap.era) \in Words
          /\ Loaded(Global.turn, turn, snap.turn) \in Words
      BY <3>2, LoadedIsWord DEF Snapshots
    <3>4. AsSigned(Loaded(Global.year, year, 0)) \in Int32
      BY <3>2, ZeroIsWord, LoadedIsWord, SignedIsInt32
    <3>5. \A address : ReadsWord(address) \in BOOLEAN
      BY DEF ReadsWord, IsGuestReadableRange
    <3> HIDE DEF civilizationAt, eraAt
    <3> QED
      BY <3>1, <3>3, <3>4, <3>5 DEF Snapshots
  <2>2. snap.active_player \in Words
    BY DEF Snapshots
  <2> QED
    BY <1>5, <2>1, <2>2 DEF ReadPlayer, Goto
<1>6. CASE SkipPlayer
  BY <1>6 DEF SkipPlayer, Goto
<1>7. CASE ReadInterface
  <2>1. snap' \in Snapshots
    BY <1>7, ZenonT(60) DEF ReadInterface, Snapshots
  <2> QED
    BY <1>7, <2>1 DEF ReadInterface, Goto
<1>8. CASE SetAvailable
  <2>1. snap' \in Snapshots
    BY <1>8, ZenonT(60) DEF SetAvailable, Snapshots, IsAvailable
  <2> QED
    BY <1>8, <2>1 DEF SetAvailable, Goto
<1>9. CASE NumberFrame
  <2>1. sequence + 1 \in Nat
    BY OneMore, ZenonT(60)
  <2>2. snap' \in Snapshots
    BY <1>9, <2>1, ZenonT(60) DEF NumberFrame, Snapshots
  <2>3. pc' = "published" /\ sequence' = sequence + 1
        /\ UNCHANGED <<accessible, entry>>
    BY <1>9 DEF NumberFrame, Goto
  <2> QED
    BY <2>1, <2>2, <2>3
<1> QED
  BY <1>1, <1>2, <1>3, <1>4, <1>5, <1>6, <1>7, <1>8, <1>9 DEF Next

\* Every word keeps its width and every converted one is an int32_t.
THEOREM TypeCorrect == Spec => []TypeOK
<1>1. Init => TypeOK
  BY DefaultInSnapshots DEF Init, TypeOK
<1> QED
  BY <1>1, NextTypeOK, PTL DEF Spec

-----------------------------------------------------------------------------
(* The inductive invariant: what the flags vouch for at every point of the    *)
(* hook.  A later block relies on what an earlier one left in the snapshot,    *)
(* so the parts about one block also say when it has run.                      *)

FrontendSound == snap.gameplay_active => snap.frontend_known

OwnerSound ==
    /\ snap.turn_owner_known => snap.active_player \in Bits
    /\ snap.human_turn <=>
         snap.turn_owner_known /\ snap.active_player \in snap.human_player_mask

SomePlayerField ==
    \/ snap.civilization_known \/ snap.era_known
    \/ snap.turn_number_known \/ snap.year_known

PlayerSound ==
    SomePlayerField =>
        /\ pc \in {"interface", "available", "number", "published"}
        /\ HasPlayerFields
        /\ entry = snap.active_player

InterfaceSound == snap.interface_update => snap.interface_known

AvailableSound == pc \in {"number", "published"} => (snap.available <=> IsAvailable)

FrameNumbered == pc = "published" => snap.frame_sequence > 0

IInv ==
    /\ TypeOK
    /\ FrontendSound
    /\ OwnerSound
    /\ PlayerSound
    /\ InterfaceSound
    /\ AvailableSound
    /\ FrameNumbered

LEMMA DefaultSound ==
    ASSUME snap = DefaultSnapshot
    PROVE  /\ FrontendSound /\ OwnerSound /\ PlayerSound
           /\ InterfaceSound /\ AvailableSound
BY DEF DefaultSnapshot, FrontendSound, OwnerSound, PlayerSound, SomePlayerField,
       InterfaceSound, AvailableSound, IsAvailable

LEMMA InitIInv == Init => IInv
<1> SUFFICES ASSUME Init PROVE IInv
  OBVIOUS
<1>1. TypeOK
  BY DefaultInSnapshots DEF Init, TypeOK
<1> QED
  BY <1>1, DefaultSound DEF Init, IInv, FrameNumbered

LEMMA NextNumbered == IInv /\ [Next]_vars => FrameNumbered'
<1> SUFFICES ASSUME IInv, [Next]_vars PROVE FrameNumbered'
  OBVIOUS
<1>1. CASE NumberFrame
  <2>1. snap'.frame_sequence = sequence + 1 /\ sequence \in Nat
    BY <1>1 DEF NumberFrame, IInv, TypeOK, Snapshots
  <2> QED
    BY <2>1 DEF FrameNumbered
<1>2. CASE UNCHANGED vars
  BY <1>2 DEF vars, IInv, FrameNumbered
<1>3. CASE FrameHook
  BY <1>3 DEF FrameHook, FrameNumbered
<1>4. CASE ReadFrontend \/ ReadTurnOwner
  BY <1>4 DEF ReadFrontend, ReadTurnOwner, Goto, FrameNumbered
<1>5. CASE ReadPlayer \/ SkipPlayer \/ ReadInterface
  BY <1>5 DEF ReadPlayer, SkipPlayer, ReadInterface, Goto, FrameNumbered
<1>6. CASE SetAvailable
  BY <1>6 DEF SetAvailable, Goto, FrameNumbered
<1> QED
  BY <1>1, <1>2, <1>3, <1>4, <1>5, <1>6 DEF Next

LEMMA NextIInv == IInv /\ [Next]_vars => IInv'
<1> SUFFICES ASSUME IInv, [Next]_vars PROVE IInv'
  OBVIOUS
<1> USE DEF IInv
<1>1. TypeOK' /\ FrameNumbered'
  BY NextTypeOK, NextNumbered
<1>2. snap \in Snapshots
  BY DEF TypeOK
<1>3. CASE UNCHANGED vars
  BY <1>1, <1>3 DEF vars, FrontendSound, OwnerSound, PlayerSound, SomePlayerField,
     InterfaceSound, AvailableSound, HasPlayerFields, IsAvailable
<1>4. CASE FrameHook
  <2>1. snap' = DefaultSnapshot
    BY <1>4 DEF FrameHook
  <2> QED
    BY <1>1, <2>1 DEF DefaultSnapshot, FrontendSound, OwnerSound, PlayerSound,
       SomePlayerField, InterfaceSound, AvailableSound, IsAvailable
<1>5. CASE ReadFrontend
  <2>1. PICK known \in BOOLEAN, playing \in BOOLEAN :
          /\ playing => known
          /\ snap' = [snap EXCEPT !.frontend_known = known,
                                  !.gameplay_active = playing]
    BY <1>5 DEF ReadFrontend
  <2>2. ~SomePlayerField /\ pc' = "turn owner"
    BY <1>5 DEF PlayerSound, ReadFrontend, Goto
  <2>3. FrontendSound'
    BY <1>2, <2>1 DEF FrontendSound, Snapshots
  <2>4. OwnerSound'
    BY <1>2, <2>1 DEF OwnerSound, Snapshots
  <2>5. PlayerSound'
    BY <1>2, <2>1, <2>2 DEF PlayerSound, SomePlayerField, Snapshots
  <2>6. InterfaceSound' /\ AvailableSound'
    BY <1>2, <2>1, <2>2 DEF InterfaceSound, AvailableSound, Snapshots
  <2> QED
    BY <1>1, <2>3, <2>4, <2>5, <2>6
<1>6. CASE ReadTurnOwner
  <2>1. PICK player \in Words, mask \in SUBSET Bits, known \in BOOLEAN :
          /\ known => player \in Bits
          /\ snap' = [snap EXCEPT !.active_player = player,
                                  !.human_player_mask = mask,
                                  !.turn_owner_known = known,
                                  !.human_turn = known /\ player \in mask]
    <3> DEFINE playerRead == ReadsWord(Global.activePlayer)
               maskRead == playerRead /\ ReadsWord(Global.humanMask)
               Known(player, mask) ==
                 maskRead /\ player < PlayerBits /\ mask # {}
               Player(player) == IF playerRead THEN player ELSE snap.active_player
               Mask(mask) == IF maskRead THEN mask ELSE snap.human_player_mask
    <3>1. PICK player \in Numbers, mask \in Masks :
            snap' = [snap EXCEPT
                !.active_player = Player(player),
                !.human_player_mask = Mask(mask),
                !.turn_owner_known = Known(player, mask),
                !.human_turn = Known(player, mask) /\ player \in mask]
      BY <1>6 DEF ReadTurnOwner
    <3>2. player \in Words /\ mask \in SUBSET Bits
      BY GameplayAssumption
    <3>3. /\ Player(player) \in Words /\ Mask(mask) \in SUBSET Bits
          /\ Known(player, mask) \in BOOLEAN
      <4> HIDE DEF playerRead, maskRead
      <4> QED
        BY <1>2, <3>2 DEF Snapshots
    <3>4. Known(player, mask) =>
            Player(player) = player /\ Mask(mask) = mask /\ player \in Bits
      <4>1. playerRead \in BOOLEAN /\ maskRead \in BOOLEAN
        BY DEF ReadsWord, IsGuestReadableRange
      <4> HIDE DEF playerRead
      <4> QED
        BY <3>2, <4>1, GameplayAssumption DEF Words, Bits
    <3>5. (Known(player, mask) /\ player \in mask)
            = (Known(player, mask) /\ Player(player) \in Mask(mask))
      <4> HIDE DEF Known, Player, Mask
      <4> QED
        BY <3>3, <3>4
    <3>6. snap' = [snap EXCEPT
                !.active_player = Player(player),
                !.human_player_mask = Mask(mask),
                !.turn_owner_known = Known(player, mask),
                !.human_turn = Known(player, mask) /\ Player(player) \in Mask(mask)]
      <4> HIDE DEF Known, Player, Mask
      <4> QED
        BY <3>1, <3>5
    <3>7. Known(player, mask) => Player(player) \in Bits
      <4> HIDE DEF Known, Player
      <4> QED
        BY <3>4
    <3> HIDE DEF Known, Player, Mask
    <3> QED
      BY <3>3, <3>6, <3>7
  <2>2. ~SomePlayerField /\ pc' = "player"
    BY <1>6 DEF PlayerSound, ReadTurnOwner, Goto
  <2>3. FrontendSound'
    BY <1>2, <2>1 DEF FrontendSound, Snapshots
  <2>4. OwnerSound'
    BY <1>2, <2>1 DEF OwnerSound, Snapshots
  <2>5. PlayerSound'
    BY <1>2, <2>1, <2>2 DEF PlayerSound, SomePlayerField, Snapshots
  <2>6. InterfaceSound' /\ AvailableSound'
    BY <1>2, <2>1, <2>2 DEF InterfaceSound, AvailableSound, Snapshots
  <2> QED
    BY <1>1, <2>3, <2>4, <2>5, <2>6
<1>7. CASE ReadPlayer
  <2>1. /\ snap'.frontend_known = snap.frontend_known
        /\ snap'.gameplay_active = snap.gameplay_active
        /\ snap'.turn_owner_known = snap.turn_owner_known
        /\ snap'.active_player = snap.active_player
        /\ snap'.human_player_mask = snap.human_player_mask
        /\ snap'.human_turn = snap.human_turn
        /\ snap'.interface_known = snap.interface_known
        /\ snap'.interface_update = snap.interface_update
    BY <1>2, <1>7 DEF ReadPlayer, Snapshots
  <2>2. HasPlayerFields /\ entry' = snap.active_player /\ pc' = "interface"
    BY <1>7 DEF ReadPlayer, Goto
  <2>3. FrontendSound' /\ OwnerSound' /\ InterfaceSound'
    BY <2>1 DEF FrontendSound, OwnerSound, InterfaceSound
  <2>4. PlayerSound' /\ AvailableSound'
    BY <2>1, <2>2 DEF PlayerSound, HasPlayerFields, AvailableSound
  <2> QED
    BY <1>1, <2>3, <2>4
<1>8. CASE SkipPlayer
  <2>1. UNCHANGED <<snap, entry>> /\ pc = "player" /\ pc' = "interface"
    BY <1>8 DEF SkipPlayer, Goto
  <2> QED
    BY <1>1, <2>1 DEF FrontendSound, OwnerSound, PlayerSound, SomePlayerField,
       InterfaceSound, AvailableSound, HasPlayerFields
<1>9. CASE ReadInterface
  <2>1. PICK known \in BOOLEAN, update \in BOOLEAN :
          /\ update => known
          /\ snap' = [snap EXCEPT !.interface_known = known,
                                  !.interface_update = update]
    BY <1>9 DEF ReadInterface
  <2>2. pc = "interface" /\ pc' = "available" /\ entry' = entry
    BY <1>9 DEF ReadInterface, Goto
  <2>3. FrontendSound' /\ OwnerSound' /\ InterfaceSound'
    BY <1>2, <2>1 DEF FrontendSound, OwnerSound, InterfaceSound, Snapshots
  <2>4. PlayerSound' /\ AvailableSound'
    BY <1>2, <2>1, <2>2 DEF PlayerSound, SomePlayerField, HasPlayerFields,
       AvailableSound, Snapshots
  <2> QED
    BY <1>1, <2>3, <2>4
<1>10. CASE SetAvailable
  <2>1. snap' = [snap EXCEPT !.available = IsAvailable]
    BY <1>10 DEF SetAvailable
  <2>2. pc = "available" /\ pc' = "number" /\ entry' = entry
    BY <1>10 DEF SetAvailable, Goto
  <2>3. FrontendSound' /\ OwnerSound' /\ InterfaceSound'
    BY <1>2, <2>1 DEF FrontendSound, OwnerSound, InterfaceSound, Snapshots
  <2>4. PlayerSound'
    BY <1>2, <2>1, <2>2 DEF PlayerSound, SomePlayerField, HasPlayerFields, Snapshots
  <2>5. AvailableSound'
    BY <1>2, <2>1 DEF AvailableSound, IsAvailable, Snapshots
  <2> QED
    BY <1>1, <2>3, <2>4, <2>5
<1>11. CASE NumberFrame
  <2>1. snap' = [snap EXCEPT !.frame_sequence = sequence + 1]
    BY <1>11 DEF NumberFrame
  <2>2. pc = "number" /\ pc' = "published" /\ entry' = entry
    BY <1>11 DEF NumberFrame, Goto
  <2>3. FrontendSound' /\ OwnerSound' /\ InterfaceSound'
    BY <1>2, <2>1 DEF FrontendSound, OwnerSound, InterfaceSound, Snapshots
  <2>4. PlayerSound'
    BY <1>2, <2>1, <2>2 DEF PlayerSound, SomePlayerField, HasPlayerFields, Snapshots
  <2>5. AvailableSound'
    BY <1>2, <2>1, <2>2 DEF AvailableSound, IsAvailable, Snapshots
  <2> QED
    BY <1>1, <2>3, <2>4, <2>5
<1> QED
  BY <1>3, <1>4, <1>5, <1>6, <1>7, <1>8, <1>9, <1>10, <1>11 DEF Next

THEOREM Inductive == Spec => []IInv
BY InitIInv, NextIInv, PTL DEF Spec

-----------------------------------------------------------------------------
(* What readers are given.                                                    *)

\* A player the mask can name keeps its number in the conversion.
LEMMA PlayerIsDelivered ==
    ASSUME NEW player \in Bits
    PROVE  AsSigned(player) = player
BY GameplayAssumption DEF Bits, AsSigned

LEMMA DeliveredIsInt ==
    ASSUME NEW known \in BOOLEAN, NEW word \in Words
    PROVE  Delivered(known, word) \in Int
BY SignedIsInt32, GameplayAssumption DEF Delivered, Unknown, Int32

LEMMA ValidFieldsVouch ==
    ASSUME TypeOK
    PROVE  /\ "frontend" \in Out.valid_fields <=> snap.frontend_known
           /\ "turn" \in Out.valid_fields <=> snap.turn_owner_known
           /\ "interface" \in Out.valid_fields <=> snap.interface_known
           /\ "civilization" \in Out.valid_fields <=> snap.civilization_known
           /\ "era" \in Out.valid_fields <=> snap.era_known
           /\ "year" \in Out.valid_fields <=> snap.year_known
           /\ "turn number" \in Out.valid_fields <=> snap.turn_number_known
<1>1. Out.valid_fields = ValidFields
  BY DEF Out
<1> QED
  BY <1>1 DEF ValidFields, If, TypeOK, Snapshots

LEMMA OutFields ==
    /\ Out.gameplay_active = snap.gameplay_active
    /\ Out.interface_update = snap.interface_update
    /\ Out.active_player = Delivered(snap.turn_owner_known, snap.active_player)
    /\ Out.human_player_mask =
         IF snap.turn_owner_known THEN snap.human_player_mask ELSE {}
    /\ Out.human_turn = snap.human_turn
    /\ Out.available = snap.available
    /\ Out.civilization = Delivered(snap.civilization_known, snap.civilization)
    /\ Out.era = Delivered(snap.era_known, snap.era)
    /\ Out.year = OutYear
    /\ Out.turn = Delivered(snap.turn_number_known, snap.turn)
BY DEF Out

LEMMA HumanIsDelivered ==
    ASSUME IInv, snap.human_turn
    PROVE  /\ snap.turn_owner_known
           /\ Out.active_player = snap.active_player
           /\ Out.human_player_mask = snap.human_player_mask
           /\ Out.active_player \in Out.human_player_mask
BY PlayerIsDelivered, OutFields DEF IInv, OwnerSound, Delivered

LEMMA HumansFromIInv == IInv => PlayerFieldsAreHumans
<1> SUFFICES ASSUME IInv, pc = "published", Out.valid_fields \cap PlayerFields # {}
             PROVE  /\ Out.gameplay_active /\ Out.human_turn
                    /\ {"frontend", "turn"} \subseteq Out.valid_fields
                    /\ Out.active_player \in Out.human_player_mask
                    /\ entry = Out.active_player
                    /\ entry \in 0 .. PlayerCount - 1
  BY DEF PlayerFieldsAreHumans
<1>1. SomePlayerField
  BY ValidFieldsVouch DEF IInv, PlayerFields, SomePlayerField
<1>2. HasPlayerFields /\ entry = snap.active_player
  BY <1>1 DEF IInv, PlayerSound
<1>3. /\ snap.turn_owner_known /\ Out.active_player = snap.active_player
      /\ Out.active_player \in Out.human_player_mask
  BY <1>2, HumanIsDelivered DEF HasPlayerFields
<1>4. "frontend" \in Out.valid_fields /\ "turn" \in Out.valid_fields
  BY <1>2, <1>3, ValidFieldsVouch DEF IInv, FrontendSound, HasPlayerFields
<1>5. entry \in 0 .. PlayerCount - 1
  BY <1>2, GameplayAssumption DEF IInv, TypeOK, Snapshots, Words, HasPlayerFields
<1> QED
  BY <1>2, <1>3, <1>4, <1>5, OutFields DEF HasPlayerFields

\* The player fields describe a human player of the delivered mask, read inside
\* the title's arrays, whatever the guest's memory holds and when it changes.
THEOREM HumansOnly == Spec => []PlayerFieldsAreHumans
BY Inductive, HumansFromIInv, PTL

LEMMA PlayableFromIInv == IInv => AvailableMeansPlayable
<1> SUFFICES ASSUME IInv, pc = "published"
             PROVE  Out.available <=>
                      /\ {"frontend", "turn", "interface"} \subseteq Out.valid_fields
                      /\ Out.gameplay_active /\ Out.interface_update
                      /\ Out.active_player \in Out.human_player_mask
  BY DEF AvailableMeansPlayable
<1>1. Out.available <=> IsAvailable
  BY OutFields DEF IInv, AvailableSound
<1>2. ASSUME IsAvailable
      PROVE  /\ {"frontend", "turn", "interface"} \subseteq Out.valid_fields
             /\ Out.gameplay_active /\ Out.interface_update
             /\ Out.active_player \in Out.human_player_mask
  BY <1>2, HumanIsDelivered, ValidFieldsVouch, OutFields DEF IInv, IsAvailable
<1>3. ASSUME {"frontend", "turn", "interface"} \subseteq Out.valid_fields,
             Out.gameplay_active, Out.interface_update,
             Out.active_player \in Out.human_player_mask
      PROVE  IsAvailable
  <2>1. snap.frontend_known /\ snap.turn_owner_known /\ snap.interface_known
    BY <1>3, ValidFieldsVouch DEF IInv
  <2>2. /\ snap.active_player \in Bits
        /\ Out.active_player = AsSigned(snap.active_player)
        /\ Out.human_player_mask = snap.human_player_mask
    BY <2>1, OutFields DEF IInv, OwnerSound, Delivered
  <2>3. snap.active_player \in snap.human_player_mask
    BY <1>3, <2>2, PlayerIsDelivered
  <2> QED
    BY <1>3, <2>1, <2>3, OutFields DEF IInv, OwnerSound, IsAvailable
<1> QED
  BY <1>1, <1>2, <1>3

\* available is exactly what a reader would conclude from the delivered fields.
THEOREM PlayableExact == Spec => []AvailableMeansPlayable
BY Inductive, PlayableFromIInv, PTL

LEMMA UnknownFromIInv == IInv => ClearMeansUnknown
<1> SUFFICES ASSUME IInv, pc = "published" PROVE ClearMeansUnknown
  BY DEF ClearMeansUnknown
<1>1. /\ ~snap.turn_owner_known =>
             Out.active_player = Unknown /\ Out.human_player_mask = {}
      /\ ~snap.civilization_known => Out.civilization = Unknown
      /\ ~snap.era_known => Out.era = Unknown
      /\ ~snap.year_known => Out.year = YearUnknown
      /\ ~snap.turn_number_known => Out.turn = Unknown
  BY OutFields DEF Delivered, OutYear
<1>2. ASSUME ~(Out.gameplay_active /\ Out.human_turn)
      PROVE  /\ {Out.civilization, Out.era, Out.turn} = {Unknown}
             /\ Out.year = YearUnknown
  <2>1. ~SomePlayerField
    BY <1>2, OutFields DEF IInv, PlayerSound, HasPlayerFields
  <2> QED
    BY <1>1, <2>1 DEF SomePlayerField
<1> QED
  BY <1>1, <1>2, ValidFieldsVouch DEF ClearMeansUnknown, IInv

\* No field is delivered that was not read, or in a turn that is not a human's.
THEOREM ClearIsUnknown == Spec => []ClearMeansUnknown
BY Inductive, UnknownFromIInv, PTL

LEMMA SupportedFromIInv == IInv => PresenceIsSupported
<1> SUFFICES ASSUME IInv, pc = "published", TryBuildGameplayPresence(Out)
             PROVE  /\ "frontend" \in Out.valid_fields /\ Out.gameplay_active
                    /\ Out.civilization \in Civilizations
                    /\ Out.era \in Eras
  BY DEF PresenceIsSupported, PresenceOf
<1>1. Out.available
  BY DEF TryBuildGameplayPresence
<1>2. IsAvailable
  BY <1>1, OutFields DEF IInv, AvailableSound
<1>3. Out.civilization \in Int /\ Out.era \in Int
  BY DeliveredIsInt, OutFields DEF IInv, TypeOK, Snapshots
<1>4. Out.civilization \in Civilizations /\ Out.era \in Eras
  BY <1>3, GameplayAssumption DEF TryBuildGameplayPresence, Civilizations, Eras
<1>5. "frontend" \in Out.valid_fields /\ Out.gameplay_active
  BY <1>2, ValidFieldsVouch, OutFields DEF IInv, IsAvailable
<1> QED
  BY <1>4, <1>5

\* An activity is only built for a known game and inside the presence's tables.
THEOREM PresenceSupported == Spec => []PresenceIsSupported
BY Inductive, SupportedFromIInv, PTL

\* The unavailable state with another number, and its clear flags by a name.
UnavailableWith(number, clear) ==
    [struct_size |-> StructSize, frame_sequence |-> number,
     valid_fields |-> {},
     gameplay_active |-> clear, interface_update |-> clear,
     active_player |-> Unknown, human_player_mask |-> {},
     turn_owner_known |-> clear, human_turn |-> clear, available |-> clear,
     civilization |-> Unknown, era |-> Unknown,
     year |-> YearUnknown, turn |-> Unknown]

LEMMA NumberReplaced ==
    ASSUME NEW number, NEW other, NEW clear
    PROVE  UnavailableWith(number, clear) =
             [UnavailableWith(other, clear) EXCEPT !.frame_sequence = number]
BY DEF UnavailableWith

\* A published state with no validity bit is the one of an unavailable snapshot but
\* for its number.
LEMMA NothingValid ==
    ASSUME IInv, pc = "published", Out.valid_fields = {}
    PROVE  Out = [OutUnavailable EXCEPT !.frame_sequence = Out.frame_sequence]
<1>1. /\ ~snap.frontend_known /\ ~snap.turn_owner_known /\ ~snap.interface_known
      /\ ~snap.civilization_known /\ ~snap.era_known /\ ~snap.year_known
      /\ ~snap.turn_number_known
  BY ValidFieldsVouch DEF IInv
<1>2. /\ snap.gameplay_active = FALSE /\ snap.interface_update = FALSE
      /\ snap.human_turn = FALSE /\ snap.available = FALSE
      /\ snap.turn_owner_known = FALSE
  BY <1>1 DEF IInv, TypeOK, Snapshots, FrontendSound, OwnerSound, InterfaceSound,
     AvailableSound, IsAvailable
<1>3. ValidFields = {}
  BY DEF Out
<1>4. /\ \A word : Delivered(FALSE, word) = Unknown
      /\ OutYear = YearUnknown
  BY <1>1 DEF Delivered, OutYear
<1>5. /\ snap.turn_owner_known = FALSE /\ snap.civilization_known = FALSE
      /\ snap.era_known = FALSE /\ snap.turn_number_known = FALSE
  BY <1>1 DEF IInv, TypeOK, Snapshots
<1>6. Out = UnavailableWith(snap.frame_sequence, FALSE)
  BY <1>2, <1>3, <1>4, <1>5 DEF Out, UnavailableWith
<1>7. OutUnavailable = UnavailableWith(0, FALSE)
  BY DEF OutUnavailable, UnavailableWith
<1>8. Out.frame_sequence = snap.frame_sequence
  BY DEF Out
<1>9. UnavailableWith(snap.frame_sequence, FALSE) =
        [UnavailableWith(0, FALSE) EXCEPT !.frame_sequence = snap.frame_sequence]
  BY NumberReplaced, Zenon
<1> QED
  BY <1>6, <1>7, <1>8, <1>9, Zenon

LEMMA OutInStates ==
    ASSUME TypeOK
    PROVE  Out \in GameplayStates /\ OutUnavailable \in GameplayStates
<1>1. Unknown \in Int32 /\ YearUnknown \in Int32
  BY UnknownIsInt32
<1>2. ASSUME NEW known \in BOOLEAN, NEW word \in Words
      PROVE  Delivered(known, word) \in Int32
  BY <1>1, SignedIsInt32 DEF Delivered
<1>3. /\ Out.active_player \in Int32 /\ Out.civilization \in Int32
      /\ Out.era \in Int32 /\ Out.turn \in Int32
  BY <1>2, OutFields, ZenonT(60) DEF TypeOK, Snapshots
<1>4. Out.year \in Int32
  BY <1>1, OutFields DEF OutYear, TypeOK, Snapshots
<1>5. /\ ValidFields \in SUBSET {"frontend", "turn", "interface", "civilization", "era",
                                 "year", "turn number"}
      /\ (IF snap.turn_owner_known THEN snap.human_player_mask ELSE {}) \in SUBSET Bits
  BY DEF ValidFields, If, TypeOK, Snapshots
<1>6. Out \in GameplayStates
  BY <1>3, <1>4, <1>5 DEF Out, GameplayStates, TypeOK, Snapshots
<1> QED
  BY <1>1, <1>6 DEF OutUnavailable, GameplayStates

LEMMA RepliesFromIInv == IInv => RepliesFitTheCaller
<1> DEFINE reply(null, published, size) == GetGameplayState(null, size, published)
<1> SUFFICES ASSUME IInv, NEW null \in BOOLEAN,
                    NEW published \in {FALSE, pc = "published"},
                    NEW size \in BufferSizes
             PROVE  LET r == reply(null, published, size)
                    IN  /\ r.cleared \subseteq 0 .. size - 1
                        /\ r.result = ErrBufferTooSmall => r.cleared = 0 .. size - 1
                        /\ r.result \in {Ok, ErrUnavailable} =>
                               /\ r.state \in GameplayStates /\ StructSize <= size
                               /\ r.state.frame_sequence = 0 <=>
                                      r.result = ErrUnavailable
                               /\ r.state.valid_fields = {} =>
                                      r.state = [OutUnavailable EXCEPT
                                        !.frame_sequence = r.state.frame_sequence]
  BY DEF RepliesFitTheCaller
<1> DEFINE r == reply(null, published, size)
<1>1. size \in Nat /\ StructSize \in Nat
  BY GameplayAssumption
<1>2. CASE null
  BY <1>2 DEF GetGameplayState, Reply, Ok, ErrUnavailable, ErrInvalidArgument,
     ErrBufferTooSmall
<1>3. CASE ~null /\ size < StructSize
  BY <1>3 DEF GetGameplayState, Reply, Ok, ErrUnavailable, ErrBufferTooSmall
<1>4. CASE ~null /\ ~(size < StructSize)
  <2>1. r.cleared = 0 .. StructSize - 1 /\ r.result \in {Ok, ErrUnavailable}
    BY <1>4 DEF GetGameplayState, Reply
  <2>2. r.result # ErrBufferTooSmall
    BY <2>1 DEF Ok, ErrUnavailable, ErrBufferTooSmall
  <2>3. 0 .. StructSize - 1 \subseteq 0 .. size - 1 /\ StructSize <= size
    BY <1>1, <1>4
  <2>4. CASE ~published
    <3>1. r.state = OutUnavailable /\ r.result = ErrUnavailable
      BY <1>4, <2>4 DEF GetGameplayState, Reply
    <3>2. OutUnavailable.frame_sequence = 0
      BY DEF OutUnavailable
    <3>3. OutUnavailable = [OutUnavailable EXCEPT
                              !.frame_sequence = OutUnavailable.frame_sequence]
      BY DEF OutUnavailable
    <3>4. r.state \in GameplayStates
      BY <3>1, OutInStates DEF IInv
    <3> QED
      BY <2>1, <2>2, <2>3, <3>1, <3>2, <3>3, <3>4
  <2>5. CASE published
    <3>1. r.state = Out /\ r.result = Ok
      BY <1>4, <2>5 DEF GetGameplayState, Reply
    <3>2. pc = "published"
      BY <2>5
    <3>3. Out.frame_sequence # 0
      <4>1. Out.frame_sequence = snap.frame_sequence
        BY DEF Out
      <4> QED
        BY <3>2, <4>1 DEF IInv, FrameNumbered
    <3>4. Out.valid_fields = {} =>
            Out = [OutUnavailable EXCEPT !.frame_sequence = Out.frame_sequence]
      BY <3>2, NothingValid
    <3>5. r.state \in GameplayStates
      BY <3>1, OutInStates DEF IInv
    <3>6. Ok # ErrUnavailable
      BY DEF Ok, ErrUnavailable
    <3> QED
      BY <2>1, <2>2, <2>3, <3>1, <3>3, <3>4, <3>5, <3>6
  <2> QED
    BY <2>4, <2>5
<1> QED
  BY <1>2, <1>3, <1>4

\* No call writes past the caller's buffer, for every size of it, and only
\* frame_sequence tells a snapshot of which nothing could be read from none.
THEOREM RepliesFit == Spec => []RepliesFitTheCaller
BY Inductive, RepliesFromIInv, PTL

LEMMA YearsFromIInv == IInv => YearsAreReadable
<1> SUFFICES ASSUME IInv
             PROVE  LET text == FormatYear(Out.year)
                    IN  /\ text.number >= 0
                        /\ YearOf(text) = Out.year
                        /\ text.calendar = "Year" <=> Out.year = 0
  BY DEF YearsAreReadable
<1>1. Out.year \in Int
  <2>1. snap.year \in Int32
    BY DEF IInv, TypeOK, Snapshots
  <2>2. Out.year \in {snap.year, YearUnknown}
    BY OutFields DEF OutYear
  <2>3. WordLimit \div 2 \in Int
    BY GameplayAssumption
  <2> QED
    BY <2>1, <2>2, <2>3 DEF YearUnknown, Int32
<1> DEFINE text == FormatYear(Out.year)
<1>2. CASE Out.year < 0
  <2>1. text.number = -Out.year /\ text.calendar = "BC"
    BY <1>2 DEF FormatYear
  <2> QED
    BY <1>1, <1>2, <2>1 DEF YearOf
<1>3. CASE ~(Out.year < 0)
  <2>1. /\ text.number = Out.year
        /\ text.calendar = IF Out.year > 0 THEN "AD" ELSE "Year"
    BY <1>3 DEF FormatYear
  <2> QED
    BY <1>1, <1>3, <2>1 DEF YearOf
<1> QED
  BY <1>2, <1>3

\* Every year the guest can hold is shown without a sign and can be read back.
THEOREM YearsReadable == Spec => []YearsAreReadable
BY Inductive, YearsFromIInv, PTL
=============================================================================
