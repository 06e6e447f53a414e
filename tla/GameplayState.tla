---------------------------- MODULE GameplayState ----------------------------
(* ReadGuestSnapshot and ReRevvedGetGameplayState of game_state.cpp, and the  *)
(* test presence_model.cpp puts to their result.  The guest may write its     *)
(* memory at any time, so a word is whatever its one load in the hook finds;   *)
(* which of the guest's bytes can be accessed is fixed while a hook runs.      *)
(* SnapshotExchange carries the snapshot from the hook to its readers.         *)
EXTENDS Integers

CONSTANTS
    WordLimit,        \* 2^32: one more than the largest uint32_t
    WordBytes,        \* sizeof(uint32_t)
    GuestLow,         \* 0x10000, the first guest address
    GuestHigh,        \* 0xFFFFF000, one past the last
    HeapOf,           \* Memory::LookupHeap, for every address
    NoHeap,
    Accessibles,      \* the sets of accessible bytes the guest may have
    Global,           \* the addresses of the title's globals
    StateOffset, KeyOffset, InterfaceOffset,
    PlayerCount,      \* kPlayerCount
    PlayerBits,       \* 32, the width of human_player_mask
    GameplayKey,      \* the frontend key of a game in progress
    CivilizationCount, EraCount,  \* the sizes of kCivilizations and kEras
    Numbers, Masks,   \* the numbers and player masks the guest stores
    MaxFrames,        \* bound: the frames the title runs
    StructSize,       \* sizeof(ReRevvedGameplayState)
    BufferSizes       \* the values of out_size mods pass

Words == 0 .. WordLimit - 1
Bits == 0 .. PlayerBits - 1

ASSUME GameplayAssumption ==
    /\ WordLimit \in Nat /\ WordLimit = 2 * (WordLimit \div 2)
    /\ WordBytes \in Nat \ {0}
    /\ GuestLow \in Nat \ {0}
    /\ GuestHigh \in Nat
    /\ GuestHigh + WordBytes <= WordLimit
    /\ PlayerCount \in Nat
    /\ PlayerBits \in Nat
    /\ PlayerCount <= PlayerBits
    /\ PlayerBits < WordLimit \div 2
    /\ Numbers \subseteq Words
    /\ Masks \subseteq SUBSET Bits
    /\ MaxFrames \in Nat
    /\ CivilizationCount \in Nat
    /\ EraCount \in Nat
    /\ StructSize \in Nat
    /\ BufferSizes \subseteq Nat

\* A heap is an interval of the guest's address space; what lies between heaps
\* belongs to none.
ASSUME HeapAssumption ==
    \A first, between, last \in Words :
        /\ first <= between /\ between <= last
        /\ HeapOf[first] = HeapOf[last] /\ HeapOf[first] # NoHeap
        => HeapOf[between] = HeapOf[first]

VARIABLES
    pc,          \* the block of ReadGuestSnapshot the frame thread is in
    accessible,  \* the guest's accessible bytes
    sequence,    \* g_frame_sequence
    snap,        \* state, the Snapshot being read
    entry        \* history: the entry of the player arrays that was read, or -1

vars == <<pc, accessible, sequence, snap, entry>>

\* static_cast<int32_t> of a uint32_t. Faulty: without the conversion.
Unsigned(word) == word
AsSigned(word) == IF word < WordLimit \div 2 THEN word ELSE word - WordLimit

Int32 == -(WordLimit \div 2) .. WordLimit \div 2 - 1
Unknown == -1
YearUnknown == -(WordLimit \div 2)

Snapshots ==
    [frame_sequence : Nat,
     frontend_known : BOOLEAN, gameplay_active : BOOLEAN,
     turn_owner_known : BOOLEAN, active_player : Words,
     human_player_mask : SUBSET Bits, human_turn : BOOLEAN,
     civilization_known : BOOLEAN, civilization : Words,
     era_known : BOOLEAN, era : Words,
     turn_number_known : BOOLEAN, turn : Words,
     year_known : BOOLEAN, year : Int32,
     interface_known : BOOLEAN, interface_update : BOOLEAN,
     available : BOOLEAN]

DefaultSnapshot ==
    [frame_sequence |-> 0,
     frontend_known |-> FALSE, gameplay_active |-> FALSE,
     turn_owner_known |-> FALSE, active_player |-> WordLimit - 1,
     human_player_mask |-> {}, human_turn |-> FALSE,
     civilization_known |-> FALSE, civilization |-> WordLimit - 1,
     era_known |-> FALSE, era |-> WordLimit - 1,
     turn_number_known |-> FALSE, turn |-> WordLimit - 1,
     year_known |-> FALSE, year |-> YearUnknown,
     interface_known |-> FALSE, interface_update |-> FALSE,
     available |-> FALSE]

TypeOK ==
    /\ pc \in {"idle", "frontend", "turn owner", "player", "interface",
               "available", "number", "published"}
    /\ accessible \in Accessibles
    /\ sequence \in Nat
    /\ snap \in Snapshots
    /\ entry \in {-1} \cup Words

Init ==
    /\ pc = "idle"
    /\ accessible \in Accessibles
    /\ sequence = 0
    /\ snap = DefaultSnapshot
    /\ entry = -1

-----------------------------------------------------------------------------
(* Guest addresses.                                                           *)

\* uint32_t addition, of two words
Plus(address, offset) ==
    IF address + offset < WordLimit
      THEN address + offset ELSE address + offset - WordLimit

Bytes(address, extent) == address .. address + extent - 1

IsGuestPointer(address) == GuestLow <= address /\ address < GuestHigh

\* BaseHeap::QueryRangeAccess(first, last) # kNoAccess
HasAccess(first, last) == first .. last \subseteq accessible

\* Faulty: only the page of the first byte is asked for.
FirstByteReadable(address, extent) ==
    /\ extent # 0
    /\ address <= WordLimit - 1 - extent
    /\ LET last == Plus(address, extent) - 1 IN
       /\ IsGuestPointer(address) /\ IsGuestPointer(last)
       /\ HeapOf[address] # NoHeap
       /\ HeapOf[last] = HeapOf[address]
       /\ HasAccess(address, address)

IsGuestReadableRange(address, extent) ==
    /\ extent # 0
    /\ address <= WordLimit - 1 - extent
    /\ LET last == Plus(address, extent) - 1 IN
       /\ IsGuestPointer(address) /\ IsGuestPointer(last)
       /\ HeapOf[address] # NoHeap
       /\ HeapOf[last] = HeapOf[address]
       /\ HasAccess(address, last)

\* TryReadU32 and TryReadU8 succeed
ReadsWord(address) == IsGuestReadableRange(address, WordBytes)
ReadsByte(address) == IsGuestReadableRange(address, 1)

\* The word a load leaves in its variable, or what was there before.
Loaded(address, found, default) == IF ReadsWord(address) THEN found ELSE default

-----------------------------------------------------------------------------
(* PublishFrameSnapshot on the frame thread, in a slot it owns: one block of  *)
(* ReadGuestSnapshot at a time, then the number.                               *)

Goto(from, to) ==
    /\ pc = from
    /\ pc' = to

\* The hook fires; without a runtime there is nothing to read.
FrameHook ==
    /\ pc \in {"idle", "published"}
    /\ sequence < MaxFrames
    /\ pc' \in {"frontend", "number"}
    /\ accessible' \in Accessibles
    /\ snap' = DefaultSnapshot
    /\ entry' = -1
    /\ UNCHANGED sequence

ReadFrontend ==
    /\ Goto("frontend", "turn owner")
    /\ \E root, state \in Words, key \in Numbers :
        LET known == /\ ReadsWord(Global.frontendRoot) /\ root # 0
                     /\ ReadsWord(Plus(root, StateOffset)) /\ state # 0
                     /\ ReadsWord(Plus(state, KeyOffset))
        IN  snap' = [snap EXCEPT !.frontend_known = known,
                                 !.gameplay_active = known /\ key = GameplayKey]
    /\ UNCHANGED <<accessible, sequence, entry>>

ReadTurnOwner ==
    /\ Goto("turn owner", "player")
    /\ \E player \in Numbers, mask \in Masks :
        LET playerRead == ReadsWord(Global.activePlayer)
            maskRead == playerRead /\ ReadsWord(Global.humanMask)
            known == maskRead /\ player < PlayerBits /\ mask # {}
        IN  snap' = [snap EXCEPT
                !.active_player = IF playerRead THEN player ELSE @,
                !.human_player_mask = IF maskRead THEN mask ELSE @,
                !.turn_owner_known = known,
                !.human_turn = known /\ player \in mask]
    /\ UNCHANGED <<accessible, sequence, entry>>

\* Faulty: the width of the mask bounds the index into the player arrays.
HasPlayerFieldsInMask ==
    snap.gameplay_active /\ snap.human_turn /\ snap.active_player < PlayerBits

HasPlayerFields ==
    snap.gameplay_active /\ snap.human_turn /\ snap.active_player < PlayerCount

ReadPlayer ==
    /\ Goto("player", "interface")
    /\ HasPlayerFields
    /\ entry' = snap.active_player
    /\ \E civilization, era, turn, year \in Numbers :
        LET index == snap.active_player * WordBytes
            civilizationAt == Plus(Global.civilizations, index)
            eraAt == Plus(Global.eras, index)
        IN  snap' = [snap EXCEPT
                !.civilization_known = ReadsWord(civilizationAt),
                !.civilization = Loaded(civilizationAt, civilization, @),
                !.era_known = ReadsWord(eraAt),
                !.era = Loaded(eraAt, era, @),
                !.turn_number_known = ReadsWord(Global.turn),
                !.turn = Loaded(Global.turn, turn, @),
                !.year_known = ReadsWord(Global.year),
                !.year = AsSigned(Loaded(Global.year, year, 0))]
    /\ UNCHANGED <<accessible, sequence>>

SkipPlayer ==
    /\ Goto("player", "interface")
    /\ ~HasPlayerFields
    /\ UNCHANGED <<accessible, sequence, snap, entry>>

ReadInterface ==
    /\ Goto("interface", "available")
    /\ \E gate \in Words, byte \in {0, 1} :
        LET known == /\ ReadsWord(Global.interfaceGate) /\ gate # 0
                     /\ ReadsByte(Plus(gate, InterfaceOffset))
        IN  snap' = [snap EXCEPT !.interface_known = known,
                                 !.interface_update = known /\ byte # 0]
    /\ UNCHANGED <<accessible, sequence, entry>>

\* Faulty: an AI's turn passes for a playable one.
IsAvailableAnyTurn ==
    /\ snap.frontend_known /\ snap.gameplay_active
    /\ snap.interface_known /\ snap.interface_update
    /\ snap.turn_owner_known

IsAvailable ==
    /\ snap.frontend_known /\ snap.gameplay_active
    /\ snap.interface_known /\ snap.interface_update
    /\ snap.turn_owner_known /\ snap.human_turn

SetAvailable ==
    /\ Goto("available", "number")
    /\ snap' = [snap EXCEPT !.available = IsAvailable]
    /\ UNCHANGED <<accessible, sequence, entry>>

\* state.frame_sequence = ++g_frame_sequence
NumberFrame ==
    /\ Goto("number", "published")
    /\ sequence' = sequence + 1
    /\ snap' = [snap EXCEPT !.frame_sequence = sequence + 1]
    /\ UNCHANGED <<accessible, entry>>

Next ==
    \/ FrameHook
    \/ ReadFrontend \/ ReadTurnOwner \/ ReadPlayer \/ SkipPlayer \/ ReadInterface
    \/ SetAvailable \/ NumberFrame

Spec == Init /\ [][Next]_vars

-----------------------------------------------------------------------------
(* ReRevvedGetGameplayState, given the snapshot it took from the exchange.    *)

If(condition, element) == IF condition THEN {element} ELSE {}

ValidFields ==
    If(snap.frontend_known, "frontend") \cup If(snap.turn_owner_known, "turn")
    \cup If(snap.interface_known, "interface")
    \cup If(snap.civilization_known, "civilization")
    \cup If(snap.era_known, "era") \cup If(snap.year_known, "year")
    \cup If(snap.turn_number_known, "turn number")

\* Faulty: the year is copied whether or not it was read.
OutYearAlways == snap.year
OutYear == IF snap.year_known THEN snap.year ELSE YearUnknown

\* struct ReRevvedGameplayState
GameplayStates ==
    [struct_size : {StructSize}, frame_sequence : Nat,
     valid_fields : SUBSET {"frontend", "turn", "interface", "civilization", "era",
                            "year", "turn number"},
     gameplay_active : BOOLEAN, interface_update : BOOLEAN,
     active_player : Int32, human_player_mask : SUBSET Bits,
     turn_owner_known : BOOLEAN, human_turn : BOOLEAN, available : BOOLEAN,
     civilization : Int32, era : Int32, year : Int32, turn : Int32]

Delivered(known, word) == IF known THEN AsSigned(word) ELSE Unknown

Out ==
    [struct_size |-> StructSize, frame_sequence |-> snap.frame_sequence,
     valid_fields |-> ValidFields,
     gameplay_active |-> snap.gameplay_active,
     interface_update |-> snap.interface_update,
     active_player |-> Delivered(snap.turn_owner_known, snap.active_player),
     human_player_mask |-> IF snap.turn_owner_known THEN snap.human_player_mask ELSE {},
     turn_owner_known |-> snap.turn_owner_known,
     human_turn |-> snap.human_turn,
     available |-> snap.available,
     civilization |-> Delivered(snap.civilization_known, snap.civilization),
     era |-> Delivered(snap.era_known, snap.era),
     year |-> OutYear,
     turn |-> Delivered(snap.turn_number_known, snap.turn)]

\* The state before a snapshot is looked for: cleared, but for the unknowns.
OutUnavailable ==
    [struct_size |-> StructSize, frame_sequence |-> 0,
     valid_fields |-> {},
     gameplay_active |-> FALSE, interface_update |-> FALSE,
     active_player |-> Unknown, human_player_mask |-> {},
     turn_owner_known |-> FALSE, human_turn |-> FALSE, available |-> FALSE,
     civilization |-> Unknown, era |-> Unknown,
     year |-> YearUnknown, turn |-> Unknown]

Ok == 0
ErrUnavailable == -1
ErrInvalidArgument == -10
ErrBufferTooSmall == -11

\* A reply: the value returned, the bytes of the caller's buffer it cleared and
\* then, if the structure fits, the fields it left there.
Reply(result, cleared, state) ==
    [result |-> result, cleared |-> cleared, state |-> state]
NoState == [struct_size |-> 0]

\* Faulty: the whole structure is cleared before its size is looked at.
GetGameplayStateUnbounded(null, size, published) ==
    IF null THEN Reply(ErrInvalidArgument, {}, NoState)
    ELSE IF size < StructSize
      THEN Reply(ErrBufferTooSmall, 0 .. StructSize - 1, NoState)
    ELSE IF published THEN Reply(Ok, 0 .. StructSize - 1, Out)
    ELSE Reply(ErrUnavailable, 0 .. StructSize - 1, OutUnavailable)

GetGameplayState(null, size, published) ==
    IF null THEN Reply(ErrInvalidArgument, {}, NoState)
    ELSE IF size < StructSize THEN Reply(ErrBufferTooSmall, 0 .. size - 1, NoState)
    ELSE IF published THEN Reply(Ok, 0 .. StructSize - 1, Out)
    ELSE Reply(ErrUnavailable, 0 .. StructSize - 1, OutUnavailable)

PlayerFields == {"civilization", "era", "year", "turn number"}

\* Faulty: a negative number passes for a small one.
TryBuildGameplayPresenceSigned(state) ==
    /\ state.available
    /\ PlayerFields \subseteq state.valid_fields
    /\ state.civilization < CivilizationCount
    /\ state.era < EraCount

\* TryBuildGameplayPresence(state) returns true
TryBuildGameplayPresence(state) ==
    /\ state.available
    /\ PlayerFields \subseteq state.valid_fields
    /\ 0 <= state.civilization /\ state.civilization < CivilizationCount
    /\ 0 <= state.era /\ state.era < EraCount

\* The rows of kCivilizations and kEras, which differ in every text.
Civilizations == 0 .. CivilizationCount - 1
Eras == 0 .. EraCount - 1

\* FormatYear, as the number it prints and the calendar it names. Faulty: the
\* year is negated in its own width.
FormatYearNarrow(year) ==
    IF year < 0 THEN [number |-> AsSigned(-year), calendar |-> "BC"]
    ELSE [number |-> year, calendar |-> IF year > 0 THEN "AD" ELSE "Year"]

FormatYear(year) ==
    IF year < 0 THEN [number |-> -year, calendar |-> "BC"]
    ELSE [number |-> year, calendar |-> IF year > 0 THEN "AD" ELSE "Year"]

\* The texts of TryBuildGameplayPresence, by what they print.
PresenceOf(state) ==
    [civilization |-> state.civilization, era |-> state.era, turn |-> state.turn,
     year |-> FormatYear(state.year)]

-----------------------------------------------------------------------------
(* Properties, of what readers of a published snapshot are given.             *)

\* The range test accepts exactly the ranges that lie in guest addresses and in
\* one heap and are accessible to their last byte, up to the ends of the address
\* space: a load that follows it never faults, and no readable field is refused.
ReadableRangeIsExact ==
    \A address \in Words, extent \in {1, WordBytes} :
        IsGuestReadableRange(address, extent) <=>
            \A byte \in Bytes(address, extent) :
                /\ byte \in accessible
                /\ byte \in GuestLow .. GuestHigh - 1
                /\ HeapOf[byte] # NoHeap
                /\ HeapOf[address + extent - 1] = HeapOf[address]

\* "These fields describe the active human player. Their validity bits are clear
\* during AI turns, menu/loading transitions, or failed guest reads": whatever
\* the guest stores, they were read inside the arrays, at the entry of a player
\* whom the delivered mask has as human, in a game.
PlayerFieldsAreHumans ==
    pc = "published" /\ Out.valid_fields \cap PlayerFields # {} =>
        /\ Out.gameplay_active /\ Out.human_turn
        /\ {"frontend", "turn"} \subseteq Out.valid_fields
        /\ Out.active_player \in Out.human_player_mask
        /\ entry = Out.active_player
        /\ entry \in 0 .. PlayerCount - 1

\* "every conservative playable-turn gate is satisfied": available is set exactly
\* when the delivered fields themselves say that a human may act, for a reader
\* that checks them one by one.
AvailableMeansPlayable ==
    pc = "published" =>
        (Out.available <=>
            /\ {"frontend", "turn", "interface"} \subseteq Out.valid_fields
            /\ Out.gameplay_active /\ Out.interface_update
            /\ Out.active_player \in Out.human_player_mask)

\* A reader that ignores the validity bits and looks at the documented unknown
\* values is told the same: what was not read safely is never delivered, nor
\* anything of a player while no human is to move.
ClearMeansUnknown ==
    pc = "published" =>
        /\ "turn" \notin Out.valid_fields =>
               Out.active_player = Unknown /\ Out.human_player_mask = {}
        /\ "civilization" \notin Out.valid_fields => Out.civilization = Unknown
        /\ "era" \notin Out.valid_fields => Out.era = Unknown
        /\ "year" \notin Out.valid_fields => Out.year = YearUnknown
        /\ "turn number" \notin Out.valid_fields => Out.turn = Unknown
        /\ ~(Out.gameplay_active /\ Out.human_turn) =>
               /\ {Out.civilization, Out.era, Out.turn} = {Unknown}
               /\ Out.year = YearUnknown

\* An activity is built only from a state SelectPresence takes for a game, so the
\* retained and the shown activity agree, and its table lookups stay in range for
\* every word the guest may hold, negative ones included.
PresenceIsSupported ==
    pc = "published" /\ TryBuildGameplayPresence(Out) =>
        /\ "frontend" \in Out.valid_fields /\ Out.gameplay_active
        /\ PresenceOf(Out).civilization \in Civilizations
        /\ PresenceOf(Out).era \in Eras

\* The API header's contract with the caller's buffer, for every size: nothing is
\* written past it; a buffer too small holds no stale byte; one that fits is told the
\* structure's size even without a snapshot and gets every guest word in its int32_t.
\* A caller that ignores the result tells whether there was a snapshot by
\* frame_sequence, 0 only without one: a snapshot of which nothing could be read leaves
\* every other field as it is without one.
RepliesFitTheCaller ==
    \A null \in BOOLEAN, published \in {FALSE, pc = "published"}, size \in BufferSizes :
        LET reply == GetGameplayState(null, size, published)
            state == reply.state
        IN  /\ reply.cleared \subseteq 0 .. size - 1
            /\ reply.result = ErrBufferTooSmall => reply.cleared = 0 .. size - 1
            /\ reply.result \in {Ok, ErrUnavailable} =>
                   /\ state \in GameplayStates /\ StructSize <= size
                   /\ state.frame_sequence = 0 <=> reply.result = ErrUnavailable
                   /\ state.valid_fields = {} =>
                          state = [OutUnavailable EXCEPT
                                       !.frame_sequence = state.frame_sequence]

\* The year of a text.
YearOf(text) == IF text.calendar = "BC" THEN -text.number ELSE text.number

\* Presences are compared by their texts to decide what is published: two states a
\* player can tell apart never look the same. Every delivered year, the most
\* negative included, is printed without a sign and can be read back.
YearsAreReadable ==
    pc = "published" =>
        LET text == FormatYear(Out.year)
        IN  /\ text.number >= 0
            /\ YearOf(text) = Out.year
            /\ text.calendar = "Year" <=> Out.year = 0
=============================================================================
