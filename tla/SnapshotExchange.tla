-------------------------- MODULE SnapshotExchange --------------------------
(* The two-slot snapshot exchange of src/game_state.cpp.  The guest frame     *)
(* thread runs PublishFrameSnapshot once a frame (the midasm hook at           *)
(* 0x82C7DF58); any number of host threads run GetPublishedSnapshot.  Every    *)
(* atomic operation of the code is one action, and the plain copy of a         *)
(* Snapshot goes field by field in any order, so that a torn read is a         *)
(* behaviour of the model unless the protocol prevents it.                     *)
(* Atomic operations are interleaved (sequentially consistent).                *)
EXTENDS Integers, FiniteSets

CONSTANTS
    Readers,        \* host threads inside ReRevvedGetGameplayState
    Fields,         \* the fields of a Snapshot
    SequenceField,  \* Snapshot::frame_sequence
    SeqModulus,     \* g_frame_sequence wraps at this number (2^64 in the code)
    SpuriousCas     \* TRUE: compare_exchange_weak may fail for no reason

ASSUME ExchangeAssumption ==
    /\ IsFiniteSet(Readers)
    /\ SequenceField \in Fields
    /\ SeqModulus \in Nat \ {0}
    /\ SpuriousCas \in BOOLEAN

VARIABLES
    users,          \* PublishedSlot::users, -1 while the writer owns the slot
    data,           \* PublishedSlot::snapshot
    active,         \* g_active_slot
    published,      \* g_snapshot_published
    writerSlot,     \* g_writer_slot
    frameSequence,  \* g_frame_sequence
    wpc,            \* where the guest frame thread is
    filled,         \* fields of the slot the writer has stored
    rpc,            \* where each reader is
    slot,           \* per reader: slot_index
    expected,       \* per reader: expected
    copied,         \* per reader: fields of out already copied
    out,            \* per reader: the caller's Snapshot
    ok              \* per reader: the value returned

sharedVars == <<users, data, active, published>>
writerVars == <<writerSlot, frameSequence, wpc, filled>>
readerVars == <<rpc, slot, expected, copied, out, ok>>
vars == <<sharedVars, writerVars, readerVars>>

Slots == {0, 1}
Sequences == 0 .. SeqModulus - 1
Snapshots == [Fields -> Sequences]
EmptySnapshot == [f \in Fields |-> 0]
\* Faulty: the writer composes the frame in the slot readers use.
NextSlotActive == writerSlot
NextSlot == 1 - writerSlot

WriterPcs == {"idle", "claim", "fill", "open", "swing", "announce"}
ReaderPcs == {"idle", "check", "load", "users", "cas", "recheck", "leave",
              "copy", "release", "exit"}

\* The only negative count is the writer's mark.
TypeOK ==
    /\ users \in [Slots -> Nat \cup {-1}]
    /\ data \in [Slots -> Snapshots]
    /\ active \in Slots
    /\ published \in BOOLEAN
    /\ writerSlot \in Slots
    /\ frameSequence \in Sequences
    /\ wpc \in WriterPcs
    /\ filled \in SUBSET Fields
    /\ rpc \in [Readers -> ReaderPcs]
    /\ slot \in [Readers -> Slots]
    /\ expected \in [Readers -> Int]
    /\ copied \in [Readers -> SUBSET Fields]
    /\ out \in [Readers -> Snapshots]
    /\ ok \in [Readers -> BOOLEAN]

Init ==
    /\ users = [s \in Slots |-> 0]
    /\ data = [s \in Slots |-> EmptySnapshot]
    /\ active = 0
    /\ published = FALSE
    /\ writerSlot = 0
    /\ frameSequence = 0
    /\ wpc = "idle"
    /\ filled = {}
    /\ rpc = [r \in Readers |-> "idle"]
    /\ slot = [r \in Readers |-> 0]
    /\ expected = [r \in Readers |-> 0]
    /\ copied = [r \in Readers |-> {}]
    /\ out = [r \in Readers |-> EmptySnapshot]
    /\ ok = [r \in Readers |-> FALSE]

-----------------------------------------------------------------------------
(* The guest frame thread: PublishFrameSnapshot.                              *)

\* The hook fires.
FrameHook ==
    /\ wpc = "idle"
    /\ wpc' = "claim"
    /\ UNCHANGED <<sharedVars, writerSlot, frameSequence, filled, readerVars>>

\* Faulty: the slot is taken without looking at its readers.
ClaimUnchecked ==
    /\ wpc = "claim"
    /\ users' = [users EXCEPT ![NextSlot] = -1]
    /\ frameSequence' = (frameSequence + 1) % SeqModulus
    /\ filled' = {}
    /\ wpc' = "fill"
    /\ UNCHANGED <<data, active, published, writerSlot, readerVars>>

\* users.compare_exchange_strong(0, -1) succeeds; the guest is read and numbered.
Claim ==
    /\ wpc = "claim"
    /\ users[NextSlot] = 0
    /\ users' = [users EXCEPT ![NextSlot] = -1]
    /\ frameSequence' = (frameSequence + 1) % SeqModulus
    /\ filled' = {}
    /\ wpc' = "fill"
    /\ UNCHANGED <<data, active, published, writerSlot, readerVars>>

\* Faulty: the writer spins until the slot is free.
SkipNever ==
    /\ wpc = "claim"
    /\ users[NextSlot] # 0
    /\ UNCHANGED vars

\* The exchange fails: the frame is not published.
Skip ==
    /\ wpc = "claim"
    /\ users[NextSlot] # 0
    /\ wpc' = "idle"
    /\ UNCHANGED <<sharedVars, writerSlot, frameSequence, filled, readerVars>>

\* slot.snapshot = state, one field of the plain assignment.
Fill(f) ==
    /\ wpc = "fill"
    /\ f \notin filled
    /\ data' = [data EXCEPT ![NextSlot][f] = frameSequence]
    /\ filled' = filled \cup {f}
    /\ wpc' = IF filled' = Fields THEN "open" ELSE "fill"
    /\ UNCHANGED <<users, active, published, writerSlot, frameSequence, readerVars>>

\* users.store(0)
Open ==
    /\ wpc = "open"
    /\ users' = [users EXCEPT ![NextSlot] = 0]
    /\ wpc' = "swing"
    /\ UNCHANGED <<data, active, published, writerSlot, frameSequence, filled,
                   readerVars>>

\* g_writer_slot belongs to this thread alone; it moves with g_active_slot.
Swing ==
    /\ wpc = "swing"
    /\ writerSlot' = NextSlot
    /\ active' = NextSlot
    /\ wpc' = "announce"
    /\ UNCHANGED <<users, data, published, frameSequence, filled, readerVars>>

Announce ==
    /\ wpc = "announce"
    /\ published' = TRUE
    /\ wpc' = "idle"
    /\ UNCHANGED <<users, data, active, writerSlot, frameSequence, filled,
                   readerVars>>

\* Everything the writer does once the hook has been entered.
WriterStep ==
    Claim \/ Skip \/ (\E f \in Fields : Fill(f)) \/ Open \/ Swing \/ Announce

-----------------------------------------------------------------------------
(* A host thread: GetPublishedSnapshot.                                       *)

Goto(r, from, to) ==
    /\ rpc[r] = from
    /\ rpc' = [rpc EXCEPT ![r] = to]

Call(r) ==
    /\ Goto(r, "idle", "check")
    /\ ok' = [ok EXCEPT ![r] = FALSE]
    /\ out' = [out EXCEPT ![r] = EmptySnapshot]
    /\ copied' = [copied EXCEPT ![r] = {}]
    /\ UNCHANGED <<sharedVars, writerVars, slot, expected>>

CheckPublished(r) ==
    /\ Goto(r, "check", IF published THEN "load" ELSE "exit")
    /\ UNCHANGED <<sharedVars, writerVars, slot, expected, copied, out, ok>>

LoadActive(r) ==
    /\ Goto(r, "load", "users")
    /\ slot' = [slot EXCEPT ![r] = active]
    /\ UNCHANGED <<sharedVars, writerVars, expected, copied, out, ok>>

\* A slot the writer owns sends the reader back to the head of the loop.
LoadUsers(r) ==
    /\ Goto(r, "users", IF users[slot[r]] < 0 THEN "load" ELSE "cas")
    /\ expected' = [expected EXCEPT ![r] = users[slot[r]]]
    /\ UNCHANGED <<sharedVars, writerVars, slot, copied, out, ok>>

\* Faulty: the reader looks at the slot without counting itself.
RegisterUncounted(r) ==
    /\ Goto(r, "cas", "recheck")
    /\ users[slot[r]] = expected[r]
    /\ UNCHANGED <<sharedVars, writerVars, slot, expected, copied, out, ok>>

Register(r) ==
    /\ Goto(r, "cas", "recheck")
    /\ users[slot[r]] = expected[r]
    /\ users' = [users EXCEPT ![slot[r]] = expected[r] + 1]
    /\ UNCHANGED <<data, active, published, writerVars, slot, expected, copied,
                   out, ok>>

\* The weak exchange fails: the count moved, or for no reason at all.
CasFails(r) ==
    /\ Goto(r, "cas", "load")
    /\ SpuriousCas \/ users[slot[r]] # expected[r]
    /\ UNCHANGED <<sharedVars, writerVars, slot, expected, copied, out, ok>>

\* Faulty: no second look at g_active_slot.
RecheckSkipped(r) ==
    /\ Goto(r, "recheck", "copy")
    /\ UNCHANGED <<sharedVars, writerVars, slot, expected, copied, out, ok>>

Recheck(r) ==
    /\ Goto(r, "recheck", IF slot[r] = active THEN "copy" ELSE "leave")
    /\ UNCHANGED <<sharedVars, writerVars, slot, expected, copied, out, ok>>

\* Faulty: a reader that found the slot stale never gives it back.
LeaveRegistered(r) ==
    /\ Goto(r, "leave", "load")
    /\ UNCHANGED <<sharedVars, writerVars, slot, expected, copied, out, ok>>

\* Faulty: the retry keeps the stale index.
LeaveToSameSlot(r) ==
    /\ Goto(r, "leave", "users")
    /\ users' = [users EXCEPT ![slot[r]] = @ - 1]
    /\ UNCHANGED <<data, active, published, writerVars, slot, expected, copied,
                   out, ok>>

\* Faulty: no continue after the registration is given back.
LeaveFallsThrough(r) ==
    /\ Goto(r, "leave", "copy")
    /\ users' = [users EXCEPT ![slot[r]] = @ - 1]
    /\ UNCHANGED <<data, active, published, writerVars, slot, expected, copied,
                   out, ok>>

Leave(r) ==
    /\ Goto(r, "leave", "load")
    /\ users' = [users EXCEPT ![slot[r]] = @ - 1]
    /\ UNCHANGED <<data, active, published, writerVars, slot, expected, copied,
                   out, ok>>

\* out = slot.snapshot, one field of the plain assignment.
CopyField(r, f) ==
    /\ f \notin copied[r]
    /\ copied' = [copied EXCEPT ![r] = @ \cup {f}]
    /\ Goto(r, "copy", IF copied'[r] = Fields THEN "release" ELSE "copy")
    /\ out' = [out EXCEPT ![r][f] = data[slot[r]][f]]
    /\ UNCHANGED <<sharedVars, writerVars, slot, expected, ok>>

Release(r) ==
    /\ Goto(r, "release", "exit")
    /\ users' = [users EXCEPT ![slot[r]] = @ - 1]
    /\ ok' = [ok EXCEPT ![r] = TRUE]
    /\ UNCHANGED <<data, active, published, writerVars, slot, expected, copied,
                   out>>

Return(r) ==
    /\ Goto(r, "exit", "idle")
    /\ UNCHANGED <<sharedVars, writerVars, slot, expected, copied, out, ok>>

\* Everything a reader does once it has called.
ReaderStep(r) ==
    \/ CheckPublished(r) \/ LoadActive(r) \/ LoadUsers(r)
    \/ Register(r) \/ CasFails(r) \/ Recheck(r) \/ Leave(r)
    \/ (\E f \in Fields : CopyField(r, f))
    \/ Release(r) \/ Return(r)

-----------------------------------------------------------------------------
Next ==
    \/ FrameHook
    \/ WriterStep
    \/ \E r \in Readers : Call(r) \/ ReaderStep(r)

Spec == Init /\ [][Next]_vars

\* The frame thread keeps running the body it has entered; no reader need move.
FairSpec == Spec /\ WF_vars(WriterStep)

\* The scheduler runs every reader that has called; nobody is made to call.
ReadersRun == \A r \in Readers : WF_vars(ReaderStep(r))

-----------------------------------------------------------------------------
(* Properties.                                                                *)

\* Readers whose registration on slot s counts in users[s].
Holders(s) ==
    {r \in Readers : slot[r] = s /\ rpc[r] \in {"recheck", "leave", "copy", "release"}}

WriterOwns(s) == wpc \in {"fill", "open"} /\ s = NextSlot

\* PublishedSlot::users is exactly the number of registered readers, or -1 while
\* the frame thread owns the slot: no path of GetPublishedSnapshot's retry loop
\* leaks or doubles a registration, and an owned slot has no reader in it.
UsersCountReaders ==
    \A s \in Slots :
        IF WriterOwns(s)
          THEN users[s] = -1 /\ Holders(s) = {}
          ELSE users[s] = Cardinality(Holders(s))

IsWhole(snapshot) == \A f, g \in Fields : snapshot[f] = snapshot[g]

\* GetPublishedSnapshot never returns true with fields of two frames: what the
\* acquire on users and the release after the copy are there for.
NoTornRead == \A r \in Readers : ok[r] => IsWhole(out[r])

\* While a reader copies, its slot keeps every field it has already copied, even
\* when the writer has since published the other slot and come back for this one.
CopyIsStable ==
    \A r \in Readers : rpc[r] \in {"copy", "release"} =>
        \A f \in copied[r] : out[r][f] = data[slot[r]][f]

\* The active slot's contents never change while it stays active: a frame is
\* composed in the other slot (g_writer_slot ^ 1) and only then made active.
ActiveSlotFrozen ==
    [][active' = active => data'[active] = data[active]]_vars

\* The comment "the guest frame writer never waits for them": once entered, the
\* hook returns whatever the readers do, a reader stopped for ever included.
WriterWaitFree == (wpc # "idle") ~> (wpc = "idle")

\* "Skipping one publication is harmless": skipped frames are never skipped for
\* ever. As long as frames keep coming and readers that called keep running, a
\* later frame is published.
FramesKeepPublishing ==
    ReadersRun /\ []<><<FrameHook>>_vars => []<><<Swing>>_vars

SomeReturn == \E r \in Readers : Return(r)

\* GetPublishedSnapshot's unbounded retry loop is lock-free: once no frame is
\* being published, readers do not keep each other from returning.
ReadersLockFree ==
    ReadersRun /\ <>[](wpc = "idle") =>
        \/ []<>(\A r \in Readers : rpc[r] = "idle")
        \/ []<><<SomeReturn>>_vars

-----------------------------------------------------------------------------
(* The exchange implements an atomic register.  A publication takes effect    *)
(* when g_active_slot moves, the first one when g_snapshot_published is set;   *)
(* a read takes effect at its second load of g_active_slot.                    *)

absLatest == IF published THEN data[active][SequenceField] ELSE 0

absPhase ==
    [r \in Readers |->
        CASE rpc[r] = "idle" -> "idle"
          [] rpc[r] \in {"copy", "release", "exit"} -> "answered"
          [] OTHER -> "called"]

absOk == [r \in Readers |-> ok[r] \/ rpc[r] \in {"copy", "release"}]

absResult ==
    [r \in Readers |->
        IF rpc[r] \in {"copy", "release"} THEN data[slot[r]] ELSE out[r]]

Atomic ==
    INSTANCE AtomicSnapshot WITH
        latest <- absLatest,
        available <- published,
        phase <- absPhase,
        ok <- absOk,
        result <- absResult

\* Reads are linearizable: GetPublishedSnapshot returns the publication that is
\* current at an instant of the call, so a thread never sees an older frame after
\* a newer one and no thread sees a frame before it is published.
ReadsAreAtomic == Atomic!Spec
=============================================================================
