# Specifications of ReRevvedRecomp

TLA+ specifications of the host side of ReRevved, the native port of a console
title: the code in `src/src/` that runs beside the recompiled guest. The guest
code itself is generated and the runtime (rexglue) is a dependency; both appear
here only as the environment the host code meets.

Contents: 1 inventory, 2 modules and how they correspond to the code, 3 runs,
4 bounds, 5 fairness, 6 proofs, 7 findings, 8 what is not modelled, 9 plan.

## 1. Inventory

| Component | Source | State | Operations |
|---|---|---|---|
| Snapshot exchange | `game_state.cpp` 55-67, 196-250 | two slots with a `users` count, `g_active_slot`, `g_snapshot_published`, the writer's own slot and sequence | `PublishFrameSnapshot` (guest frame thread), `GetPublishedSnapshot` (any host thread) |
| Guest state reader and C ABI | `game_state.cpp` 16-40, 69-194, 256-331, `api/game_state.h` | none of its own; reads the guest's memory | `ReadGuestSnapshot`, `ReRevvedGetGameplayState` |
| Presence thread | `presence.cpp` | `g_presence_running`, the thread, its `retained_gameplay`, `last_sent`, `last_publish` | `StartPresence`, `StopPresence`, `PresenceThread` |
| Presence model | `presence_model.cpp` | none | `TryBuildGameplayPresence`, `SelectPresence` |
| GFx render-caps repair | `compat_hooks.cpp` 90-104, 138-199 | per thread: the stack of query frames, the capture and the candidate; shared: the pending config and its renderer, two atomics | the Remember, Begin and End hooks |
| Ring initialization | `compat_hooks.cpp` 121-136 | a thread-local flag | the Begin and End hooks around the guest's call of `VdInitializeRingBuffer`, which resets the GPU's ring |
| Null dispatch | `compat_hooks.cpp` 113-119 | none | one conditional register assignment |
| Content verification | `game_content.cpp`, `content_manifest.inc` | none; reads the folder | `VerifyContentRoot` quick and full, with the diagnoses |
| Application startup | `app.cpp` | the paths, the selected root | `SetupEnvironment`, `OnFinalizePaths`, `OnPostSetup`, `OnWindowCloseRequested`, `OnShutdown` |
| Guest imports | `imports.cpp` | none | stubs |
| Offline tools | `scripts/` | files | trace analysis, capture, packaging |

How they interact. A midasm hook calls `PublishFrameSnapshot` on the guest's
frame thread once a frame; it reads the guest's memory and leaves a snapshot in
the exchange. Host threads, the presence thread and mods among them, take it out
through `ReRevvedGetGameplayState`. The presence thread turns it into an activity
and hands that to the Discord client, which the UI thread starts and stops around
the thread's life. The compatibility hooks run on whatever guest thread executes
the instruction they replace, so their thread-local state is private and their two
atomics are not. Startup verifies the content folder before the runtime launches
the title.

What is hard in it:

- **Interleaving.** The exchange is a hand-written lock-free double buffer with a
  plain (non-atomic) payload. The render-caps repair keeps one fact in two
  atomics and reads, tests and clears them without a lock. Several guest threads
  may pause the one GPU at once. The user may change or move the content folder
  between the selector's answer and the check.
- **Memory order.** Interleaving is not all: the exchange's payload is safe only
  if the release and acquire pairs on three other locations order its copies.
- **Order.** The first publication sets two flags; a reader that holds an old
  index may enter a slot that is already filled but not yet active.
- **Liveness.** The writer skips instead of waiting; readers spin; the UI thread
  joins a thread that sleeps; a rate limit delays what must still be sent.
- **Staleness.** The last complete activity survives some screens and must not
  survive others; a content root accepted once is used again later.
- **Partial failure.** Each guest word of a repair may fail to be written;
  each of a folder's checks may fail alone; each guest word of a snapshot may be
  unreadable, or change between two loads; the GPU may refuse to pause.
- **Numeric edges.** Guest pointers are arbitrary words whose sums wrap; unsigned
  guest words are delivered as `int32_t`, used as indices and negated for display.
- **Bounds of a reply.** The C ABI writes into a buffer whose size the caller
  states; the rejection of a folder lists only so many errors.

What makes each component correct is stated as properties in its module, and
listed with the runs in section 3.

## 2. Modules

| Module | Models | Abstracts |
|---|---|---|
| `AtomicSnapshot` | what the exchange promises: one register, a read takes effect at an instant of its call | everything else |
| `SnapshotExchange` | the exchange, one action per atomic operation | the C++ memory orders (interleaving semantics); the contents of a snapshot to the number of the frame each field came from |
| `CausalSnapshot` | what the exchange promises on a weaker memory: frames in order, reads that respect what a thread has read or was told | everything else |
| `SnapshotOrders` | the exchange on views of memory, with the order each atomic operation names | the fields of a snapshot; a failed exchange |
| `GameplayState` | the reader of the guest's memory, every path of `ReRevvedGetGameplayState`, the presence's table bounds and its year | the address space to a few pages and heaps; the contents of memory to what each load finds |
| `Presence` | the presence thread, its start and stop, and the choice of the activity | the texts to an activity's identity |
| `GfxRenderCaps` | the render-caps hooks, one action per atomic access and guest word | registers and addresses to model values |
| `RingInitialize` | the ring hooks on several guest threads | the graphics system to whether it exists and whose pause it has granted |
| `ContentCheck` | the verification, the launch and its message | file contents to what the checks tell apart; a path to whether the folder is there and whether its text contains `GFX_`; an error to its file and kind |

`MC*` modules extend these with the symmetry sets and small definitions their
configurations use. `SnapshotExchangeProofs`, `SnapshotOrdersProofs`,
`GameplayStateProofs`, `PresenceProofs`, `GfxRenderCapsProofs`,
`RingInitializeProofs` and `ContentCheckProofs` hold the theorems about the module
each is named after.

Several definitions come in two forms, the second with the comment *Faulty*: a
plausible mistake in the same piece of code (a check dropped, a count leaked, two
stores swapped). No specification uses them. Substituted for the definition they
stand beside, they make the property they are paired with fail, which shows that
the property depends on that line of the code.

### SnapshotExchange

`users`, `data`, `active`, `published` are the shared variables of the same
names in `game_state.cpp`; `writerSlot` and `frameSequence` belong to the frame
thread. `wpc`, `rpc`, `filled`, `copied`, `slot`, `expected` are program counters
and locals. `Claim`/`Skip` are the two outcomes of the writer's exchange, `Fill`
one field of `slot.snapshot = state`, `Open`, `Swing` and `Announce` its three
stores. A reader's `CheckPublished`, `LoadActive`, `LoadUsers`,
`Register`/`CasFails`, `Recheck`, `Leave`, `CopyField` and `Release` are the
operations of `GetPublishedSnapshot` in order. Plain copies go field by field in
any order, so a torn read is a behaviour of the model unless the protocol rules
it out. The store to `g_writer_slot` is joined with the store to `g_active_slot`:
no other thread reads the former.

The refinement. `Atomic` instantiates `AtomicSnapshot` with `latest` the sequence
of the active slot. A read's linearization point is its second load of
`g_active_slot`: the abstract read is answered there, and what is still to be
copied is read off the slot the reader stands in.

### SnapshotOrders

`SnapshotExchange` interleaves, so it cannot tell a relaxed store from a release.
`SnapshotOrders` runs the same protocol on views. A thread's view is what it has
been made to know: which frame's snapshot, which store to `g_active_slot`, which to
`g_snapshot_published`, and which copies of the readers are over. A load may
return any store its thread does not know superseded; what it learns with it is
what the store's order released and the load's order acquires. Each operation's
order is a definition of its own (`ClaimOrder`, `OpenOrder`, `SwingOrder`,
`AnnounceOrder`, `CheckOrder`, `LoadOrder`, `RegisterOrder`, `RecheckOrder`,
`LeaveOrder`, `ReleaseOrder`), so that one of them can be weakened alone. `users`
is changed by read-modify-writes of several threads, so an unregistration keeps
what earlier ones released.

A plain copy of the snapshot is a race when no view orders it after the other
thread's: `CopiesAfterFills` says it of a reader's copy, `FillsAfterCopies` of the
frame thread's. `Causal` instantiates `CausalSnapshot` with what each reader knows
of the active frame. `Tell` is one host thread synchronising with another by its
own means, without which a thread could only be compared with itself.

The views have no load buffering and no values out of thin air. The relaxed load of
`users` in `GetPublishedSnapshot` may be stale; a stale value only makes the
exchange fail, which is `Retry`.

### GameplayState

Each block of `ReadGuestSnapshot` is one action: `ReadFrontend`, `ReadTurnOwner`,
`ReadPlayer`/`SkipPlayer`, `ReadInterface`, `SetAvailable`; `NumberFrame` is
`++g_frame_sequence`, which numbers the snapshot, also when there is no runtime to read
from. No snapshot field is
loaded twice, so the content of the guest's memory need not be a variable: a load
of an accessible word finds any number, which covers every memory and every
change another guest thread makes to it meanwhile. The accessible bytes are
chosen at the hook and fixed until it returns. `HeapOf` and `HasAccess` stand for
the runtime's heaps and `QueryRangeAccess`. `IsGuestReadableRange` is the range
test with its wrap-around; `Out` is what `ReRevvedGetGameplayState` makes of a
published snapshot. `GetGameplayState` is the whole call: a null or short buffer, no
snapshot yet, or an answer, each with the bytes of the caller's buffer it writes. A
published snapshot of which nothing could be read is answered with the same fields as
no snapshot, but with its `frame_sequence` and with success.
`TryBuildGameplayPresence` is the guard in front of the presence's table lookups,
and `FormatYear` what the texts make of the year: its magnitude and its calendar.

### Presence

The game's thread, the UI thread and the presence thread each have their steps.
A poll of the exchange is one step, which `ReadsAreAtomic` justifies. Time is a
count of poll intervals, saturating at the publish interval. A screen is what
`SelectPresence` tells apart: no snapshot, an unreadable frontend, a known menu,
gameplay with a closed gate, a playable turn. A menu shorter than a poll interval may
pass unseen; `RetainedIsCurrent` speaks of the menus that were polled, so it does not
say that an old game's activity is never shown in the next one.

### GfxRenderCaps

A guest thread runs queries, nested up to `MaxDepth`; each calls the Begin hook,
GFx's own function and the End hook. A thread's `queries` is its stack of query
frames. The End hook goes through its loads, tests,
writes and stores one at a time. What GFx returns (success or failure, valid caps or none) and
whether a guest word can be written are choices of the environment.

### ContentCheck

There is one content folder, at one of `Paths` or nowhere. It holds the executable,
the update and `Resources`, each in one of the states the checks tell apart. The user
edits and moves it between launches, while the selector is open, and between the
selector's answer and the check of `OnFinalizePaths`: the folder that was selected need
not be the one that is checked, and `EditFolder` stops only where the check reads the
folder. The check is one step, and a running title's folder is left alone. The quick
check looks at presence and size, the full check at contents; the diagnosis that
turns a mismatch into a message is modelled, as a mismatch that nothing describes
would be accepted. `Messages` is what `OnFinalizePaths` shows of the errors: the first
few, how many more, and the hint about the GFX files. The code looks for `GFX_` in the
text of every error, and the error about a missing folder quotes its path: such a path
gives the hint although no file has been looked at, which `GfxPaths` keeps apart and
`RejectionTellsAll` states. The application never requests the full check;
`FullCheckIsExact` is about what `game_content.h` offers.

### RingInitialize

Each guest thread is in other guest code, in the bracket before the call of
`VdInitializeRingBuffer` has returned (`paused`) or after it (`reset`); `resume` is its
thread-local `resume_after_ring_initialize`. The graphics system may not exist yet, may
be gone by the time of the End hook, and may refuse a pause. Nothing is assumed of what
it does with two pauses: `granted` remembers whose pause it has granted and who has not
called `ResumeGpu` since. So the properties say that the hooks pair each granted pause
with one resume of the same thread, and not that the GPU is paused under every reset:
whether one thread's `ResumeGpu` restarts it under another's reset is the SDK's to decide,
and a thread that was refused its pause resets the ring of a GPU it did not pause.

## 3. Runs

| Run | Question | Properties |
|---|---|---|
| `exchange_safety` | two readers and the writer, every interleaving | `UsersCountReaders`, `NoTornRead`, `CopyIsStable`, `ActiveSlotFrozen`, `ReadsAreAtomic` (refinement) |
| `exchange_progress` | does the frame hook return when readers may stop anywhere; does skipping starve publication; is the retry loop lock-free? | `WriterWaitFree`, `FramesKeepPublishing`, `ReadersLockFree` |
| `exchange_orders` | the memory orders the code names: is the payload free of races, do reads go back in time? | `NoDataRace`, `ReadsAreCausal` (refinement) |
| `state_reader` | every content of the guest's memory, every set of accessible pages and every caller's buffer: what do the flags of a snapshot vouch for, and what does the caller get? | `ReadableRangeIsExact`, `PlayerFieldsAreHumans`, `AvailableMeansPlayable`, `ClearMeansUnknown`, `PresenceIsSupported`, `RepliesFitTheCaller`, `YearsAreReadable` |
| `presence_session` | start, poll, publish, close and shutdown in every order; does stopping terminate; does the rate limit lose an activity? | `StoppedIsQuiet`, `RetainedIsCurrent`, `ShownIsLastSent`, `CalledInSession`, `StopReturns`, `Converges` |
| `caps_threads` | two guest threads in the End hook at once, with guest writes that fail | `CapsAreOwn`, `OnlyFailedRetained`, `ClearsFollowRepairs` |
| `caps_overwrite`, `caps_nesting`, `caps_race` | what the documentation says of the pending config (findings) | `RetainedUntilValidCaps`, `NestedStayOut`, `ClearsOnlyRepaired` |
| `ring_threads` | three guest threads in the bracket while the graphics system comes and goes | `PausesAreOwed`, `NoStrayResume`, `PausesAreAnswered` |
| `content_launch` | every history of edits, moves, selections and launches | `RunsComplete`, `SelectedRootIsChecked`, `FullCheckIsExact`, `RejectionTellsAll` |
| `content_modified` | what the documentation says of the check at launch (finding) | `DeepValidated` |

Each passing run also checks its module's `TypeOK` where it checks invariants.

What `exchange_orders` shows of the single orders. With any one of these weakened to
relaxed, a property fails: the acquire of the frame thread's claim, the release that
opens the slot, the release of the announcement, the acquire of a reader's first load
of `g_snapshot_published`, the acquire of its registration, the release after its
copy. With any one of these weakened, none of the three properties fails: the release
of the store to `g_active_slot`, the acquire of either load of it, the release of an
unregistration without a copy. They are covered by their neighbours: what a reader
needs to know of a slot it gets from the slot's own `users`.

## 4. Bounds

- *Exchange*: two readers, two fields, sequence numbers modulo 3. Two readers
  make every pair of concurrent registrations; a third can only repeat what one of
  the two does to a slot's count. Two fields are what a torn read needs. Modulo 3
  tells apart the frame in the slot, the one before and the one after, and makes
  the wrap-around happen; the theorems of section 6 hold for every number of
  readers, every set of fields and every modulus.
- *State reader*: 32 addresses and two-byte words; a null page at each end, four
  heaps, two of which meet at 26, with gaps that belong to none at 22 and at 27,
  six pages each accessible or not, laid out so that words
  lie inside a page, across two pages, across two heaps and in or across a gap. Two
  frames (`MaxFrames`) are numbered, so that a snapshot follows another and the first is
  told from none; after them the hook no longer fires and the run stops, hence
  `CHECK_DEADLOCK FALSE` in its configuration. Two players in the
  arrays and four bits in the mask keep the gap between the array bound (6) and
  the mask width (32). The stored numbers are the edges: 0, the keys, the first
  index past each table, and the words that convert to -1 and to the most negative
  number. A structure of five bytes meets buffers of none, one, one too few, its
  size and one more.
- *Presence*: two games of two turns give a retained activity, a stale one and a
  new game with the same turn number. The publish interval is five polls, as in the
  code. Safety and liveness are checked on the same instance.
- *Memory orders*: two readers of two calls each and four frames. Four frames use
  each slot twice, so a slot is stored into after its copies and copied after it is
  stored into again; two calls compare a thread with its own past. The theorems hold
  for every number of each.
- *Render caps*: two threads, two renderers, three configs: one pending, one
  being repaired, one that takes its place. Nesting has its own run.
- *Content*: two resource files stand for the 88 of the manifest, one of them a GFX
  file: the code treats the rest alike, and one may be damaged while the other is
  whole. Two paths, one with `GFX_` in its text, let the folder move away from the
  remembered root and back. Two errors are shown of several, so a message can leave some out.
- *Ring*: three threads, so that one leaves the bracket while another is in it and a
  third enters.

## 5. Fairness

- `exchange_progress` assumes, in its specification `FairSpec`, only that the frame
  thread keeps executing the hook it has entered. `WriterWaitFree` has no other
  premise: readers may stop anywhere. `FramesKeepPublishing` and `ReadersLockFree`
  have `ReadersRun` as a premise, weak fairness of each reader that has called: the
  host schedules its threads. Nobody is obliged to call, and frames are obliged to
  come only in the premise of `FramesKeepPublishing`. The run sets `SpuriousCas` to `FALSE`:
  on the x86-64 hosts the project builds for a weak compare-exchange is `lock
  cmpxchg`, which never fails without cause. The safety run sets it to `TRUE`.
- `presence_session` assumes that the clock advances and that both threads run
  what they have entered. The game is under no obligation.
- `ring_threads` assumes that a thread in the bracket leaves it: the bracketed call of
  `VdInitializeRingBuffer` returns and the two hooks do not wait. Nobody is obliged to enter, and the
  graphics system may never come or go.

## 6. Proofs

Seven modules hold proofs. Each theorem is for every value of the constants that
satisfies the assumptions of the module it is about: `ExchangeAssumption`,
`OrdersAssumption`, `GameplayAssumption` and `HeapAssumption`, `PresenceAssumption`,
`CapsAssumption` and `NoneAssumption`, `ContentAssumption`; `RingInitialize` needs none. Every
one of them rests on an inductive invariant that its module proves.

### The exchange

`SnapshotExchangeProofs` proves, for every finite set of readers, every set of
fields, every sequence modulus and with or without spurious failures:
`TypeCorrect`, `UsersExact`, `ReadsWhole`, `CopiesStable`, `ActiveFrozen` and
`Linearizable` (`Spec => ReadsAreAtomic`, the refinement). The only assumption is
`ExchangeAssumption`.

The argument. None of the properties is inductive alone. The inductive invariant
`IInv` joins the shapes of the variables (`Shapes`, which leaves the range of `users`
open; that no count falls below -1 needs the whole invariant, so `TypeCorrect` follows
it) and:

- `UsersCountReaders`, the ownership discipline: `users` is the number of
  registered readers, or -1 with none while the writer owns the slot. It needs a
  fact about cardinality: one reader more or less changes the count by one.
- `ReaderControl`: a reader that copies has been seen in a slot after publication
  and holds a registration, and which fields it has copied at each point.
- `SlotsWhole` and `FrameNumbering`: every slot the writer does not own holds all
  fields of one frame, and what the writer has filled so far is the frame it is
  numbering.
- `CopyIsStable`: since a registration keeps the writer out, what was copied from
  the slot is still there. With the previous part it gives `NoTornRead`.

The subtle case is the reader that takes a stale index and registers in the
inactive slot between the writer's `Open` and `Swing`: its second load sees the
slot active and it copies the new frame. It is a correct read, and the proof has
to know that the slot is whole from `Open` on, not from `Swing` on.

Three further theorems say what bounds the loops, without fairness; they assume that
`Fields` is finite. `HookReturns`: `WriterLeft` counts the steps the hook has left; each
step of the hook lowers it and no reader changes it, so the hook takes at most four steps
more than a snapshot has fields. `SkipsHaveAReader`: a frame is skipped only while a
reader is registered in the slot it would go to; it rests on `UsersCountReaders`.
`RetriesEnd`: while the frame thread is outside its hook, a reader's step lowers its own
`Left`, never raises its `Turns` and lowers them when it changes a count; it leaves the
`Turns` of the other readers alone, and their `Left` too unless it changes a count. So
while nothing is published, the `Turns` of the calls in progress bound how often one
reader can send another back to the start of its loop. A spurious failure of the weak
exchange is the one step it exempts.

### The exchange on the memory orders

`SnapshotOrdersProofs` proves `TypeCorrect`, `NoRace` (`Spec => []NoDataRace`) and
`ReadsCausal` (`Spec => ReadsAreCausal`, the refinement of `CausalSnapshot`) for every
finite set of readers and every number of frames and calls. `NoDataRace` is not
inductive: a race is ruled out by what travelled with `users` long before. `IInv`
joins:

- `CountOK`: the count of a slot is the number of readers in it, or -1 with none
  while the frame thread owns it.
- `SlotOK`: what a slot's `users` would release to the next to enter. It contains
  every finished copy of that slot, the store of the slot's frame, and the
  publication of the frame before. While the slot is owned the frame thread
  itself knows of the copies.
- `WriterOK` and `MsgOK`: what the frame thread knows, and what its stores carry.
- `ReaderOK`: a reader in a slot knows of the frame stored in it, and of the
  publication of the one before.

The last clause is what makes the second look at `g_active_slot` decide. Frames of
one slot are two apart (`SameSlot`). A reader in a slot with frame n knows of frame
n - 1, so it cannot see n - 2 as active; if it sees its own slot, it sees frame n.

`AnswersNeverGoBack` draws from the refinement what one host thread can rely on:
its answers are published frames in order, and no frame is followed by a refusal. It is
proved from the steps of `CausalSnapshot`, so it holds of whatever implements it with
these types; inductive is `KnownInOrder`, by which no answer is newer than what its
thread knows.

### The guest state reader

`GameplayStateProofs` proves `ReadableRangeExact` (the range test accepts exactly
the readable ranges; it needs only that each heap is an interval, with any gaps between
them that belong to none, and that the guest's
memory ends at least a word before the address space does) and the state
properties, `RepliesFit` and `YearsReadable` among them. `IInv` joins `TypeOK` with
one part per block: `FrontendSound`,
`OwnerSound`, `PlayerSound`, `InterfaceSound` and `AvailableSound` say, of every
point after the block, how its flags and fields hang together, and that blocks not
yet reached still hold their defaults; `FrameNumbered` says that a published snapshot has
its number, which is what tells it from none in `RepliesFit`.
`AvailableMeansPlayable` needs the parts of all blocks,
as the flag is set from fields read in four blocks.

### The presence

`PresenceProofs` proves `TypeCorrect`, `StopIsQuiet`, `RetainedCurrent`,
`ShownLastSent` and `CalledWhileOn`. The properties are not inductive without

- `Lifecycle`: each step of the UI thread determines the running flag, whether the
  client has a session, and which states the presence thread can be in;
- `PolledGames`: what the thread has polled belongs to a game that has begun, and
  the menu it polled last lies before the game in progress;
- `ScreenMatches` and `InGameCounts`: a playable turn is only published in a game.

Four theorems are the parts of the liveness properties that need no fairness.
`JoinBounded`: once the running flag is down the presence thread has at most three steps
left (`StepsToDone`), and nobody else adds to them. `OnlyRateHoldsBack`: a publication
with the interval expired leaves the client with what was polled.
`SettledActivityStays`: what is shown and would be polled again stays shown. `PublishedIsComplete`: between a poll and its
publication the game goes on, but what is published is the last complete activity, of a
game begun after the last menu polled (`PolledStands`).

### The render-caps repair

`GfxRenderCapsProofs` proves for any threads, renderers, configs and outputs and any
depth of nesting `TypeCorrect` and `ClearsPaid` (`Spec => ClearsFollowRepairs`): only
`ClearConfig` drops the pending config, and `HookInv` says of a thread on its way to it
that both words of the config it loaded are written. `NoneAssumption` keeps the null
pointer out of the captures and locals.

With nesting, the end of an inner query is taken for the outer one's (finding 2). What
still holds, and under which condition on GFx, is

- `CapsOwn`: `Spec => ([]OneOwnerPerOutput => []CapsAreOwn)`. The wrong End still acts on
  an output that the thread is using, so the caps in it are the observed renderer's unless
  the inner query wrote another renderer's there. `OneOwnerPerOutput` excludes that:
  queries on one thread's stack that share an output ask the same renderer. `OwnInv` ties
  the capture to a query on the stack and keeps the outputs of two threads apart.
- `OnlyFailed`: `Spec => ([]ConfigQueriesAreLeaves => []OnlyFailedRetained)`: the query of
  a set-up makes no query of its own, whatever it is nested in. `RetainInv` ties an
  observed set-up query to its candidate, `SetUpInv` the candidate to its status.

Each condition is needed: with `MaxDepth = 2` and without it TLC finds both properties
violated. Whether GFx meets them cannot be told from the sources. Queries that do not nest
meet both (`OneQuery`), hence `WithoutNesting`, which is the instance `caps_threads`
checks.

### The ring initialization

`RingInitializeProofs` proves `TypeCorrect`, `PausesOwed` and `NoStray` for every set of
threads. `FlagsAreHeld` is what is missing: only a thread in the bracket holds
the flag, and none before there is a graphics system. With it, `Begin` and `End` move
their own thread in and out of both `granted` and `Owing` and no other. `QuietAnswered`
follows: with no thread in the bracket no granted pause is unanswered, which is what
`PausesAreAnswered` comes down to once every thread has left it.

### The content check

`ContentCheckProofs` proves `CompleteRuns`, `SelectionIsChecked`, `FullExact` and
`RejectionTells` for every finite set of required files. `Selected` says that a
launch with a root checks that root and no other, `Checked` that the recorded errors
still describe the folder; neither says that the folder is as the selector left it. The lemmas reduce the two depths of the check to what they ask of each
file; that every diagnosis names a reason (`DiagnosisNamesBase`,
`DiagnosisNamesUpdate`) is what keeps a mismatch from passing. That the errors name
exactly the deficient files is `ErrorsNameDeficient`. `SupportedFolderRuns` compares
the two depths: a folder that the full check would accept is never turned away at launch.
The converse is finding 4.

### Only model-checked

The liveness properties `WriterWaitFree`, `FramesKeepPublishing`, `ReadersLockFree`,
`StopReturns`, `Converges` and `PausesAreAnswered`: the prover has no `ENABLED`. The counts and
stable states they rest on are proved (`HookReturns`, `SkipsHaveAReader`, `RetriesEnd`,
`JoinBounded`, `OnlyRateHoldsBack`, `SettledActivityStays`, `QuietAnswered`). That single
memory orders may be weakened (section 3) is model-checked for two readers. The findings
are runs.

## 7. Findings

1. `caps_overwrite`: the pending config is dropped when another config's query
   fails; the hook's comment promises to keep it until its renderer supplies caps.
2. `caps_nesting`: the end of a nested query is taken for the outer one's, so a
   nested query does enter the repair path, contrary to `docs/scaleform-gfx.md`.
3. `caps_race`: with two guest threads in the End hook, the unconditional clear
   after a repair removes a config that was retained meanwhile.
4. `content_modified`: launching from a remembered or explicit root runs the
   quick check only; the packaged README and `docs/rexglue-runtime.md` describe a
   deep check before launch.

## 8. Not modelled

- Memory beyond views: load buffering, and the dependency orders of the hardware. The
  render-caps hooks interleave; a stale value of one of their two acquire/release
  atomics is not modelled.
- The wording of messages, titles and presence texts; the version, window title and
  default cvars of `app.h` and `app.cpp`, which no other code reads.
- `ReadBytes` and `FindOptionalHeader` of the content check only read; they are
  abstracted to the header fields they find.
- `NullOptionalDispatch`: one conditional assignment to a register of the guest,
  without state. `imports.cpp`: stubs without state. The hook and function tables are
  input of the recompiler.
- When GFx frees a config, whether the guest frees its objects off the frame thread,
  and what the GPU does with two pauses and one resume: none can be told from
  the sources, nor whether GFx nests queries that share an output.
- Edits of the content folder in the middle of the check, and while the title runs.
- The trace analyzer and the scripts (`scripts/`): offline tools around the program.
  The capture script's timed wait races the exit of the probe it then kills; the probe
  belongs to the runtime, so its side of the race is not in these sources.

## 9. Plan

Done, in this order: the exchange with its abstract specification and proofs, the
presence, the render-caps repair, the content check, the guest state reader and the
proofs about these; then the exchange on its memory orders with a second abstract
specification, the C ABI's replies and the year of the texts, the message of a
rejected folder, the ring hooks, and the proofs about all of them and about the
render-caps repair.

The proofs then went on to nested queries, to the counts behind the liveness
properties, to the order of one thread's answers and to the agreement of the two depths of
the content check.

Next:

1. `SnapshotOrders` with the orders that section 3 finds unneeded relaxed, proved for any
   number of readers.
2. `AtomicSnapshot` as an implementation of `CausalSnapshot`, for frame numbers that do
   not wrap.
3. The publication interval of `Presence` against the client's own rate limit.
4. The trace analyzer's packet reader.
