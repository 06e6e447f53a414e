--------------------------- MODULE SnapshotOrders ---------------------------
(* The same exchange as SnapshotExchange on the memory the code asks for:     *)
(* src/game_state.cpp names acquire, release or relaxed at every atomic        *)
(* operation, and a load may return any store its thread has not been made to *)
(* know superseded.  A view is what a thread has been made to know; a store    *)
(* carries the view its order releases, a load takes over the view its order   *)
(* acquires, and a read-modify-write keeps the views already released to its   *)
(* location.  Copies of the Snapshot are plain: two of them that no view        *)
(* orders are a data race.                                                     *)
(* Each publication flips g_writer_slot, so frame n is composed in slot n % 2   *)
(* and each location has one store per frame, numbered by it.                  *)
EXTENDS Integers, Sequences, FiniteSets

CONSTANTS
    Readers,    \* host threads
    MaxFrames,  \* bound: frames published
    MaxCalls    \* bound: calls of one reader

ASSUME OrdersAssumption ==
    IsFiniteSet(Readers) /\ MaxFrames \in Nat /\ MaxCalls \in Nat

VARIABLES
    frame,      \* g_frame_sequence: frames claimed so far
    wpc,        \* where the guest frame thread is
    wview,      \* what it knows
    users,      \* per slot: the last store to PublishedSlot::users
    activeMsg,  \* per frame: the view its store to g_active_slot released
    publishedMsg,  \* per frame: the view its store to g_snapshot_published released
    rpc,        \* where each reader is
    slot,       \* per reader: slot_index
    rview,      \* per reader: what it knows
    answers     \* per reader: the frames its calls returned, in order

writerVars == <<frame, wpc, wview, activeMsg, publishedMsg>>
vars == <<writerVars, users, rpc, slot, rview, answers>>

Slots == {0, 1}
SlotOf(n) == n % 2
Frames == 0 .. MaxFrames

\* Stores known: of a frame's snapshot, its slot index, its announcement; and per
\* reader the number of its calls whose copy is known to be over.
Views == [fill : Frames, active : Frames, published : Frames,
          copies : [Readers -> 0 .. MaxCalls]]

Nothing == [fill |-> 0, active |-> 0, published |-> 0,
            copies |-> [r \in Readers |-> 0]]

Later(m, n) == IF m > n THEN m ELSE n

Join(v, w) ==
    [fill |-> Later(v.fill, w.fill),
     active |-> Later(v.active, w.active),
     published |-> Later(v.published, w.published),
     copies |-> [r \in Readers |-> Later(v.copies[r], w.copies[r])]]

Unavailable == -1

TypeOK ==
    /\ frame \in Frames
    /\ wpc \in {"idle", "fill", "open", "swing", "announce"}
    /\ wview \in Views
    /\ users \in [Slots -> [count : Nat \cup {-1}, view : Views]]
    /\ activeMsg \in [Frames -> Views]
    /\ publishedMsg \in [Frames -> Views]
    /\ rpc \in [Readers -> {"idle", "load", "register", "recheck", "leave", "copy"}]
    /\ slot \in [Readers -> Slots]
    /\ rview \in [Readers -> Views]
    /\ answers \in [Readers -> Seq(Frames \cup {Unavailable})]
    /\ \A r \in Readers : Len(answers[r]) <= MaxCalls

Init ==
    /\ frame = 0
    /\ wpc = "idle"
    /\ wview = Nothing
    /\ users = [s \in Slots |-> [count |-> 0, view |-> Nothing]]
    /\ activeMsg = [n \in Frames |-> Nothing]
    /\ publishedMsg = [n \in Frames |-> Nothing]
    /\ rpc = [r \in Readers |-> "idle"]
    /\ slot = [r \in Readers |-> 0]
    /\ rview = [r \in Readers |-> Nothing]
    /\ answers = [r \in Readers |-> <<>>]

\* Frames whose store to g_active_slot, to g_snapshot_published, has been made.
Swung == IF wpc \in {"fill", "open", "swing"} THEN frame - 1 ELSE frame
Announced == IF wpc = "idle" THEN frame ELSE frame - 1

\* The last frame stored, or being stored, in slot s; 0 for none.
Content(s) == IF SlotOf(frame) = s THEN frame ELSE Later(frame - 1, 0)

-----------------------------------------------------------------------------
(* The order each atomic operation names: what its store releases of the      *)
(* view v, and what view its thread goes on with after reading a store that    *)
(* released m.                                                                 *)

ReleaseView(v) == v
AcquireView(v, m) == Join(v, m)

ClaimOrder(v, m) == AcquireView(v, m)
OpenOrder(v) == ReleaseView(v)
SwingOrder(v) == ReleaseView(v)
\* Faulty: the announcement releases nothing.
AnnounceOrderRelaxed(v) == Nothing
AnnounceOrder(v) == ReleaseView(v)
CheckOrder(v, m) == AcquireView(v, m)
LoadOrder(v, m) == AcquireView(v, m)
RegisterOrder(v, m) == AcquireView(v, m)
RecheckOrder(v, m) == AcquireView(v, m)
LeaveOrder(v) == ReleaseView(v)
\* Faulty: the reader's copy is not released with its registration.
ReleaseOrderRelaxed(v) == Nothing
ReleaseOrder(v) == ReleaseView(v)

-----------------------------------------------------------------------------
(* The guest frame thread: PublishFrameSnapshot.  A failed exchange returns    *)
(* with nothing changed, which is a stuttering step.                           *)

Claim ==
    LET s == SlotOf(frame + 1)
    IN  /\ wpc = "idle" /\ frame < MaxFrames
        /\ users[s].count = 0
        /\ users' = [users EXCEPT ![s].count = -1]
        /\ wview' = ClaimOrder(wview, users[s].view)
        /\ frame' = frame + 1
        /\ wpc' = "fill"
        /\ UNCHANGED <<activeMsg, publishedMsg, rpc, slot, rview, answers>>

\* The plain assignment of the snapshot ends; it is in progress since the claim.
Fill ==
    /\ wpc = "fill"
    /\ wview' = [wview EXCEPT !.fill = frame]
    /\ wpc' = "open"
    /\ UNCHANGED <<frame, users, activeMsg, publishedMsg, rpc, slot, rview, answers>>

Open ==
    /\ wpc = "open"
    /\ users' = [users EXCEPT ![SlotOf(frame)] =
                    [count |-> 0, view |-> OpenOrder(wview)]]
    /\ wpc' = "swing"
    /\ UNCHANGED <<frame, wview, activeMsg, publishedMsg, rpc, slot, rview, answers>>

Swing ==
    /\ wpc = "swing"
    /\ wview' = [wview EXCEPT !.active = frame]
    /\ activeMsg' = [activeMsg EXCEPT ![frame] = SwingOrder(wview')]
    /\ wpc' = "announce"
    /\ UNCHANGED <<frame, users, publishedMsg, rpc, slot, rview, answers>>

Announce ==
    /\ wpc = "announce"
    /\ wview' = [wview EXCEPT !.published = frame]
    /\ publishedMsg' = [publishedMsg EXCEPT ![frame] = AnnounceOrder(wview')]
    /\ wpc' = "idle"
    /\ UNCHANGED <<frame, users, activeMsg, rpc, slot, rview, answers>>

-----------------------------------------------------------------------------
(* A host thread: GetPublishedSnapshot.                                       *)

Goto(r, from, to) ==
    /\ rpc[r] = from
    /\ rpc' = [rpc EXCEPT ![r] = to]

\* Which store of g_snapshot_published a call sees; the initial one holds FALSE.
CheckPublished(r) ==
    /\ Len(answers[r]) < MaxCalls
    /\ \E n \in rview[r].published .. Announced :
          /\ rview' = [rview EXCEPT ![r] =
                          CheckOrder([@ EXCEPT !.published = n], publishedMsg[n])]
          /\ Goto(r, "idle", IF n = 0 THEN "idle" ELSE "load")
          /\ answers' = IF n = 0
                          THEN [answers EXCEPT ![r] = Append(@, Unavailable)]
                          ELSE answers
    /\ UNCHANGED <<writerVars, users, slot>>

LoadActive(r) ==
    /\ Goto(r, "load", "register")
    /\ \E n \in rview[r].active .. Swung :
          /\ slot' = [slot EXCEPT ![r] = SlotOf(n)]
          /\ rview' = [rview EXCEPT ![r] =
                          LoadOrder([@ EXCEPT !.active = n], activeMsg[n])]
    /\ UNCHANGED <<writerVars, users, answers>>

\* Faulty: the reader does not count itself.
RegisterUncounted(r) ==
    /\ Goto(r, "register", "recheck")
    /\ users[slot[r]].count >= 0
    /\ rview' = [rview EXCEPT ![r] = RegisterOrder(@, users[slot[r]].view)]
    /\ UNCHANGED <<writerVars, users, slot, answers>>

\* The relaxed load found the count the exchange then found unchanged.
Register(r) ==
    /\ Goto(r, "register", "recheck")
    /\ users[slot[r]].count >= 0
    /\ users' = [users EXCEPT ![slot[r]].count = @ + 1]
    /\ rview' = [rview EXCEPT ![r] = RegisterOrder(@, users[slot[r]].view)]
    /\ UNCHANGED <<writerVars, slot, answers>>

\* The relaxed load found -1 or an old count, or the weak exchange just failed.
Retry(r) ==
    /\ Goto(r, "register", "load")
    /\ UNCHANGED <<writerVars, users, slot, rview, answers>>

Recheck(r) ==
    /\ \E n \in rview[r].active .. Swung :
          /\ Goto(r, "recheck", IF SlotOf(n) = slot[r] THEN "copy" ELSE "leave")
          /\ rview' = [rview EXCEPT ![r] =
                          RecheckOrder([@ EXCEPT !.active = n], activeMsg[n])]
    /\ UNCHANGED <<writerVars, users, slot, answers>>

Unregister(r, released) ==
    users' = [users EXCEPT ![slot[r]] =
                 [count |-> @.count - 1, view |-> Join(@.view, released)]]

Leave(r) ==
    /\ Goto(r, "leave", "load")
    /\ Unregister(r, LeaveOrder(rview[r]))
    /\ UNCHANGED <<writerVars, slot, rview, answers>>

\* The plain copy, in progress since the second look, ends and is given back.
Release(r) ==
    /\ Goto(r, "copy", "idle")
    /\ rview' = [rview EXCEPT ![r].copies[r] = Len(answers[r]) + 1]
    /\ Unregister(r, ReleaseOrder(rview'[r]))
    /\ answers' = [answers EXCEPT ![r] = Append(@, Content(slot[r]))]
    /\ UNCHANGED <<writerVars, slot>>

\* Host threads synchronise between calls, by a lock or a queue of their own.
Tell(q, r) ==
    /\ q # r /\ rpc[q] = "idle" /\ rpc[r] = "idle"
    /\ rview' = [rview EXCEPT ![r] = Join(@, rview[q])]
    /\ UNCHANGED <<writerVars, users, rpc, slot, answers>>

-----------------------------------------------------------------------------
WriterStep == Claim \/ Fill \/ Open \/ Swing \/ Announce

ReaderStep(r) ==
    \/ CheckPublished(r) \/ LoadActive(r) \/ Register(r) \/ Retry(r)
    \/ Recheck(r) \/ Leave(r) \/ Release(r)

Next ==
    \/ WriterStep
    \/ \E r \in Readers : ReaderStep(r)
    \/ \E q, r \in Readers : Tell(q, r)

Spec == Init /\ [][Next]_vars

-----------------------------------------------------------------------------
(* Properties.                                                                *)

\* A reader copies a slot only when it knows of every frame stored in it, one
\* being stored included.
CopiesAfterFills ==
    \A r \in Readers : rpc[r] = "copy" => Content(slot[r]) <= rview[r].fill

\* The frame thread stores into a slot only when it knows that every copy taken
\* of it is over.
FillsAfterCopies ==
    wpc = "fill" => \A r \in Readers :
        /\ rpc[r] = "copy" => slot[r] # SlotOf(frame)
        /\ \A k \in DOMAIN answers[r] :
              answers[r][k] >= 0 /\ SlotOf(answers[r][k]) = SlotOf(frame)
                  => k <= wview.copies[r]

\* The plain copies of PublishedSlot::snapshot never race, on the orders the code
\* names and not on interleaving: nothing in GetPublishedSnapshot is undefined.
NoDataRace == CopiesAfterFills /\ FillsAfterCopies

Causal ==
    INSTANCE CausalSnapshot WITH
        latest <- Swung,
        known <- [r \in Readers |-> rview[r].active]

\* Reads are causal: no call returns an older frame than its thread has read or
\* has been told of, none returns a frame never published, and once a frame is
\* known to a thread, none is refused.
ReadsAreCausal == Causal!Spec
=============================================================================
