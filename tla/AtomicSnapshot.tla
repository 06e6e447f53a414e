--------------------------- MODULE AtomicSnapshot ---------------------------
(* What the snapshot exchange of game_state.cpp promises its callers: a       *)
(* register written by the guest frame thread and read by any number of host  *)
(* threads.  A publication and a read each take effect at one instant; a read *)
(* returns the whole of the publication that is current at an instant of the  *)
(* call, and fails only at an instant at which nothing has been published.    *)
EXTENDS Naturals

CONSTANTS
    Readers,      \* host threads that call ReRevvedGetGameplayState
    Fields,       \* the fields of a Snapshot
    SeqModulus    \* frame_sequence is an unsigned counter modulo this number

VARIABLES
    latest,       \* frame_sequence of the current publication
    available,    \* whether anything has been published
    phase,        \* per reader: "idle", "called" or "answered"
    ok,           \* per reader: the boolean the last read returned
    result        \* per reader: the snapshot the last successful read returned

vars == <<latest, available, phase, ok, result>>

\* The snapshot published with sequence number n: every field of frame n.
FrameOf(n) == [f \in Fields |-> n]

Init ==
    /\ latest = 0
    /\ available = FALSE
    /\ phase = [r \in Readers |-> "idle"]
    /\ ok = [r \in Readers |-> FALSE]
    /\ result = [r \in Readers |-> FrameOf(0)]

Publish ==
    /\ latest' = (latest + 1) % SeqModulus
    /\ available' = TRUE
    /\ UNCHANGED <<phase, ok, result>>

Call(r) ==
    /\ phase[r] = "idle"
    /\ phase' = [phase EXCEPT ![r] = "called"]
    /\ ok' = [ok EXCEPT ![r] = FALSE]
    /\ result' = [result EXCEPT ![r] = FrameOf(0)]
    /\ UNCHANGED <<latest, available>>

\* The instant at which the read takes effect.
Observe(r) ==
    /\ phase[r] = "called"
    /\ phase' = [phase EXCEPT ![r] = "answered"]
    /\ ok' = [ok EXCEPT ![r] = available]
    /\ result' = IF available
                   THEN [result EXCEPT ![r] = FrameOf(latest)]
                   ELSE result
    /\ UNCHANGED <<latest, available>>

Return(r) ==
    /\ phase[r] = "answered"
    /\ phase' = [phase EXCEPT ![r] = "idle"]
    /\ UNCHANGED <<latest, available, ok, result>>

Next ==
    \/ Publish
    \/ \E r \in Readers : Call(r) \/ Observe(r) \/ Return(r)

Spec == Init /\ [][Next]_vars
=============================================================================
