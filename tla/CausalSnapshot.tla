--------------------------- MODULE CausalSnapshot ---------------------------
(* What the published game state promises to host threads on a machine that   *)
(* only orders what release and acquire order: frames are published in order, *)
(* and a thread is answered a published frame no older than any frame it      *)
(* knows of, whether it read that frame itself or was told of it by a thread  *)
(* that had.  Only a thread that knows of no frame may be told there is none. *)
EXTENDS Integers, Sequences

CONSTANT Readers

VARIABLES
    latest,     \* number of the last published frame, 0 before the first
    known,      \* per reader: the last frame it knows of
    answers     \* per reader: what its calls were answered, in order

causalVars == <<latest, known, answers>>

Unavailable == -1

Init ==
    /\ latest = 0
    /\ known = [r \in Readers |-> 0]
    /\ answers = [r \in Readers |-> <<>>]

Publish ==
    /\ latest' = latest + 1
    /\ UNCHANGED <<known, answers>>

\* A reader finds out about a frame, by whatever its call looks at.
Learn(r) ==
    /\ \E n \in known[r] .. latest : known' = [known EXCEPT ![r] = n]
    /\ UNCHANGED <<latest, answers>>

Answer(r) ==
    /\ \E n \in known[r] .. latest :
          /\ n > 0
          /\ known' = [known EXCEPT ![r] = n]
          /\ answers' = [answers EXCEPT ![r] = Append(@, n)]
    /\ UNCHANGED latest

Refuse(r) ==
    /\ known[r] = 0
    /\ answers' = [answers EXCEPT ![r] = Append(@, Unavailable)]
    /\ UNCHANGED <<latest, known>>

\* One host thread synchronises with another by means of its own.
Tell(q, r) ==
    /\ known' = [known EXCEPT ![r] = IF known[q] > @ THEN known[q] ELSE @]
    /\ UNCHANGED <<latest, answers>>

Next ==
    \/ Publish
    \/ \E r \in Readers : Learn(r) \/ Answer(r) \/ Refuse(r)
    \/ \E q, r \in Readers : Tell(q, r)

Spec == Init /\ [][Next]_causalVars
=============================================================================
