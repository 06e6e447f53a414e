------------------------ MODULE RingInitializeProofs ------------------------
(* The safety invariants of RingInitialize for every set of threads.         *)
EXTENDS RingInitialize, TLAPS

\* Only a thread inside the bracket holds the flag, and only a graphics system
\* grants it.
FlagsAreHeld ==
    /\ \A t \in Threads : resume[t] => pc[t] # "guest"
    /\ graphics = "absent" => Owing = {}

IInv == TypeOK /\ FlagsAreHeld /\ PausesAreOwed /\ NoStrayResume

LEMMA InitIInv == Init => IInv
BY DEF Init, IInv, TypeOK, FlagsAreHeld, PausesAreOwed, Owing, NoStrayResume

\* A thread that is given the flag joins the owing ones.
LEMMA BeginKeeps ==
    ASSUME IInv, NEW t \in Threads, Begin(t)
    PROVE  IInv'
<1> USE DEF IInv, TypeOK
<1>1. PICK grants \in BOOLEAN :
          /\ grants => graphics = "running"
          /\ granted' = IF grants THEN granted \cup {t} ELSE granted
          /\ resume' = [resume EXCEPT ![t] = grants]
  BY DEF Begin, GetGraphicsSystem, PauseAndResetGpuWritePointer
<1>2. /\ pc[t] = "guest" /\ pc' = [pc EXCEPT ![t] = "paused"]
      /\ graphics' = graphics /\ stray' = stray
  BY DEF Begin
<1>3. Owing' = IF grants THEN Owing \cup {t} ELSE Owing
  <2>1. \A u \in Threads : u \in Owing' <=> u \in Owing \/ (u = t /\ grants)
    BY <1>1, <1>2 DEF Owing
  <2>2. Owing \subseteq Threads /\ Owing' \subseteq Threads
    BY DEF Owing
  <2> QED
    BY <2>1, <2>2
<1>4. TypeOK'
  BY <1>1, <1>2
<1>5. FlagsAreHeld'
  BY <1>1, <1>2, <1>3 DEF FlagsAreHeld
<1> QED
  BY <1>1, <1>2, <1>3, <1>4, <1>5 DEF PausesAreOwed, NoStrayResume

\* One that gives it back leaves them; the pause it answers is its own.
LEMMA EndKeeps ==
    ASSUME IInv, NEW t \in Threads, End(t)
    PROVE  IInv'
<1> USE DEF IInv, TypeOK
<1>1. /\ pc[t] = "reset" /\ pc' = [pc EXCEPT ![t] = "guest"]
      /\ resume' = [resume EXCEPT ![t] = FALSE] /\ graphics' = graphics
  BY DEF End
<1>2. Owing' = Owing \ {t}
  <2>1. \A u \in Threads : u \in Owing' <=> u \in Owing /\ u # t
    BY <1>1 DEF Owing
  <2>2. Owing \subseteq Threads /\ Owing' \subseteq Threads
    BY DEF Owing
  <2> QED
    BY <2>1, <2>2
<1>3. t \in Owing <=> resume[t]
  BY <1>1 DEF Owing
<1>4. FlagsAreHeld'
  BY <1>1, <1>2 DEF FlagsAreHeld
<1>5. CASE graphics = "running" /\ resume[t]
  <2>1. /\ granted' = granted \ {t}
        /\ stray' = (stray \/ t \notin granted)
    BY <1>5 DEF End, GetGraphicsSystem, ResumeGpu
  <2>2. granted = Owing /\ t \in granted
    BY <1>3, <1>5 DEF PausesAreOwed
  <2> QED
    BY <2>1, <2>2, <1>1, <1>2, <1>4, <1>5 DEF PausesAreOwed, NoStrayResume
<1>6. CASE ~(graphics = "running" /\ resume[t])
  <2>1. granted' = granted /\ stray' = stray
    BY <1>6 DEF End, GetGraphicsSystem
  <2>2. graphics = "running" => Owing' = Owing
    BY <1>2, <1>3, <1>6
  <2> QED
    BY <2>1, <2>2, <1>1, <1>4 DEF PausesAreOwed, NoStrayResume
<1> QED
  BY <1>5, <1>6

LEMMA NextKeeps ==
    ASSUME IInv, [Next]_vars
    PROVE  IInv'
<1>1. CASE SetUpGraphics
  <2>1. Owing' = Owing /\ Owing = {} /\ granted = {}
    BY <1>1 DEF SetUpGraphics, Owing, IInv, TypeOK, FlagsAreHeld
  <2> QED
    BY <1>1, <2>1
    DEF SetUpGraphics, IInv, TypeOK, FlagsAreHeld, PausesAreOwed, NoStrayResume
<1>2. CASE ShutDownGraphics
  BY <1>2 DEF ShutDownGraphics, IInv, TypeOK, FlagsAreHeld, PausesAreOwed, NoStrayResume
<1>3. ASSUME NEW t \in Threads, Thread(t) PROVE IInv'
  <2>1. CASE Begin(t)
    BY <2>1, BeginKeeps
  <2>2. CASE ResetRing(t)
    <3>1. Owing' = Owing
      BY <2>2 DEF ResetRing, Owing, IInv, TypeOK
    <3> QED
      BY <2>2, <3>1
      DEF ResetRing, IInv, TypeOK, FlagsAreHeld, PausesAreOwed, NoStrayResume
  <2>3. CASE End(t)
    BY <2>3, EndKeeps
  <2> QED
    BY <1>3, <2>1, <2>2, <2>3 DEF Thread
<1>4. CASE UNCHANGED vars
  BY <1>4 DEF vars, IInv, TypeOK, FlagsAreHeld, PausesAreOwed, NoStrayResume, Owing
<1> QED
  BY <1>1, <1>2, <1>3, <1>4 DEF Next

LEMMA Inductive == Spec => []IInv
BY InitIInv, NextKeeps, PTL DEF Spec

\* The state stays of its type, and only a running graphics system has granted pauses.
THEOREM TypeCorrect == Spec => []TypeOK
BY Inductive, PTL DEF IInv

\* The threads that will resume the GPU are those whose own pause was granted.
THEOREM PausesOwed == Spec => []PausesAreOwed
BY Inductive, PTL DEF IInv

\* No thread calls ResumeGpu without a pause of its own.
THEOREM NoStray == Spec => []NoStrayResume
BY Inductive, PTL DEF IInv

\* Whenever no thread is inside the bracket every granted pause has been answered: no
\* order of Begin and End, no refusal and no shutdown leaves one with nobody left to
\* answer it.
QuietIsAnswered == (\A t \in Threads : pc[t] = "guest") => granted = {}

\* Together with the fairness of the bracket it is why PausesAreAnswered.
THEOREM QuietAnswered == Spec => []QuietIsAnswered
<1>1. IInv => QuietIsAnswered
  <2> SUFFICES ASSUME IInv, \A t \in Threads : pc[t] = "guest" PROVE granted = {}
    BY DEF QuietIsAnswered
  <2>1. Owing = {}
    BY DEF Owing
  <2> QED
    BY <2>1 DEF IInv, TypeOK, PausesAreOwed
<1> QED
  BY <1>1, Inductive, PTL
=============================================================================
