---------------------------- MODULE RingInitialize ----------------------------
(* The hooks around the guest's call of VdInitializeRingBuffer, which resets   *)
(* the GPU ring buffer (src/compat_hooks.cpp): the host GPU is paused before   *)
(* the call and resumed after it.  The graphics system, its pause and the call *)
(* belong to the SDK and are external: the system may not exist yet, may be    *)
(* gone, and may refuse a pause.  Whether it counts the pauses it grants is    *)
(* not known here; the model only keeps whose pause has not been answered.     *)

CONSTANT Threads   \* the guest threads

VARIABLES
    pc,        \* where a thread is: in other guest code, or on which side of the
               \* bracketed call
    resume,    \* resume_after_ring_initialize of each thread
    graphics,  \* what GetGraphicsSystem finds
    granted,   \* history: the threads whose pause was granted by this graphics
               \* system and that have not called ResumeGpu since
    stray      \* history: whether a thread called ResumeGpu for no pause of its own

vars == <<pc, resume, graphics, granted, stray>>

TypeOK ==
    /\ pc \in [Threads -> {"guest", "paused", "reset"}]
    /\ resume \in [Threads -> BOOLEAN]
    /\ graphics \in {"absent", "running", "gone"}
    /\ granted \subseteq Threads
    /\ graphics # "running" => granted = {}
    /\ stray \in BOOLEAN

Init ==
    /\ pc = [t \in Threads |-> "guest"]
    /\ resume = [t \in Threads |-> FALSE]
    /\ graphics = "absent"
    /\ granted = {}
    /\ stray = FALSE

-----------------------------------------------------------------------------
(* The graphics system.                                                       *)

GetGraphicsSystem == graphics = "running"

SetUpGraphics ==
    /\ graphics = "absent"
    /\ graphics' = "running"
    /\ UNCHANGED <<pc, resume, granted, stray>>

\* Its pauses go with it.
ShutDownGraphics ==
    /\ graphics = "running"
    /\ graphics' = "gone"
    /\ granted' = {}
    /\ UNCHANGED <<pc, resume, stray>>

PauseAndResetGpuWritePointer(t, grants) ==
    granted' = IF grants THEN granted \cup {t} ELSE granted

ResumeGpu(t) ==
    /\ granted' = granted \ {t}
    /\ stray' = (stray \/ t \notin granted)

-----------------------------------------------------------------------------
(* The hooks.                                                                 *)

\* Faulty: one flag for all threads.
BeginShared(t) ==
    /\ pc[t] = "guest"
    /\ pc' = [pc EXCEPT ![t] = "paused"]
    /\ \E grants \in IF GetGraphicsSystem THEN BOOLEAN ELSE {FALSE} :
          /\ PauseAndResetGpuWritePointer(t, grants)
          /\ resume' = [u \in Threads |-> grants]
    /\ UNCHANGED <<graphics, stray>>

\* Faulty: a graphics system is taken for granted.
BeginUnchecked(t) ==
    /\ pc[t] = "guest"
    /\ pc' = [pc EXCEPT ![t] = "paused"]
    /\ \E grants \in BOOLEAN :
          /\ PauseAndResetGpuWritePointer(t, grants)
          /\ resume' = [resume EXCEPT ![t] = grants]
    /\ UNCHANGED <<graphics, stray>>

\* ReRevvedCompatRingInitializeBegin: the flag is assigned whatever it held.
Begin(t) ==
    /\ pc[t] = "guest"
    /\ pc' = [pc EXCEPT ![t] = "paused"]
    /\ \E grants \in IF GetGraphicsSystem THEN BOOLEAN ELSE {FALSE} :
          /\ PauseAndResetGpuWritePointer(t, grants)
          /\ resume' = [resume EXCEPT ![t] = grants]
    /\ UNCHANGED <<graphics, stray>>

\* VdInitializeRingBuffer returns.
ResetRing(t) ==
    /\ pc[t] = "paused"
    /\ pc' = [pc EXCEPT ![t] = "reset"]
    /\ UNCHANGED <<resume, graphics, granted, stray>>

\* Faulty: the GPU is resumed whether this thread paused it or not.
EndAlways(t) ==
    /\ pc[t] = "reset"
    /\ pc' = [pc EXCEPT ![t] = "guest"]
    /\ IF GetGraphicsSystem THEN ResumeGpu(t) ELSE UNCHANGED <<granted, stray>>
    /\ resume' = [resume EXCEPT ![t] = FALSE]
    /\ UNCHANGED graphics

\* Faulty: the flag is cleared before it decides.
EndForgets(t) ==
    /\ pc[t] = "reset"
    /\ pc' = [pc EXCEPT ![t] = "guest"]
    /\ resume' = [resume EXCEPT ![t] = FALSE]
    /\ UNCHANGED <<graphics, granted, stray>>

\* ReRevvedCompatRingInitializeEnd: the flag of this thread decides, then is cleared.
End(t) ==
    /\ pc[t] = "reset"
    /\ pc' = [pc EXCEPT ![t] = "guest"]
    /\ IF GetGraphicsSystem /\ resume[t] THEN ResumeGpu(t)
       ELSE UNCHANGED <<granted, stray>>
    /\ resume' = [resume EXCEPT ![t] = FALSE]
    /\ UNCHANGED graphics

Thread(t) == Begin(t) \/ ResetRing(t) \/ End(t)

Next ==
    \/ SetUpGraphics \/ ShutDownGraphics
    \/ \E t \in Threads : Thread(t)

\* A thread that has entered the bracket leaves it: the bracketed call returns.
Fairness == \A t \in Threads : WF_vars(ResetRing(t)) /\ WF_vars(End(t))

Spec == Init /\ [][Next]_vars
FairSpec == Spec /\ Fairness

-----------------------------------------------------------------------------
(* Properties.                                                                *)

\* Threads that will call ResumeGpu if there is a graphics system by then.
Owing == {t \in Threads : pc[t] # "guest" /\ resume[t]}

\* "Pause the host GPU while the guest resets the ring, then resume it before the
\* next instruction": whatever threads overlap and whenever the graphics system comes
\* or goes, the threads that are going to resume the GPU are exactly those whose own
\* pause was granted; the flag of one thread never decides for another. (Whether the
\* GPU stays paused until the last of them resumes it is the SDK's to decide.)
PausesAreOwed == graphics = "running" => granted = Owing

\* No thread ever resumes the GPU without a pause of its own: not after a refusal, nor
\* when the graphics system has appeared inside its bracket.
NoStrayResume == ~stray

\* Once no thread initializes a ring any more, every granted pause has been answered
\* for good.
PausesAreAnswered ==
    (<>[][~\E t \in Threads : Begin(t)]_vars) => <>[](granted = {})
=============================================================================
