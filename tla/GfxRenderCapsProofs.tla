------------------------ MODULE GfxRenderCapsProofs ------------------------
(* Type correctness of the render-caps repair, its clear discipline, the      *)
(* ownership of the caps it writes and its retention rule, for every set of   *)
(* threads, renderers, configs and outputs and every nesting depth.           *)
EXTENDS GfxRenderCaps, SequenceTheorems, TLAPS

LEMMA StacksAreSequences ==
    ASSUME NEW s
    PROVE  s \in Stacks <=> s \in Seq(Queries) /\ Len(s) <= MaxDepth
<1> USE CapsAssumption DEF Stacks
<1>1. ASSUME s \in Stacks PROVE s \in Seq(Queries) /\ Len(s) <= MaxDepth
  <2>1. PICK n \in 0 .. MaxDepth : s \in [1 .. n -> Queries]
    BY <1>1
  <2>2. n \in Nat /\ n <= MaxDepth
    BY <2>1
  <2>3. s \in Seq(Queries)
    BY <2>1, <2>2
  <2>4. Len(s) = n
    BY <2>1, <2>2, <2>3
  <2> QED
    BY <2>2, <2>3, <2>4
<1>2. ASSUME s \in Seq(Queries), Len(s) <= MaxDepth PROVE s \in Stacks
  <2>1. Len(s) \in 0 .. MaxDepth /\ s \in [1 .. Len(s) -> Queries]
    BY <1>2
  <2> QED
    BY <2>1
<1> QED
  BY <1>1, <1>2

\* Pushing a query onto a stack with room, and popping one.
LEMMA StackOps ==
    ASSUME NEW s \in Stacks
    PROVE  /\ \A q \in Queries : Len(s) < MaxDepth => <<q>> \o s \in Stacks
           /\ s # <<>> => Head(s) \in Queries /\ Tail(s) \in Stacks
<1>1. s \in Seq(Queries) /\ Len(s) <= MaxDepth
  BY StacksAreSequences
<1>2. ASSUME NEW q \in Queries, Len(s) < MaxDepth PROVE <<q>> \o s \in Stacks
  <2>1. <<q>> \in Seq(Queries) /\ Len(<<q>>) = 1
    OBVIOUS
  <2>2. <<q>> \o s \in Seq(Queries) /\ Len(<<q>> \o s) = 1 + Len(s)
    BY <1>1, <2>1, ConcatProperties
  <2>3. Len(<<q>> \o s) <= MaxDepth
    BY <1>2, <1>1, <2>2, CapsAssumption
  <2> QED
    BY <2>2, <2>3, StacksAreSequences, Zenon
<1>3. ASSUME s # <<>> PROVE Head(s) \in Queries /\ Tail(s) \in Stacks
  <2>1. Head(s) \in Queries /\ Tail(s) \in Seq(Queries) /\ Len(Tail(s)) = Len(s) - 1
    BY <1>1, <1>3, HeadTailProperties
  <2>2. Len(s) \in Nat
    BY <1>1
  <2>3. Len(Tail(s)) <= MaxDepth
    BY <1>1, <2>1, <2>2, CapsAssumption
  <2> QED
    BY <2>1, <2>3, StacksAreSequences, Zenon
<1> QED
  BY <1>2, <1>3

Repairing == {"load_renderer", "load_config", "write_24", "write_28"}
Chosen == {"write_24", "write_28", "clear_config", "clear_renderer"}

\* What the End hook has established when it reaches each of its steps.
HookOK(t) ==
    /\ hpc[t] = "out" <=> local[t] = None
    /\ hpc[t] \in Chosen => local[t].config \in Configs
    /\ hpc[t] \in Repairing => buffer[local[t].output] # None
    /\ hpc[t] \in {"write_28", "clear_config"} => caps24[local[t].config] # None
    /\ hpc[t] = "clear_config" => caps28[local[t].config] # None
    /\ hpc[t] = "store_config" => candidate[t] # None
    /\ capture[t] # None /\ capture[t].caller = "config" => candidate[t] # None

HookInv == \A t \in Threads : HookOK(t)

IInv == TypeOK /\ HookInv

LEMMA InitIInv == Init => IInv
<1> SUFFICES ASSUME Init PROVE IInv
  OBVIOUS
<1>1. <<>> \in Stacks
  <2>1. <<>> \in Seq(Queries) /\ Len(<<>>) = 0
    OBVIOUS
  <2>2. 0 <= MaxDepth
    BY CapsAssumption
  <2> QED
    BY <2>1, <2>2, StacksAreSequences, Zenon
<1>2. TypeOK
  BY <1>1 DEF Init, TypeOK, HookPcs
<1>3. HookInv
  BY DEF Init, HookInv, HookOK, Repairing, Chosen
<1> QED
  BY <1>2, <1>3 DEF IInv

LEMMA RememberKeeps ==
    ASSUME IInv, NEW t \in Threads, NEW c \in Configs, NEW r \in Renderers,
           Remember(t, c, r)
    PROVE  IInv'
<1>1. TypeOK'
  BY DEF IInv, TypeOK, Remember, staleVars
<1>2. HookInv'
  BY CapsAssumption DEF IInv, TypeOK, HookInv, HookOK, Remember
<1> QED
  BY <1>1, <1>2 DEF IInv

LEMMA BeginKeeps ==
    ASSUME IInv, NEW t \in Threads, NEW r \in Renderers, NEW o \in Outputs,
           Begin(t, r, o)
    PROVE  IInv'
<1> DEFINE q == [renderer |-> r, output |-> o, caller |-> CallerOf(t),
                 nested |-> queries[t] # <<>>]
<1>1. q \in Queries
  BY DEF Queries, CallerOf, Callers
<1>2. queries[t] \in Stacks /\ Len(queries[t]) < MaxDepth
  BY DEF IInv, TypeOK, Begin
<1>3. queries' = [queries EXCEPT ![t] = <<q>> \o queries[t]]
  BY DEF Begin, IInv, TypeOK
<1>4. \A u \in Threads : queries'[u] \in Stacks
  BY <1>1, <1>2, <1>3, StackOps DEF IInv, TypeOK
<1>5. /\ capture' \in [Threads -> Captures \cup {None}]
      /\ \A u \in Threads : capture'[u] # None /\ capture'[u].caller = "config"
                                => candidate[u] # None
  BY DEF Begin, IInv, TypeOK, HookInv, HookOK, Captures, CallerOf, Callers
<1>6. TypeOK'
  BY <1>4, <1>5 DEF Begin, IInv, TypeOK, staleVars
<1>7. HookInv'
  BY <1>5 DEF Begin, IInv, HookInv, HookOK
<1> QED
  BY <1>6, <1>7 DEF IInv

LEMMA EndKeeps ==
    ASSUME IInv, NEW t \in Threads, NEW success \in BOOLEAN, NEW readable \in BOOLEAN,
           End(t, success, readable)
    PROVE  IInv'
<1> DEFINE q == Head(queries[t])
           c == capture[t]
           retain == ~success /\ Retainable(t, c)
           repair == success /\ q.output = c.output
           next == IF c = None \/ ~readable \/ ~(retain \/ repair) THEN "out"
                   ELSE IF retain THEN "store_config" ELSE "load_renderer"
<1>1. q \in Queries /\ Tail(queries[t]) \in Stacks
  BY StackOps DEF End, IInv, TypeOK
<1>2. queries' \in [Threads -> Stacks]
  BY <1>1 DEF End, IInv, TypeOK
<1>3. /\ next \in {"out", "store_config", "load_renderer"}
      /\ next # "out" => c \in Captures
      /\ next = "store_config" => c.caller = "config"
      /\ next = "load_renderer" => success
  BY DEF IInv, TypeOK, Retainable
<1>4. /\ hpc' = [hpc EXCEPT ![t] = next]
      /\ local' = [local EXCEPT ![t] =
                      IF next = "out" THEN None
                      ELSE [renderer |-> c.renderer, output |-> q.output,
                            config |-> None, nested |-> q.nested]]
      /\ capture' = [capture EXCEPT ![t] = None]
      /\ buffer' = IF success THEN [buffer EXCEPT ![q.output] = q.renderer] ELSE buffer
      /\ UNCHANGED <<bound, caps24, caps28, candidate, candRenderer, staleConfig,
                     staleRenderer>>
  BY DEF End, staleVars
<1>5. status' \in [Configs -> {"new", "setup", "failed", "valid"}]
  BY DEF End, IInv, TypeOK
<1>6. next # "out" => [renderer |-> c.renderer, output |-> q.output,
                       config |-> None, nested |-> q.nested] \in Locals
  BY <1>1, <1>3 DEF Captures, Queries, Locals
<1>7. TypeOK'
  <2>1. buffer' \in [Outputs -> Renderers \cup {None}]
    BY <1>1, <1>4 DEF IInv, TypeOK, Queries
  <2>2. hpc' \in [Threads -> HookPcs]
    BY <1>3, <1>4 DEF IInv, TypeOK, HookPcs
  <2>3. local' \in [Threads -> Locals \cup {None}]
    BY <1>4, <1>6 DEF IInv, TypeOK
  <2>4. capture' \in [Threads -> Captures \cup {None}]
    BY <1>4 DEF IInv, TypeOK
  <2> QED
    BY <1>2, <1>4, <1>5, <2>1, <2>2, <2>3, <2>4 DEF IInv, TypeOK
<1>8. HookInv'
  <2> SUFFICES ASSUME NEW u \in Threads PROVE HookOK(u)'
    BY DEF HookInv
  <2>1. /\ q.renderer # None /\ q.output \in Outputs
        /\ \A o \in Outputs : buffer[o] # None => buffer'[o] # None
    BY <1>1, <1>4, CapsAssumption DEF Queries, IInv, TypeOK
  <2>2. CASE u # t
    <3>1. /\ hpc'[u] = hpc[u] /\ local'[u] = local[u] /\ capture'[u] = capture[u]
      BY <1>4, <2>2 DEF IInv, TypeOK
    <3>2. hpc[u] \in Repairing => local[u].output \in Outputs
      BY DEF IInv, TypeOK, HookInv, HookOK, Locals, Repairing
    <3> QED
      BY <1>4, <2>1, <3>1, <3>2 DEF IInv, HookInv, HookOK
  <2>3. CASE u = t
    <3>1. hpc'[t] = next /\ capture'[t] = None
      BY <1>4 DEF IInv, TypeOK
    <3>2. local'[t] = IF next = "out" THEN None
                      ELSE [renderer |-> c.renderer, output |-> q.output,
                            config |-> None, nested |-> q.nested]
      BY <1>4 DEF IInv, TypeOK
    <3>3. next # "out" => local'[t] # None
      BY <1>6, <3>2, NoneAssumption
    <3>4. next = "load_renderer" => buffer'[local'[t].output] # None
      BY <1>3, <1>4, <2>1, <3>2 DEF IInv, TypeOK
    <3>5. next = "store_config" => candidate[t] # None
      BY <1>3, NoneAssumption DEF IInv, HookInv, HookOK
    <3> QED
      BY <1>3, <1>4, <2>3, <3>1, <3>2, <3>3, <3>4, <3>5
      DEF HookOK, Chosen, Repairing
  <2> QED
    BY <2>2, <2>3
<1> QED
  BY <1>7, <1>8 DEF IInv

\* A step of the hook that only moves its program counter, or returns.
LEMMA HookGotoMoves ==
    ASSUME IInv, NEW t \in Threads, NEW from, NEW to \in HookPcs, HookGoto(t, from, to)
    PROVE  /\ hpc[t] = from
           /\ hpc' \in [Threads -> HookPcs]
           /\ local' \in [Threads -> Locals \cup {None}]
           /\ hpc'[t] = to
           /\ local'[t] = IF to = "out" THEN None ELSE local[t]
           /\ \A u \in Threads \ {t} : hpc'[u] = hpc[u] /\ local'[u] = local[u]
BY DEF HookGoto, IInv, TypeOK

\* The steps that touch nothing but the two atomics.
LEMMA AtomicsKeep ==
    ASSUME IInv, NEW t \in Threads, UNCHANGED <<gfxVars, threadVars>>,
           \/ StoreConfig(t) \/ StoreRenderer(t) \/ LoadRenderer(t)
           \/ ClearConfig(t) \/ ClearRenderer(t)
    PROVE  IInv'
<1> USE DEF HookPcs
<1>1. /\ staleConfig' \in Configs \cup {None}
      /\ staleRenderer' \in Renderers \cup {None}
  <2>1. CASE StoreConfig(t)
    BY <2>1 DEF StoreConfig, IInv, TypeOK
  <2>2. CASE StoreRenderer(t)
    <3>1. local[t] \in Locals
      BY <2>2 DEF StoreRenderer, HookGoto, IInv, TypeOK, HookInv, HookOK
    <3> QED
      BY <2>2, <3>1 DEF StoreRenderer, IInv, TypeOK, Locals
  <2>3. CASE LoadRenderer(t)
    BY <2>3 DEF LoadRenderer, staleVars, IInv, TypeOK
  <2>4. CASE ClearConfig(t)
    BY <2>4 DEF ClearConfig, IInv, TypeOK
  <2>5. CASE ClearRenderer(t)
    BY <2>5 DEF ClearRenderer, IInv, TypeOK
  <2> QED
    BY <2>1, <2>2, <2>3, <2>4, <2>5
<1>2. PICK from \in HookPcs, to \in HookPcs :
          /\ HookGoto(t, from, to)
          /\ from # "out"
          /\ to # "out" =>
                \/ from = "store_config" /\ to = "store_renderer"
                \/ from = "load_renderer" /\ to = "load_config"
                \/ from = "clear_config" /\ to = "clear_renderer"
  <2>1. CASE StoreConfig(t)
    BY <2>1 DEF StoreConfig
  <2>2. CASE StoreRenderer(t)
    BY <2>2 DEF StoreRenderer
  <2>3. CASE LoadRenderer(t)
    BY <2>3 DEF LoadRenderer
  <2>4. CASE ClearConfig(t)
    BY <2>4 DEF ClearConfig
  <2>5. CASE ClearRenderer(t)
    BY <2>5 DEF ClearRenderer
  <2> QED
    BY <2>1, <2>2, <2>3, <2>4, <2>5
<1>3. /\ hpc[t] = from
      /\ hpc' \in [Threads -> HookPcs]
      /\ local' \in [Threads -> Locals \cup {None}]
      /\ hpc'[t] = to
      /\ local'[t] = IF to = "out" THEN None ELSE local[t]
      /\ \A u \in Threads \ {t} : hpc'[u] = hpc[u] /\ local'[u] = local[u]
  BY <1>2, HookGotoMoves, ZenonT(60)
<1>4. TypeOK'
  BY <1>1, <1>3 DEF IInv, TypeOK, gfxVars, threadVars
<1>5. HookInv'
  <2> SUFFICES ASSUME NEW u \in Threads PROVE HookOK(u)'
    BY DEF HookInv
  <2>1. HookOK(u)
    BY DEF IInv, HookInv
  <2>2. UNCHANGED <<candidate, capture, caps24, caps28, buffer>>
    BY DEF gfxVars, threadVars
  <2>3. CASE u # t
    <3>1. hpc'[u] = hpc[u] /\ local'[u] = local[u]
      BY <1>3, <2>3
    <3> QED
      BY <2>1, <2>2, <3>1 DEF HookOK
  <2>4. CASE u = t
    BY <1>2, <1>3, <2>1, <2>2, <2>4 DEF HookOK, Repairing, Chosen
  <2> QED
    BY <2>3, <2>4
<1> QED
  BY <1>4, <1>5 DEF IInv

LEMMA LoadConfigKeeps ==
    ASSUME IInv, NEW t \in Threads, NEW readable \in BOOLEAN, LoadConfig(t, readable)
    PROVE  IInv'
<1>1. CASE Eligible(t) /\ readable
  <2>1. staleConfig \in Configs /\ local[t] \in Locals
    BY <1>1 DEF Eligible, LoadConfig, IInv, TypeOK, HookInv, HookOK
  <2>2. /\ hpc' = [hpc EXCEPT ![t] = "write_24"]
        /\ local' = [local EXCEPT ![t].config = staleConfig]
        /\ hpc[t] = "load_config"
        /\ UNCHANGED <<gfxVars, threadVars, staleVars>>
    BY <1>1 DEF LoadConfig
  <2>3. [local[t] EXCEPT !.config = staleConfig] \in Locals
    BY <2>1 DEF Locals
  <2>4. /\ local'[t] = [local[t] EXCEPT !.config = staleConfig]
        /\ local'[t].config = staleConfig
        /\ local'[t].output = local[t].output
        /\ \A u \in Threads \ {t} : local'[u] = local[u] /\ hpc'[u] = hpc[u]
        /\ hpc'[t] = "write_24"
    BY <2>1, <2>2 DEF IInv, TypeOK, Locals
  <2>5. TypeOK'
    BY <2>2, <2>3 DEF IInv, TypeOK, HookPcs, gfxVars, threadVars, staleVars
  <2>6. HookInv'
    <3> SUFFICES ASSUME NEW u \in Threads PROVE HookOK(u)'
      BY DEF HookInv
    <3>1. HookOK(u)
      BY DEF IInv, HookInv
    <3>2. UNCHANGED <<candidate, capture, caps24, caps28, buffer>>
      BY <2>2 DEF gfxVars, threadVars
    <3>3. CASE u # t
      BY <2>4, <3>1, <3>2, <3>3 DEF HookOK
    <3>4. CASE u = t
      <4>1. local'[u] # None
        BY <2>3, <2>4, <3>4, NoneAssumption
      <4> QED
        BY <2>1, <2>2, <2>4, <3>1, <3>2, <3>4, <4>1 DEF HookOK, Repairing, Chosen
    <3> QED
      BY <3>3, <3>4
  <2> QED
    BY <2>5, <2>6 DEF IInv
<1>2. CASE ~(Eligible(t) /\ readable)
  <2>1. /\ hpc' = [hpc EXCEPT ![t] = "out"]
        /\ local' = [local EXCEPT ![t] = None]
        /\ UNCHANGED <<gfxVars, threadVars, staleVars>>
    BY <1>2 DEF LoadConfig
  <2> QED
    BY <2>1 DEF IInv, TypeOK, HookInv, HookOK, HookPcs, gfxVars, threadVars, staleVars,
                Repairing, Chosen
<1> QED
  BY <1>1, <1>2

\* The word the repair copies is the caps of some renderer.
LEMMA WordIsCaps ==
    ASSUME IInv, NEW t \in Threads, hpc[t] \in Repairing
    PROVE  Word(t) \in Renderers /\ Word(t) # None /\ local[t] \in Locals
<1>1. local[t] \in Locals
  BY DEF IInv, TypeOK, HookInv, HookOK, Repairing
<1> QED
  BY <1>1, ZenonT(60) DEF IInv, TypeOK, HookInv, HookOK, Word, Locals

LEMMA WritesKeep ==
    ASSUME IInv, NEW t \in Threads, NEW writable \in BOOLEAN,
           Write24(t, writable) \/ Write28(t, writable)
    PROVE  IInv'
<1> USE DEF HookPcs
<1>1. /\ Word(t) \in Renderers /\ Word(t) # None
      /\ local[t].config \in Configs
      /\ hpc[t] \in {"write_24", "write_28"}
  <2>1. hpc[t] \in {"write_24", "write_28"}
    BY DEF Write24, Write28, HookGoto
  <2> QED
    BY <2>1, WordIsCaps DEF IInv, HookInv, HookOK, Repairing, Chosen
<1>2. CASE Write24(t, writable)
  <2> DEFINE to == IF writable THEN "write_28" ELSE "out"
  <2>1. /\ hpc[t] = "write_24"
        /\ hpc' \in [Threads -> HookPcs]
        /\ local' \in [Threads -> Locals \cup {None}]
        /\ hpc'[t] = to
        /\ local'[t] = IF to = "out" THEN None ELSE local[t]
        /\ \A u \in Threads \ {t} : hpc'[u] = hpc[u] /\ local'[u] = local[u]
    BY <1>2, HookGotoMoves DEF Write24
  <2>2. /\ caps24' \in [Configs -> Renderers \cup {None}]
        /\ writable => caps24'[local[t].config] # None
        /\ \A c \in Configs : caps24[c] # None => caps24'[c] # None
    BY <1>1, <1>2 DEF Write24, IInv, TypeOK
  <2>3. UNCHANGED <<bound, status, caps28, buffer, queries, threadVars, staleVars>>
    BY <1>2 DEF Write24
  <2>4. TypeOK'
    BY <2>1, <2>2, <2>3 DEF IInv, TypeOK, threadVars, staleVars
  <2>5. HookInv'
    <3> SUFFICES ASSUME NEW u \in Threads PROVE HookOK(u)'
      BY DEF HookInv
    <3>1. HookOK(u)
      BY DEF IInv, HookInv
    <3>2. UNCHANGED <<candidate, capture, caps28, buffer>>
      BY <2>3 DEF threadVars
    <3>3. CASE u # t
      <4>1. hpc'[u] = hpc[u] /\ local'[u] = local[u]
        BY <2>1, <3>3
      <4>2. hpc[u] \in Chosen => local[u].config \in Configs
        BY <3>1 DEF HookOK
      <4> QED
        BY <2>2, <3>1, <3>2, <4>1, <4>2 DEF HookOK, Chosen
    <3>4. CASE u = t
      BY <1>1, <2>1, <2>2, <3>1, <3>2, <3>4 DEF HookOK, Repairing, Chosen
    <3> QED
      BY <3>3, <3>4
  <2> QED
    BY <2>4, <2>5 DEF IInv
<1>3. CASE Write28(t, writable)
  <2> DEFINE to == IF writable THEN "clear_config" ELSE "out"
  <2>1. /\ hpc[t] = "write_28"
        /\ hpc' \in [Threads -> HookPcs]
        /\ local' \in [Threads -> Locals \cup {None}]
        /\ hpc'[t] = to
        /\ local'[t] = IF to = "out" THEN None ELSE local[t]
        /\ \A u \in Threads \ {t} : hpc'[u] = hpc[u] /\ local'[u] = local[u]
    BY <1>3, HookGotoMoves DEF Write28
  <2>2. /\ caps28' \in [Configs -> Renderers \cup {None}]
        /\ writable => caps28'[local[t].config] # None
        /\ \A c \in Configs : caps28[c] # None => caps28'[c] # None
    BY <1>1, <1>3 DEF Write28, IInv, TypeOK
  <2>3. UNCHANGED <<bound, status, caps24, buffer, queries, threadVars, staleVars>>
    BY <1>3 DEF Write28
  <2>4. TypeOK'
    BY <2>1, <2>2, <2>3 DEF IInv, TypeOK, threadVars, staleVars
  <2>5. HookInv'
    <3> SUFFICES ASSUME NEW u \in Threads PROVE HookOK(u)'
      BY DEF HookInv
    <3>1. HookOK(u)
      BY DEF IInv, HookInv
    <3>2. UNCHANGED <<candidate, capture, caps24, buffer>>
      BY <2>3 DEF threadVars
    <3>3. CASE u # t
      <4>1. hpc'[u] = hpc[u] /\ local'[u] = local[u]
        BY <2>1, <3>3
      <4>2. hpc[u] \in Chosen => local[u].config \in Configs
        BY <3>1 DEF HookOK
      <4> QED
        BY <2>2, <3>1, <3>2, <4>1, <4>2 DEF HookOK, Chosen
    <3>4. CASE u = t
      BY <1>1, <2>1, <2>2, <3>1, <3>2, <3>4 DEF HookOK, Repairing, Chosen
    <3> QED
      BY <3>3, <3>4
  <2> QED
    BY <2>4, <2>5 DEF IInv
<1> QED
  BY <1>2, <1>3

LEMMA NextKeeps ==
    ASSUME IInv, [Next]_vars
    PROVE  IInv'
<1>1. ASSUME NEW t \in Threads, GuestStep(t) PROVE IInv'
  BY <1>1, RememberKeeps, BeginKeeps, EndKeeps DEF GuestStep
<1>2. ASSUME NEW t \in Threads, HookStep(t) PROVE IInv'
  <2>1. CASE \/ StoreConfig(t) \/ StoreRenderer(t) \/ LoadRenderer(t)
             \/ ClearConfig(t) \/ ClearRenderer(t)
    <3>1. UNCHANGED <<gfxVars, threadVars>>
      BY <2>1 DEF StoreConfig, StoreRenderer, LoadRenderer, ClearConfig, ClearRenderer
    <3> QED
      BY <2>1, <3>1, AtomicsKeep
  <2>2. ASSUME NEW accessible \in BOOLEAN, LoadConfig(t, accessible) PROVE IInv'
    BY <2>2, LoadConfigKeeps
  <2>3. ASSUME NEW accessible \in BOOLEAN,
               Write24(t, accessible) \/ Write28(t, accessible)
        PROVE  IInv'
    BY <2>3, WritesKeep
  <2> QED
    BY <1>2, <2>1, <2>2, <2>3 DEF HookStep
<1>3. CASE UNCHANGED vars
  BY <1>3 DEF vars, gfxVars, threadVars, staleVars, IInv, TypeOK, HookInv, HookOK
<1> QED
  BY <1>1, <1>2, <1>3 DEF Next

LEMMA Inductive == Spec => []IInv
BY InitIInv, NextKeeps, PTL DEF Spec

\* Every variable keeps its type, at any nesting depth.
THEOREM TypeCorrect == Spec => []TypeOK
BY Inductive, PTL DEF IInv

LEMMA OnlyClearConfigDrops ==
    ASSUME IInv, [Next]_vars, staleConfig # None, staleConfig' = None
    PROVE  \E t \in Threads : ClearConfig(t)
<1>1. PICK t \in Threads : GuestStep(t) \/ HookStep(t)
  BY DEF Next, vars, staleVars
<1>2. ~GuestStep(t)
  BY DEF GuestStep, Remember, Begin, End, staleVars
<1>3. ~StoreRenderer(t) /\ ~LoadRenderer(t) /\ ~ClearRenderer(t)
  BY DEF StoreRenderer, LoadRenderer, ClearRenderer, staleVars
<1>4. \A accessible \in BOOLEAN :
          ~LoadConfig(t, accessible) /\ ~Write24(t, accessible) /\ ~Write28(t, accessible)
  BY DEF LoadConfig, Write24, Write28, staleVars
<1>5. ~StoreConfig(t)
  BY DEF StoreConfig, HookGoto, IInv, HookInv, HookOK
<1> QED
  BY <1>1, <1>2, <1>3, <1>4, <1>5 DEF HookStep

\* Every clear of the pending config is paid for by a repair.
THEOREM ClearsPaid == Spec => ClearsFollowRepairs
<1> DEFINE Paid ==
        staleConfig # None /\ staleConfig' = None =>
          \/ Repaired(staleConfig)
          \/ \E t \in Threads :
                /\ hpc[t] = "clear_config" /\ hpc'[t] = "clear_renderer"
                /\ local[t].config # staleConfig
                /\ Repaired(local[t].config)
<1>1. IInv /\ [Next]_vars => [Paid]_vars
  <2> SUFFICES ASSUME IInv, [Next]_vars, staleConfig # None, staleConfig' = None
               PROVE  Paid
    OBVIOUS
  <2>1. PICK t \in Threads : ClearConfig(t)
    BY OnlyClearConfigDrops
  <2>2. hpc[t] = "clear_config" /\ hpc'[t] = "clear_renderer"
    BY <2>1 DEF ClearConfig, HookGoto, IInv, TypeOK
  <2>3. Repaired(local[t].config)
    BY <2>2 DEF IInv, HookInv, HookOK, Repaired
  <2> QED
    BY <2>2, <2>3
<1>2. Spec => [][Paid]_vars
  BY <1>1, Inductive, PTL DEF Spec
<1> QED
  BY <1>2 DEF ClearsFollowRepairs

-----------------------------------------------------------------------------
(* What each kind of step moves, as the invariants below need it.             *)

LEMMA StackEntries ==
    ASSUME NEW s \in Stacks
    PROVE  /\ Range(s) \subseteq Queries
           /\ s = <<>> => Range(s) = {}
           /\ \A q \in Queries : Range(<<q>> \o s) = {q} \cup Range(s)
           /\ s # <<>> => /\ Head(s) \in Range(s)
                          /\ Range(Tail(s)) \subseteq Range(s)
                          /\ Len(s) = 1 => Range(s) = {Head(s)} /\ Tail(s) = <<>>
<1>1. s \in Seq(Queries) /\ Len(s) \in Nat
  BY StacksAreSequences
<1>2. Range(s) \subseteq Queries /\ (s = <<>> => Range(s) = {})
  BY <1>1, RangeOfSeq, RangeEquality
<1>3. ASSUME NEW q \in Queries PROVE Range(<<q>> \o s) = {q} \cup Range(s)
  <2>1. <<q>> \in Seq(Queries) /\ DOMAIN <<q>> = {1} /\ <<q>>[1] = q
    OBVIOUS
  <2>2. Range(<<q>>) = {q}
    BY <2>1 DEF Range
  <2>3. Range(<<q>> \o s) = Range(<<q>>) \cup Range(s)
    BY <1>1, <2>1, RangeConcatenation, ZenonT(60)
  <2> QED
    BY <2>2, <2>3
<1>4. ASSUME s # <<>>
      PROVE  /\ Head(s) \in Range(s)
             /\ Range(Tail(s)) \subseteq Range(s)
             /\ Len(s) = 1 => Range(s) = {Head(s)} /\ Tail(s) = <<>>
  <2>1. /\ Tail(s) \in Seq(Queries) /\ Len(Tail(s)) = Len(s) - 1
        /\ \A i \in 1 .. Len(Tail(s)) : Tail(s)[i] = s[i + 1]
    BY <1>1, <1>4, HeadTailProperties
  <2>2. Len(s) \in Nat \ {0} /\ Head(s) = s[1]
    BY <1>1, <1>4, EmptySeq
  <2>3. /\ Range(s) = {s[i] : i \in 1 .. Len(s)}
        /\ Range(Tail(s)) = {Tail(s)[i] : i \in 1 .. Len(Tail(s))}
    BY <1>1, <2>1, RangeEquality
  <2>4. \A i \in 1 .. Len(Tail(s)) : i + 1 \in 1 .. Len(s)
    BY <2>1, <2>2
  <2>5. Len(s) = 1 => Tail(s) = <<>>
    <3>1. Len(s) = 1 => Len(Tail(s)) = 0
      BY <2>1
    <3>2. Tail(s) # <<>> => Len(Tail(s)) \in Nat \ {0}
      BY <2>1, EmptySeq, Zenon
    <3> QED
      BY <3>1, <3>2
  <2>6. Len(s) = 1 => Range(s) = {Head(s)}
    BY <2>2, <2>3
  <2> QED
    BY <2>1, <2>2, <2>3, <2>4, <2>5, <2>6
<1> QED
  BY <1>2, <1>3, <1>4

LEMMA RememberMoves ==
    ASSUME IInv, NEW t \in Threads, NEW c \in Configs, NEW r \in Renderers,
           Remember(t, c, r)
    PROVE  /\ hpc[t] = "out" /\ queries[t] = <<>> /\ status[c] = "new"
           /\ candidate'[t] = c /\ \A u \in Threads \ {t} : candidate'[u] = candidate[u]
           /\ status'[c] = "setup" /\ \A d \in Configs \ {c} : status'[d] = status[d]
           /\ bound'[c] = r /\ \A d \in Configs \ {c} : bound'[d] = bound[d]
           /\ UNCHANGED <<caps24, caps28, buffer, queries, capture, hpc, local,
                          staleConfig>>
BY DEF Remember, staleVars, IInv, TypeOK

LEMMA BeginMoves ==
    ASSUME IInv, NEW t \in Threads, NEW r \in Renderers, NEW o \in Outputs,
           Begin(t, r, o)
    PROVE  \E q \in Queries :
             /\ Range(queries'[t]) = {q} \cup Range(queries[t])
             /\ q.caller = "config" => /\ queries[t] = <<>>
                                       /\ candidate[t] # None
                                       /\ status[candidate[t]] = "setup"
             /\ hpc[t] = "out"
             /\ Private(t, q.output)
             /\ \/ capture'[t] = capture[t]
                \/ capture'[t] = [renderer |-> q.renderer, output |-> q.output,
                                  caller |-> q.caller]
             /\ \A u \in Threads \ {t} :
                   queries'[u] = queries[u] /\ capture'[u] = capture[u]
             /\ UNCHANGED <<bound, status, caps24, caps28, buffer, candidate, hpc,
                            local, staleConfig>>
<1> DEFINE q == [renderer |-> r, output |-> o, caller |-> CallerOf(t),
                 nested |-> queries[t] # <<>>]
<1>1. q \in Queries
  BY DEF Queries, CallerOf, Callers
<1>2. queries[t] \in Stacks
  BY DEF IInv, TypeOK
<1>3. /\ queries' = [queries EXCEPT ![t] = <<q>> \o queries[t]]
      /\ capture' = IF capture[t] # None THEN capture
                    ELSE [capture EXCEPT ![t] = [renderer |-> r, output |-> o,
                                                 caller |-> q.caller]]
      /\ hpc[t] = "out" /\ Private(t, o)
      /\ UNCHANGED <<bound, status, caps24, caps28, buffer, candidate, hpc,
                     local, staleConfig>>
  BY DEF Begin, staleVars, IInv, TypeOK
<1>4. q.renderer = r /\ q.output = o /\ q.caller = CallerOf(t)
  OBVIOUS
<1>5. q.caller = "config" => /\ queries[t] = <<>>
                             /\ candidate[t] # None
                             /\ status[candidate[t]] = "setup"
  BY DEF CallerOf
<1> HIDE DEF q
<1>6. queries'[t] = <<q>> \o queries[t]
  BY <1>3 DEF IInv, TypeOK
<1>7. Range(queries'[t]) = {q} \cup Range(queries[t])
  BY <1>1, <1>2, <1>6, StackEntries
<1>8. /\ \A u \in Threads \ {t} : queries'[u] = queries[u] /\ capture'[u] = capture[u]
      /\ \/ capture'[t] = capture[t]
         \/ capture'[t] = [renderer |-> q.renderer, output |-> q.output,
                           caller |-> q.caller]
  BY <1>3, <1>4 DEF IInv, TypeOK
<1> QED
  BY <1>1, <1>3, <1>4, <1>5, <1>7, <1>8

\* The query that returns next.
Innermost(t) == Head(queries[t])

LEMMA EndMoves ==
    ASSUME IInv, NEW t \in Threads, NEW success \in BOOLEAN, NEW readable \in BOOLEAN,
           End(t, success, readable)
    PROVE  /\ hpc[t] = "out" /\ queries[t] # <<>> /\ Innermost(t) \in Queries
           /\ Innermost(t) \in Range(queries[t])
           /\ Range(queries'[t]) \subseteq Range(queries[t])
           /\ Len(queries[t]) = 1 => /\ Range(queries[t]) = {Innermost(t)}
                                     /\ Range(queries'[t]) = {}
           /\ hpc'[t] \in {"out", "store_config", "load_renderer"}
           /\ hpc'[t] = "store_config" =>
                 /\ capture[t] # None /\ capture[t].caller = "config"
                 /\ Innermost(t).caller = "config" /\ candidate[t] # None =>
                       status'[candidate[t]] = "failed"
           /\ hpc'[t] = "load_renderer" =>
                 /\ capture[t] # None /\ capture[t].output = Innermost(t).output
                 /\ buffer'[Innermost(t).output] = Innermost(t).renderer
           /\ hpc'[t] # "out" => /\ local'[t].renderer = capture[t].renderer
                                 /\ local'[t].output = Innermost(t).output
           /\ capture'[t] = None
           /\ \A o \in Outputs \ {Innermost(t).output} : buffer'[o] = buffer[o]
           /\ Innermost(t).caller # "config" => status' = status
           /\ \A d \in Configs : d # candidate[t] => status'[d] = status[d]
           /\ \A d \in Configs : status[d] # "new" => status'[d] # "new"
           /\ \A u \in Threads \ {t} :
                 /\ queries'[u] = queries[u] /\ capture'[u] = capture[u]
                 /\ hpc'[u] = hpc[u] /\ local'[u] = local[u]
           /\ UNCHANGED <<bound, caps24, caps28, candidate, staleConfig>>
<1> DEFINE q == Head(queries[t])
           c == capture[t]
           retain == ~success /\ Retainable(t, c)
           repair == success /\ q.output = c.output
           goal == IF c = None \/ ~readable \/ ~(retain \/ repair) THEN "out"
                   ELSE IF retain THEN "store_config" ELSE "load_renderer"
<1>1. queries[t] \in Stacks /\ queries[t] # <<>> /\ hpc[t] = "out"
  BY DEF End, IInv, TypeOK
<1>2. /\ queries' = [queries EXCEPT ![t] = Tail(queries[t])]
      /\ buffer' = IF success THEN [buffer EXCEPT ![q.output] = q.renderer] ELSE buffer
      /\ status' = IF q.caller = "config"
                     THEN [status EXCEPT ![candidate[t]] =
                               IF success THEN "valid" ELSE "failed"]
                     ELSE status
      /\ capture' = [capture EXCEPT ![t] = None]
      /\ hpc' = [hpc EXCEPT ![t] = goal]
      /\ local' = [local EXCEPT ![t] =
                      IF goal = "out" THEN None
                      ELSE [renderer |-> c.renderer, output |-> q.output,
                            config |-> None, nested |-> q.nested]]
      /\ UNCHANGED <<bound, caps24, caps28, candidate, staleConfig>>
  BY DEF End, staleVars
<1>3. /\ goal \in {"out", "store_config", "load_renderer"}
      /\ goal = "store_config" => ~success /\ c # None /\ c.caller = "config"
      /\ goal = "load_renderer" => success /\ c # None /\ c.output = q.output
  BY DEF Retainable
<1> HIDE DEF goal
<1>4. /\ q \in Queries /\ q \in Range(queries[t])
      /\ Range(Tail(queries[t])) \subseteq Range(queries[t])
      /\ Len(queries[t]) = 1 => Range(queries[t]) = {q} /\ Tail(queries[t]) = <<>>
  BY <1>1, StackEntries
<1>5. /\ queries'[t] = Tail(queries[t]) /\ capture'[t] = None /\ hpc'[t] = goal
      /\ goal # "out" => local'[t].renderer = c.renderer /\ local'[t].output = q.output
      /\ \A u \in Threads \ {t} :
            /\ queries'[u] = queries[u] /\ capture'[u] = capture[u]
            /\ hpc'[u] = hpc[u] /\ local'[u] = local[u]
  BY <1>2 DEF IInv, TypeOK
<1>6. Range(<<>>) = {}
  BY DEF Range
<1>7. /\ success => buffer'[q.output] = q.renderer
      /\ \A o \in Outputs \ {q.output} : buffer'[o] = buffer[o]
  BY <1>2, <1>4 DEF IInv, TypeOK, Queries
<1> HIDE DEF q, c
<1>8. /\ q.caller = "config" /\ candidate[t] # None =>
            status'[candidate[t]] = IF success THEN "valid" ELSE "failed"
      /\ q.caller # "config" => status' = status
      /\ \A d \in Configs : d # candidate[t] => status'[d] = status[d]
      /\ \A d \in Configs : status[d] # "new" => status'[d] # "new"
  BY <1>2 DEF IInv, TypeOK
<1> QED
  BY <1>1, <1>2, <1>3, <1>4, <1>5, <1>6, <1>7, <1>8 DEF Innermost, q, c

LEMMA HookHasLocals ==
    ASSUME IInv, NEW t \in Threads, hpc[t] # "out"
    PROVE  local[t] \in Locals
BY DEF IInv, TypeOK, HookInv, HookOK

Writing == {"write_24", "write_28"}

\* The steps of the hook after End: what the guest owns stays, the locals that name
\* the renderer and the output stay until the hook returns, the config it repairs is
\* one whose renderer it has compared.
LEMMA HookMoves ==
    ASSUME IInv, NEW t \in Threads, HookStep(t)
    PROVE  /\ hpc[t] # "out" /\ hpc'[t] # "store_config"
           /\ hpc'[t] # "out" => /\ local'[t].renderer = local[t].renderer
                                 /\ local'[t].output = local[t].output
           /\ hpc'[t] \in Repairing => hpc[t] \in Repairing
           /\ hpc'[t] \in Writing =>
                 \/ /\ hpc[t] \in Writing
                    /\ local'[t].config = local[t].config
                 \/ /\ staleConfig # None /\ bound[staleConfig] = local[t].renderer
                    /\ local'[t].config = staleConfig
           /\ \/ staleConfig' \in {staleConfig, None}
              \/ hpc[t] = "store_config" /\ staleConfig' = candidate[t]
           /\ \A c \in Configs :
                 \/ caps24'[c] = caps24[c] /\ caps28'[c] = caps28[c]
                 \/ /\ hpc[t] \in Writing /\ c = local[t].config
                    /\ caps24'[c] \in {caps24[c], Word(t)}
                    /\ caps28'[c] \in {caps28[c], Word(t)}
           /\ \A u \in Threads \ {t} : hpc'[u] = hpc[u] /\ local'[u] = local[u]
           /\ UNCHANGED <<bound, status, buffer, queries, candidate, capture>>
<1>1. CASE StoreConfig(t) \/ StoreRenderer(t) \/ LoadRenderer(t)
              \/ ClearConfig(t) \/ ClearRenderer(t)
  <2>1. PICK to \in {"store_renderer", "out", "load_config", "clear_renderer"} :
            /\ \/ hpc[t] \in {"store_config", "store_renderer", "clear_config",
                              "clear_renderer"} /\ to # "load_config"
               \/ hpc[t] = "load_renderer"
            /\ HookGoto(t, hpc[t], to)
    BY <1>1 DEF StoreConfig, StoreRenderer, LoadRenderer, ClearConfig, ClearRenderer,
                HookGoto
  <2>2. to \in HookPcs /\ hpc[t] # "out"
    BY <2>1 DEF HookPcs
  <2>3. /\ hpc'[t] = to /\ local'[t] = IF to = "out" THEN None ELSE local[t]
        /\ \A u \in Threads \ {t} : hpc'[u] = hpc[u] /\ local'[u] = local[u]
    BY <2>1, <2>2, HookGotoMoves
  <2>4. UNCHANGED <<gfxVars, threadVars>>
    BY <1>1 DEF StoreConfig, StoreRenderer, LoadRenderer, ClearConfig, ClearRenderer
  <2>5. \/ staleConfig' \in {staleConfig, None}
        \/ hpc[t] = "store_config" /\ staleConfig' = candidate[t]
    BY <1>1 DEF StoreConfig, StoreRenderer, LoadRenderer, ClearConfig, ClearRenderer,
                HookGoto, staleVars
  <2> QED
    BY <2>1, <2>2, <2>3, <2>4, <2>5 DEF gfxVars, threadVars, Repairing, Writing
<1>2. ASSUME NEW accessible \in BOOLEAN, LoadConfig(t, accessible)
      PROVE  /\ hpc[t] = "load_config"
             /\ \/ hpc'[t] = "out"
                \/ /\ hpc'[t] = "write_24"
                   /\ staleConfig # None /\ bound[staleConfig] = local[t].renderer
                   /\ local'[t].config = staleConfig
                   /\ local'[t].renderer = local[t].renderer
                   /\ local'[t].output = local[t].output
             /\ \A u \in Threads \ {t} : hpc'[u] = hpc[u] /\ local'[u] = local[u]
             /\ UNCHANGED <<gfxVars, threadVars, staleVars>>
  <2>1. hpc[t] = "load_config" /\ UNCHANGED <<gfxVars, threadVars, staleVars>>
    BY <1>2 DEF LoadConfig
  <2>2. CASE Eligible(t) /\ accessible
    <3>1. local[t] \in Locals
      BY <2>1, HookHasLocals
    <3>2. /\ hpc' = [hpc EXCEPT ![t] = "write_24"]
          /\ local' = [local EXCEPT ![t].config = staleConfig]
      BY <1>2, <2>2 DEF LoadConfig
    <3>3. hpc'[t] = "write_24" /\ local'[t] = [local[t] EXCEPT !.config = staleConfig]
      BY <3>2 DEF IInv, TypeOK
    <3>4. /\ local'[t].config = staleConfig
          /\ local'[t].renderer = local[t].renderer
          /\ local'[t].output = local[t].output
      BY <3>1, <3>3 DEF Locals
    <3>5. \A u \in Threads \ {t} : hpc'[u] = hpc[u] /\ local'[u] = local[u]
      BY <3>2 DEF IInv, TypeOK
    <3> QED
      BY <2>1, <2>2, <3>3, <3>4, <3>5 DEF Eligible
  <2>3. CASE ~(Eligible(t) /\ accessible)
    BY <1>2, <2>1, <2>3 DEF LoadConfig, IInv, TypeOK
  <2> QED
    BY <2>2, <2>3
<1>3. ASSUME NEW accessible \in BOOLEAN, Write24(t, accessible) \/ Write28(t, accessible)
      PROVE  /\ hpc[t] \in Writing
             /\ hpc'[t] \in {"write_28", "clear_config", "out"}
             /\ hpc'[t] # "out" => local'[t] = local[t]
             /\ \A u \in Threads \ {t} : hpc'[u] = hpc[u] /\ local'[u] = local[u]
             /\ UNCHANGED <<bound, status, buffer, queries, threadVars, staleVars>>
             /\ \A c \in Configs :
                   \/ caps24'[c] = caps24[c] /\ caps28'[c] = caps28[c]
                   \/ /\ c = local[t].config
                      /\ caps24'[c] \in {caps24[c], Word(t)}
                      /\ caps28'[c] \in {caps28[c], Word(t)}
  BY <1>3 DEF Write24, Write28, HookGoto, Writing, IInv, TypeOK
<1>4. CASE \E accessible \in BOOLEAN : LoadConfig(t, accessible)
  BY <1>2, <1>4 DEF gfxVars, threadVars, staleVars, Repairing, Writing
<1>5. CASE \E accessible \in BOOLEAN : Write24(t, accessible) \/ Write28(t, accessible)
  <2>1. PICK accessible \in BOOLEAN : Write24(t, accessible) \/ Write28(t, accessible)
    BY <1>5
  <2> QED
    BY <1>3, <2>1 DEF threadVars, staleVars, Repairing, Writing
<1> QED
  BY <1>1, <1>4, <1>5 DEF HookStep

-----------------------------------------------------------------------------
(* Configs that were set up, at any nesting depth: a hook only ever handles   *)
(* configs whose renderer can no longer change.                               *)

SetUpOK(t) ==
    /\ candidate[t] # None => status[candidate[t]] # "new"
    /\ hpc[t] \in Writing => /\ status[local[t].config] # "new"
                             /\ bound[local[t].config] = local[t].renderer

SetUpInv ==
    /\ \A t \in Threads : SetUpOK(t)
    /\ \A t, u \in Threads :
          t # u /\ candidate[t] # None => candidate[t] # candidate[u]
    /\ staleConfig # None => status[staleConfig] # "new"
    /\ \A c \in Configs : status[c] = "new" => caps24[c] = None /\ caps28[c] = None

LEMMA RememberSetUp ==
    ASSUME IInv, SetUpInv, NEW t \in Threads, NEW c \in Configs, NEW r \in Renderers,
           Remember(t, c, r)
    PROVE  SetUpInv'
<1>1. /\ hpc[t] = "out" /\ status[c] = "new"
      /\ candidate'[t] = c /\ \A u \in Threads \ {t} : candidate'[u] = candidate[u]
      /\ status'[c] = "setup" /\ \A d \in Configs \ {c} : status'[d] = status[d]
      /\ bound'[c] = r /\ \A d \in Configs \ {c} : bound'[d] = bound[d]
      /\ UNCHANGED <<caps24, caps28, hpc, local, staleConfig>>
  BY RememberMoves
<1>2. \A u \in Threads : candidate[u] # None => candidate[u] \in Configs \ {c}
  BY <1>1 DEF SetUpInv, SetUpOK, IInv, TypeOK
<1>3. ASSUME NEW u \in Threads PROVE SetUpOK(u)'
  <2>1. hpc[u] \in Writing => local[u].config \in Configs \ {c}
    BY <1>1 DEF SetUpInv, SetUpOK, IInv, HookInv, HookOK, Chosen, Writing
  <2>2. SetUpOK(u)
    BY DEF SetUpInv
  <2>3. candidate'[u] # None => status'[candidate'[u]] # "new"
    BY <1>1, <1>2, <2>2 DEF SetUpOK
  <2>4. hpc[u] \in Writing => /\ status'[local[u].config] # "new"
                              /\ bound'[local[u].config] = local[u].renderer
    BY <1>1, <2>1, <2>2 DEF SetUpOK
  <2> QED
    BY <1>1, <2>3, <2>4 DEF SetUpOK
<1>4. \A u, w \in Threads : u # w /\ candidate'[u] # None => candidate'[u] # candidate'[w]
  BY <1>1, <1>2, CapsAssumption DEF SetUpInv
<1>5. staleConfig' # None => status'[staleConfig'] # "new"
  BY <1>1 DEF SetUpInv, IInv, TypeOK
<1>6. \A d \in Configs : status'[d] = "new" => caps24'[d] = None /\ caps28'[d] = None
  BY <1>1 DEF SetUpInv
<1> QED
  BY <1>3, <1>4, <1>5, <1>6 DEF SetUpInv

LEMMA HookSetUp ==
    ASSUME IInv, IInv', SetUpInv, NEW t \in Threads, HookStep(t)
    PROVE  SetUpInv'
<1>1. UNCHANGED <<bound, status, candidate>>
  BY HookMoves
<1>2. ASSUME NEW u \in Threads PROVE SetUpOK(u)'
  <2>1. SetUpOK(u) /\ SetUpOK(t)
    BY DEF SetUpInv
  <2>2. CASE u = t
    <3>1. hpc'[t] \in Writing =>
             \/ /\ hpc[t] \in Writing /\ local'[t].config = local[t].config
                /\ local'[t].renderer = local[t].renderer
             \/ /\ staleConfig # None /\ bound[staleConfig] = local[t].renderer
                /\ local'[t].config = staleConfig
                /\ local'[t].renderer = local[t].renderer
      BY HookMoves DEF Writing
    <3>2. hpc'[t] \in Writing => /\ status[local'[t].config] # "new"
                                 /\ bound[local'[t].config] = local'[t].renderer
      BY <2>1, <3>1 DEF SetUpInv, SetUpOK
    <3> QED
      BY <1>1, <2>1, <2>2, <3>2, ZenonT(60) DEF SetUpOK
  <2>3. CASE u # t
    <3>1. hpc'[u] = hpc[u] /\ local'[u] = local[u]
      BY <2>3, HookMoves
    <3> QED
      BY <1>1, <2>1, <3>1 DEF SetUpOK
  <2> QED
    BY <2>2, <2>3
<1>3. staleConfig' # None => status'[staleConfig'] # "new"
  <2>1. \/ staleConfig' \in {staleConfig, None} \/ staleConfig' = candidate[t]
    BY HookMoves
  <2> QED
    BY <1>1, <2>1 DEF SetUpInv, SetUpOK
<1>4. ASSUME NEW c \in Configs, status'[c] = "new"
      PROVE  caps24'[c] = None /\ caps28'[c] = None
  <2>1. \/ caps24'[c] = caps24[c] /\ caps28'[c] = caps28[c]
        \/ hpc[t] \in Writing /\ c = local[t].config
    BY HookMoves
  <2> QED
    BY <1>1, <1>4, <2>1 DEF SetUpInv, SetUpOK
<1> QED
  BY <1>1, <1>2, <1>3, <1>4 DEF SetUpInv

LEMMA NextSetUp ==
    ASSUME IInv, IInv', SetUpInv, [Next]_vars
    PROVE  SetUpInv'
<1>1. ASSUME NEW t \in Threads, NEW r \in Renderers, NEW o \in Outputs, Begin(t, r, o)
      PROVE  SetUpInv'
  BY <1>1 DEF Begin, SetUpInv, SetUpOK, staleVars
<1>2. ASSUME NEW t \in Threads, NEW success \in BOOLEAN, NEW readable \in BOOLEAN,
             End(t, success, readable)
      PROVE  SetUpInv'
  <2>1. /\ UNCHANGED <<bound, caps24, caps28, candidate, staleConfig>>
        /\ \A d \in Configs : status[d] # "new" => status'[d] # "new"
        /\ hpc'[t] \in {"out", "store_config", "load_renderer"}
        /\ \A u \in Threads \ {t} : hpc'[u] = hpc[u] /\ local'[u] = local[u]
    BY <1>2, EndMoves
  <2>2. ASSUME NEW u \in Threads PROVE SetUpOK(u)'
    <3>1. SetUpOK(u) /\ HookOK(u)
      BY DEF SetUpInv, IInv, HookInv
    <3>2. candidate[u] # None => candidate[u] \in Configs
      BY DEF IInv, TypeOK
    <3>3. candidate'[u] # None => status'[candidate'[u]] # "new"
      BY <2>1, <3>1, <3>2 DEF SetUpOK
    <3>4. hpc'[u] \in Writing => u # t
      BY <2>1 DEF Writing
    <3>5. hpc[u] \in Writing => local[u].config \in Configs
      BY <3>1 DEF HookOK, Writing, Chosen
    <3> QED
      BY <2>1, <3>1, <3>3, <3>4, <3>5 DEF SetUpOK
  <2>3. staleConfig' # None => status'[staleConfig'] # "new"
    BY <2>1 DEF SetUpInv, IInv, TypeOK
  <2> QED
    BY <2>1, <2>2, <2>3 DEF SetUpInv
<1>3. CASE UNCHANGED vars
  BY <1>3 DEF vars, gfxVars, threadVars, staleVars, SetUpInv, SetUpOK
<1> QED
  BY <1>1, <1>2, <1>3, RememberSetUp, HookSetUp DEF Next, GuestStep

LEMMA SetUp == Spec => []SetUpInv
<1>1. Init => SetUpInv
  BY DEF Init, SetUpInv, SetUpOK, Writing
<1>2. IInv /\ IInv' /\ SetUpInv /\ [Next]_vars => SetUpInv'
  BY NextSetUp
<1> QED
  BY <1>1, <1>2, Inductive, PTL DEF Spec

-----------------------------------------------------------------------------
(* Whose caps are written.  Queries may nest; what matters is that a thread   *)
(* never has two renderers write to one output at a time.                     *)

\* GFx keeps apart the outputs of queries that are nested in one another, unless they
\* ask the same renderer.
OneOwnerPerOutput ==
    \A t \in Threads : \A p, q \in Range(queries[t]) :
        p.output = q.output => p.renderer = q.renderer

\* A thread observes one of its queries, and repairs with caps that are still in place.
OwnOK(t) ==
    /\ capture[t] # None =>
          \E q \in Range(queries[t]) :
             capture[t].output = q.output /\ capture[t].renderer = q.renderer
    /\ hpc[t] \in Repairing => buffer[local[t].output] = local[t].renderer

\* No output in use by one thread is in use by another.
Apart(t, u) ==
    /\ \A p \in Range(queries[t]), q \in Range(queries[u]) : p.output # q.output
    /\ hpc[u] # "out" => \A p \in Range(queries[t]) : p.output # local[u].output

OwnInv ==
    /\ \A t \in Threads : OwnOK(t)
    /\ \A t, u \in Threads : t # u => Apart(t, u)
    /\ CapsAreOwn

LEMMA BeginOwn ==
    ASSUME IInv, OwnInv, NEW t \in Threads, NEW r \in Renderers, NEW o \in Outputs,
           Begin(t, r, o)
    PROVE  OwnInv'
<1>1. PICK q \in Queries :
         /\ Range(queries'[t]) = {q} \cup Range(queries[t])
         /\ hpc[t] = "out"
         /\ Private(t, q.output)
         /\ \/ capture'[t] = capture[t]
            \/ capture'[t] = [renderer |-> q.renderer, output |-> q.output,
                              caller |-> q.caller]
         /\ \A u \in Threads \ {t} : queries'[u] = queries[u] /\ capture'[u] = capture[u]
         /\ UNCHANGED <<bound, caps24, caps28, buffer, hpc, local>>
  BY BeginMoves
<1>2. ASSUME NEW u \in Threads PROVE OwnOK(u)'
  <2>1. OwnOK(u)
    BY DEF OwnInv
  <2> QED
    BY <1>1, <2>1 DEF OwnOK
<1>3. ASSUME NEW u \in Threads \ {t}
      PROVE  /\ \A p \in Range(queries[u]) : p.output # q.output
             /\ hpc[u] # "out" => local[u].output # q.output
  BY <1>1 DEF Private, Range, IInv, HookInv, HookOK
<1>4. ASSUME NEW u \in Threads, NEW w \in Threads, u # w PROVE Apart(u, w)'
  <2>1. Apart(u, w)
    BY <1>4 DEF OwnInv
  <2>2. CASE u = t
    BY <1>1, <1>3, <1>4, <2>1, <2>2 DEF Apart
  <2>3. CASE w = t
    BY <1>1, <1>3, <1>4, <2>1, <2>3 DEF Apart
  <2>4. CASE u # t /\ w # t
    BY <1>1, <2>1, <2>4 DEF Apart
  <2> QED
    BY <2>2, <2>3, <2>4
<1>5. CapsAreOwn'
  BY <1>1 DEF OwnInv, CapsAreOwn
<1> QED
  BY <1>2, <1>4, <1>5 DEF OwnInv

LEMMA EndOwn ==
    ASSUME IInv, OwnInv, OneOwnerPerOutput, NEW t \in Threads,
           NEW success \in BOOLEAN, NEW readable \in BOOLEAN,
           End(t, success, readable)
    PROVE  OwnInv'
<1> DEFINE q == Innermost(t)
<1>1. /\ q \in Queries /\ q \in Range(queries[t])
      /\ Range(queries'[t]) \subseteq Range(queries[t])
      /\ hpc'[t] \in {"out", "store_config", "load_renderer"}
      /\ hpc'[t] = "load_renderer" =>
            /\ capture[t] # None /\ capture[t].output = q.output
            /\ buffer'[q.output] = q.renderer
      /\ hpc'[t] # "out" => /\ local'[t].renderer = capture[t].renderer
                            /\ local'[t].output = q.output
      /\ capture'[t] = None
      /\ \A o \in Outputs \ {q.output} : buffer'[o] = buffer[o]
      /\ \A u \in Threads \ {t} :
            /\ queries'[u] = queries[u] /\ capture'[u] = capture[u]
            /\ hpc'[u] = hpc[u] /\ local'[u] = local[u]
      /\ UNCHANGED <<bound, caps24, caps28>>
  BY EndMoves
<1>2. capture[t] # None /\ capture[t].output = q.output =>
         capture[t].renderer = q.renderer
  BY <1>1 DEF OwnInv, OwnOK, OneOwnerPerOutput
<1> HIDE DEF q
<1>3. ASSUME NEW u \in Threads PROVE OwnOK(u)'
  <2>1. CASE u = t
    BY <1>1, <1>2, <2>1 DEF OwnOK, Repairing
  <2>2. CASE u # t
    <3>1. OwnOK(u) /\ Apart(t, u)
      BY <2>2 DEF OwnInv
    <3>2. hpc[u] \in Repairing => /\ local[u].output \in Outputs
                                  /\ local[u].output # q.output
      BY <1>1, <3>1, HookHasLocals DEF Apart, Repairing, Locals
    <3> QED
      BY <1>1, <2>2, <3>1, <3>2 DEF OwnOK
  <2> QED
    BY <2>1, <2>2
<1>4. ASSUME NEW u \in Threads, NEW w \in Threads, u # w PROVE Apart(u, w)'
  <2>1. Apart(u, w)
    BY <1>4 DEF OwnInv
  <2>2. CASE u = t
    BY <1>1, <1>4, <2>1, <2>2 DEF Apart
  <2>3. CASE w = t
    BY <1>1, <1>4, <2>1, <2>3 DEF Apart
  <2>4. CASE u # t /\ w # t
    BY <1>1, <2>1, <2>4 DEF Apart
  <2> QED
    BY <2>2, <2>3, <2>4
<1>5. CapsAreOwn'
  BY <1>1 DEF OwnInv, CapsAreOwn
<1> QED
  BY <1>3, <1>4, <1>5 DEF OwnInv

LEMMA HookOwn ==
    ASSUME IInv, SetUpInv, OwnInv, NEW t \in Threads, HookStep(t)
    PROVE  OwnInv'
<1>1. /\ hpc[t] # "out"
      /\ hpc'[t] # "out" => /\ local'[t].renderer = local[t].renderer
                            /\ local'[t].output = local[t].output
      /\ hpc'[t] \in Repairing => hpc[t] \in Repairing
      /\ \A c \in Configs :
            \/ caps24'[c] = caps24[c] /\ caps28'[c] = caps28[c]
            \/ /\ hpc[t] \in Writing /\ c = local[t].config
               /\ caps24'[c] \in {caps24[c], Word(t)}
               /\ caps28'[c] \in {caps28[c], Word(t)}
      /\ \A u \in Threads \ {t} : hpc'[u] = hpc[u] /\ local'[u] = local[u]
      /\ UNCHANGED <<bound, buffer, queries, capture>>
  BY HookMoves
<1>2. ASSUME NEW u \in Threads PROVE OwnOK(u)'
  <2>1. OwnOK(u)
    BY DEF OwnInv
  <2>2. CASE u = t
    BY <1>1, <2>1, <2>2 DEF OwnOK, Repairing
  <2>3. CASE u # t
    BY <1>1, <2>1, <2>3 DEF OwnOK
  <2> QED
    BY <2>2, <2>3
<1>3. ASSUME NEW u \in Threads, NEW w \in Threads, u # w PROVE Apart(u, w)'
  <2>1. Apart(u, w)
    BY <1>3 DEF OwnInv
  <2> QED
    BY <1>1, <2>1 DEF Apart
<1>4. CapsAreOwn'
  <2> SUFFICES ASSUME NEW c \in Configs
               PROVE  {caps24'[c], caps28'[c]} \subseteq {None, bound[c]}
    BY <1>1 DEF CapsAreOwn
  <2>1. {caps24[c], caps28[c]} \subseteq {None, bound[c]}
    BY DEF OwnInv, CapsAreOwn
  <2>2. hpc[t] \in Writing => Word(t) = bound[local[t].config]
    BY DEF OwnInv, OwnOK, SetUpInv, SetUpOK, Word, Writing, Repairing
  <2> QED
    BY <1>1, <2>1, <2>2
<1> QED
  BY <1>2, <1>3, <1>4 DEF OwnInv

LEMMA NextOwn ==
    ASSUME IInv, SetUpInv, OwnInv, OneOwnerPerOutput, [Next]_vars
    PROVE  OwnInv'
<1>1. ASSUME NEW t \in Threads, NEW c \in Configs, NEW r \in Renderers, Remember(t, c, r)
      PROVE  OwnInv'
  <2>1. /\ status[c] = "new"
        /\ \A d \in Configs \ {c} : bound'[d] = bound[d]
        /\ UNCHANGED <<caps24, caps28, buffer, queries, capture, hpc, local>>
    BY <1>1, RememberMoves
  <2>2. caps24[c] = None /\ caps28[c] = None
    BY <2>1 DEF SetUpInv
  <2>3. CapsAreOwn'
    BY <2>1, <2>2 DEF OwnInv, CapsAreOwn
  <2> QED
    BY <2>1, <2>3 DEF OwnInv, OwnOK, Apart
<1>2. ASSUME NEW t \in Threads, GuestStep(t) PROVE OwnInv'
  BY <1>1, <1>2, BeginOwn, EndOwn DEF GuestStep
<1>3. CASE UNCHANGED vars
  BY <1>3 DEF vars, gfxVars, threadVars, OwnInv, OwnOK, Apart, CapsAreOwn
<1> QED
  BY <1>2, <1>3, HookOwn DEF Next

\* At any nesting depth: as long as nested queries of different renderers have
\* different outputs, a config is only rewritten with the caps of the renderer it
\* names, whatever other threads do to the two atomics.
THEOREM CapsOwn == Spec => ([]OneOwnerPerOutput => []CapsAreOwn)
<1>1. Init => OwnInv
  BY DEF Init, OwnInv, OwnOK, Apart, CapsAreOwn, Repairing, Range
<1>2. IInv /\ SetUpInv /\ OwnInv /\ OneOwnerPerOutput /\ [Next]_vars => OwnInv'
  BY NextOwn
<1>3. OwnInv => CapsAreOwn
  BY DEF OwnInv
<1> QED
  BY <1>1, <1>2, <1>3, Inductive, SetUp, PTL DEF Spec

-----------------------------------------------------------------------------
(* Which config is retained.  The query of a set-up may be nested in nothing; *)
(* what matters is that nothing is nested in it.                              *)

\* The caps query of a config's set-up makes no query of its own.
ConfigQueriesAreLeaves ==
    \A t \in Threads : \A q \in Range(queries[t]) :
        q.caller = "config" => Len(queries[t]) = 1

\* The observed query of a set-up is one in progress, for a candidate being set up.
RetainOK(t) ==
    /\ capture[t] # None /\ capture[t].caller = "config" =>
          \E q \in Range(queries[t]) : q.caller = "config"
    /\ \A q \in Range(queries[t]) :
          q.caller = "config" => candidate[t] # None /\ status[candidate[t]] = "setup"
    /\ hpc[t] = "store_config" =>
          candidate[t] # None /\ status[candidate[t]] = "failed"

RetainInv == (\A t \in Threads : RetainOK(t)) /\ OnlyFailedRetained

LEMMA RememberRetain ==
    ASSUME IInv, SetUpInv, RetainInv, NEW t \in Threads, NEW c \in Configs,
           NEW r \in Renderers, Remember(t, c, r)
    PROVE  RetainInv'
<1>1. /\ hpc[t] = "out" /\ queries[t] = <<>> /\ status[c] = "new"
      /\ candidate'[t] = c /\ \A u \in Threads \ {t} : candidate'[u] = candidate[u]
      /\ \A d \in Configs \ {c} : status'[d] = status[d]
      /\ UNCHANGED <<queries, capture, hpc, local, staleConfig>>
  BY RememberMoves
<1>2. Range(queries[t]) = {}
  BY <1>1 DEF Range
<1>3. ASSUME NEW u \in Threads PROVE RetainOK(u)'
  <2>1. RetainOK(u)
    BY DEF RetainInv
  <2>2. u # t /\ candidate[u] # None => status'[candidate[u]] = status[candidate[u]]
    BY <1>1 DEF SetUpInv, SetUpOK, IInv, TypeOK
  <2>3. CASE u = t
    BY <1>1, <1>2, <2>1, <2>3 DEF RetainOK
  <2>4. CASE u # t
    BY <1>1, <2>1, <2>2, <2>4 DEF RetainOK
  <2> QED
    BY <2>3, <2>4
<1>4. OnlyFailedRetained'
  BY <1>1 DEF RetainInv, OnlyFailedRetained, IInv, TypeOK
<1> QED
  BY <1>3, <1>4 DEF RetainInv

LEMMA BeginRetain ==
    ASSUME IInv, RetainInv, NEW t \in Threads, NEW r \in Renderers, NEW o \in Outputs,
           Begin(t, r, o)
    PROVE  RetainInv'
<1>1. PICK q \in Queries :
         /\ Range(queries'[t]) = {q} \cup Range(queries[t])
         /\ q.caller = "config" => candidate[t] # None /\ status[candidate[t]] = "setup"
         /\ \/ capture'[t] = capture[t]
            \/ capture'[t] = [renderer |-> q.renderer, output |-> q.output,
                              caller |-> q.caller]
         /\ \A u \in Threads \ {t} : queries'[u] = queries[u] /\ capture'[u] = capture[u]
         /\ UNCHANGED <<status, candidate, hpc, staleConfig>>
  BY BeginMoves
<1>2. ASSUME NEW u \in Threads PROVE RetainOK(u)'
  <2>1. RetainOK(u)
    BY DEF RetainInv
  <2>2. CASE u = t
    BY <1>1, <2>1, <2>2 DEF RetainOK
  <2>3. CASE u # t
    BY <1>1, <2>1, <2>3 DEF RetainOK
  <2> QED
    BY <2>2, <2>3
<1>3. OnlyFailedRetained'
  BY <1>1 DEF RetainInv, OnlyFailedRetained
<1> QED
  BY <1>2, <1>3 DEF RetainInv

LEMMA EndRetain ==
    ASSUME IInv, SetUpInv, RetainInv, ConfigQueriesAreLeaves, NEW t \in Threads,
           NEW success \in BOOLEAN, NEW readable \in BOOLEAN,
           End(t, success, readable)
    PROVE  RetainInv'
<1> DEFINE q == Innermost(t)
<1>1. /\ q \in Range(queries[t])
      /\ Range(queries'[t]) \subseteq Range(queries[t])
      /\ Len(queries[t]) = 1 => Range(queries[t]) = {q} /\ Range(queries'[t]) = {}
      /\ hpc'[t] = "store_config" => capture[t] # None /\ capture[t].caller = "config"
      /\ hpc'[t] = "store_config" /\ q.caller = "config" /\ candidate[t] # None =>
            status'[candidate[t]] = "failed"
      /\ capture'[t] = None
      /\ q.caller # "config" => status' = status
      /\ \A d \in Configs : d # candidate[t] => status'[d] = status[d]
      /\ \A u \in Threads \ {t} :
            queries'[u] = queries[u] /\ capture'[u] = capture[u] /\ hpc'[u] = hpc[u]
      /\ UNCHANGED <<candidate, staleConfig>>
  BY EndMoves, SMTT(30)
<1> HIDE DEF q
<1>2. RetainOK(t)
  BY DEF RetainInv
<1>3. \A p \in Range(queries'[t]) : p.caller # "config"
  BY <1>1 DEF ConfigQueriesAreLeaves
<1>4. hpc'[t] = "store_config" => q.caller = "config"
  BY <1>1, <1>2 DEF RetainOK, ConfigQueriesAreLeaves
<1>5. q.caller = "config" => candidate[t] # None /\ status[candidate[t]] = "setup"
  BY <1>1, <1>2 DEF RetainOK
<1>6. ASSUME NEW u \in Threads PROVE RetainOK(u)'
  <2>1. CASE u = t
    BY <1>1, <1>3, <1>4, <1>5, <2>1 DEF RetainOK
  <2>2. CASE u # t
    <3>1. RetainOK(u)
      BY DEF RetainInv
    <3>2. candidate[u] # None => status'[candidate[u]] = status[candidate[u]]
      BY <1>1, <2>2 DEF SetUpInv, IInv, TypeOK
    <3> QED
      BY <1>1, <2>2, <3>1, <3>2 DEF RetainOK
  <2> QED
    BY <2>1, <2>2
<1>7. OnlyFailedRetained'
  <2>1. staleConfig # None => staleConfig \in Configs /\ status[staleConfig] = "failed"
    BY DEF RetainInv, OnlyFailedRetained, IInv, TypeOK
  <2>2. staleConfig # None => status'[staleConfig] = "failed"
    BY <1>1, <1>5, <2>1
  <2> QED
    BY <1>1, <2>2 DEF OnlyFailedRetained
<1> QED
  BY <1>6, <1>7 DEF RetainInv

LEMMA NextRetain ==
    ASSUME IInv, SetUpInv, RetainInv, ConfigQueriesAreLeaves, [Next]_vars
    PROVE  RetainInv'
<1>1. ASSUME NEW t \in Threads, HookStep(t) PROVE RetainInv'
  <2>1. /\ hpc'[t] # "store_config"
        /\ \/ staleConfig' \in {staleConfig, None}
           \/ hpc[t] = "store_config" /\ staleConfig' = candidate[t]
        /\ \A u \in Threads \ {t} : hpc'[u] = hpc[u]
        /\ UNCHANGED <<status, queries, candidate, capture>>
    BY <1>1, HookMoves
  <2>2. ASSUME NEW u \in Threads PROVE RetainOK(u)'
    <3>1. RetainOK(u)
      BY DEF RetainInv
    <3> QED
      BY <2>1, <3>1 DEF RetainOK
  <2>3. OnlyFailedRetained'
    BY <2>1 DEF RetainInv, RetainOK, OnlyFailedRetained
  <2> QED
    BY <2>2, <2>3 DEF RetainInv
<1>2. CASE UNCHANGED vars
  BY <1>2 DEF vars, gfxVars, threadVars, staleVars, RetainInv, RetainOK,
              OnlyFailedRetained
<1>3. ASSUME NEW t \in Threads, GuestStep(t) PROVE RetainInv'
  BY <1>3, RememberRetain, BeginRetain, EndRetain DEF GuestStep
<1> QED
  BY <1>1, <1>2, <1>3 DEF Next

\* At any nesting depth: as long as the query of a set-up makes no query of its own,
\* only a config whose own query failed is ever retained.
THEOREM OnlyFailed == Spec => ([]ConfigQueriesAreLeaves => []OnlyFailedRetained)
<1>1. Init => RetainInv
  BY DEF Init, RetainInv, RetainOK, OnlyFailedRetained, Range
<1>2. IInv /\ SetUpInv /\ RetainInv /\ ConfigQueriesAreLeaves /\ [Next]_vars => RetainInv'
  BY NextRetain
<1>3. RetainInv => OnlyFailedRetained
  BY DEF RetainInv
<1> QED
  BY <1>1, <1>2, <1>3, Inductive, SetUp, PTL DEF Spec

-----------------------------------------------------------------------------
(* Queries that do not nest meet both conditions.                             *)

LEMMA OneQuery ==
    ASSUME MaxDepth = 1, TypeOK
    PROVE  OneOwnerPerOutput /\ ConfigQueriesAreLeaves
<1> SUFFICES ASSUME NEW t \in Threads
             PROVE  /\ \A p, q \in Range(queries[t]) : p = q
                    /\ \A q \in Range(queries[t]) : Len(queries[t]) = 1
  BY DEF OneOwnerPerOutput, ConfigQueriesAreLeaves
<1>1. queries[t] \in Stacks
  BY DEF TypeOK
<1>2. CASE queries[t] = <<>>
  BY <1>1, <1>2, StackEntries
<1>3. CASE queries[t] # <<>>
  <2>1. queries[t] \in Seq(Queries) /\ Len(queries[t]) <= 1
    BY <1>1, StacksAreSequences
  <2>2. Len(queries[t]) = 1
    <3>1. Len(queries[t]) \in Nat \ {0}
      BY <1>3, <2>1, EmptySeq, Zenon
    <3>2. \A n \in Nat \ {0} : n <= 1 => n = 1
      OBVIOUS
    <3> QED
      BY <2>1, <3>1, <3>2, Zenon
  <2>3. Range(queries[t]) = {Head(queries[t])}
    BY <1>1, <1>3, <2>2, StackEntries
  <2> QED
    BY <2>2, <2>3
<1> QED
  BY <1>2, <1>3

\* When queries do not nest, the caps written are always the config's own, and only a
\* config whose own query failed is ever retained.
THEOREM WithoutNesting == Spec => [](MaxDepth = 1 => CapsAreOwn /\ OnlyFailedRetained)
<1>1. CASE MaxDepth = 1
  <2>1. TypeOK => OneOwnerPerOutput /\ ConfigQueriesAreLeaves
    BY <1>1, OneQuery
  <2>2. CapsAreOwn /\ OnlyFailedRetained =>
           (MaxDepth = 1 => CapsAreOwn /\ OnlyFailedRetained)
    OBVIOUS
  <2> QED
    BY <2>1, <2>2, TypeCorrect, CapsOwn, OnlyFailed, PTL
<1>2. CASE MaxDepth # 1
  <2>1. MaxDepth = 1 => CapsAreOwn /\ OnlyFailedRetained
    BY <1>2
  <2> QED
    BY <2>1, PTL
<1> QED
  BY <1>1, <1>2
=============================================================================
