---------------------------- MODULE GfxRenderCaps ----------------------------
(* The render-caps repair of src/compat_hooks.cpp.  Guest threads run GFx      *)
(* code; three hooks watch it.  A render config is set up at 0x82245050       *)
(* (ReRevvedRememberGfxRenderConfig), which queries the caps of its renderer; *)
(* every query runs from 0x82302E90 (Begin) to 0x82302F0C (End).  A config    *)
(* whose query failed is kept in two process-wide atomics until a later query *)
(* of the same renderer succeeds, and then two words of it are rewritten.     *)
(* GFx itself is external: what it may call is taken from the hook addresses, *)
(* the registers the hooks read and the caller the End hook tests.            *)
EXTENDS Naturals, Sequences

CONSTANTS
    Threads,      \* guest threads
    Renderers,
    Configs,      \* render-config objects; each is set up once
    Outputs,      \* buffers the queries write their caps to
    None,         \* the null word: no config, no renderer, no caps
    MaxDepth      \* bound: queries of one thread nested in one another

ASSUME CapsAssumption ==
    /\ None \notin Renderers \cup Configs \cup Outputs
    /\ MaxDepth \in Nat \ {0}

VARIABLES
    \* GFx
    bound,           \* per config: the renderer at +0x14, None before set-up
    status,          \* per config: "new", "setup", "failed" or "valid" caps query
    caps24, caps28,  \* per config: whose caps the repair wrote to +0x24, +0x28
    buffer,          \* per output: the renderer whose caps it holds
    queries,         \* per thread: the queries in progress, innermost first
    \* thread_local state of the hooks
    candidate,       \* gfx_render_config_candidate
    candRenderer,    \* gfx_render_config_renderer
    capture,         \* gfx_render_caps
    \* the End hook in progress
    hpc,             \* where it is
    local,           \* its local state, and the output and config it works on
    \* process-wide
    staleConfig,     \* gfx_stale_render_config
    staleRenderer    \* gfx_stale_render_config_renderer

gfxVars == <<bound, status, caps24, caps28, buffer, queries>>
threadVars == <<candidate, candRenderer, capture>>
staleVars == <<staleConfig, staleRenderer>>
vars == <<gfxVars, threadVars, hpc, local, staleVars>>

Callers == {"config", "other"}    \* "config" is a return address of 0x82245130
Queries == [renderer : Renderers, output : Outputs, caller : Callers,
            nested : BOOLEAN]
Stacks == UNION {[1 .. n -> Queries] : n \in 0 .. MaxDepth}
Captures == [renderer : Renderers, output : Outputs, caller : Callers]

HookPcs == {"out", "store_config", "store_renderer", "load_renderer",
            "load_config", "write_24", "write_28", "clear_config",
            "clear_renderer"}
Locals == [renderer : Renderers, output : Outputs, config : Configs \cup {None},
           nested : BOOLEAN]

ASSUME NoneAssumption == None \notin Captures \cup Locals

TypeOK ==
    /\ bound \in [Configs -> Renderers \cup {None}]
    /\ status \in [Configs -> {"new", "setup", "failed", "valid"}]
    /\ caps24 \in [Configs -> Renderers \cup {None}]
    /\ caps28 \in [Configs -> Renderers \cup {None}]
    /\ buffer \in [Outputs -> Renderers \cup {None}]
    /\ queries \in [Threads -> Stacks]
    /\ candidate \in [Threads -> Configs \cup {None}]
    /\ candRenderer \in [Threads -> Renderers \cup {None}]
    /\ capture \in [Threads -> Captures \cup {None}]
    /\ hpc \in [Threads -> HookPcs]
    /\ local \in [Threads -> Locals \cup {None}]
    /\ staleConfig \in Configs \cup {None}
    /\ staleRenderer \in Renderers \cup {None}

Init ==
    /\ bound = [c \in Configs |-> None]
    /\ status = [c \in Configs |-> "new"]
    /\ caps24 = [c \in Configs |-> None]
    /\ caps28 = [c \in Configs |-> None]
    /\ buffer = [o \in Outputs |-> None]
    /\ queries = [t \in Threads |-> <<>>]
    /\ candidate = [t \in Threads |-> None]
    /\ candRenderer = [t \in Threads |-> None]
    /\ capture = [t \in Threads |-> None]
    /\ hpc = [t \in Threads |-> "out"]
    /\ local = [t \in Threads |-> None]
    /\ staleConfig = None
    /\ staleRenderer = None

-----------------------------------------------------------------------------
(* Guest calls and the hooks at their boundaries.                             *)

\* GFx sets up config c for renderer r; the hook remembers both.
Remember(t, c, r) ==
    /\ hpc[t] = "out" /\ queries[t] = <<>>
    /\ status[c] = "new"
    /\ bound' = [bound EXCEPT ![c] = r]
    /\ status' = [status EXCEPT ![c] = "setup"]
    /\ candidate' = [candidate EXCEPT ![t] = c]
    /\ candRenderer' = [candRenderer EXCEPT ![t] = r]
    /\ UNCHANGED <<caps24, caps28, buffer, queries, capture, hpc, local, staleVars>>

\* A thread that is setting up a config queries from 0x82245130, and only then.
CallerOf(t) ==
    IF candidate[t] # None /\ status[candidate[t]] = "setup" /\ queries[t] = <<>>
      THEN "config" ELSE "other"

\* Outputs are buffers of the querying thread.
Private(t, o) ==
    \A u \in Threads \ {t} :
        /\ \A i \in DOMAIN queries[u] : queries[u][i].output # o
        /\ local[u] # None => local[u].output # o

\* A query starts; a begin inside a query that is being observed is ignored.
Begin(t, r, o) ==
    LET q == [renderer |-> r, output |-> o, caller |-> CallerOf(t),
              nested |-> queries[t] # <<>>]
    IN  /\ hpc[t] = "out"
        /\ Len(queries[t]) < MaxDepth
        /\ Private(t, o)
        /\ q.caller = "config" => r = bound[candidate[t]]
        /\ queries' = [queries EXCEPT ![t] = <<q>> \o @]
        /\ capture' = IF capture[t] # None THEN capture
                      ELSE [capture EXCEPT ![t] = [renderer |-> r, output |-> o,
                                                   caller |-> q.caller]]
        /\ UNCHANGED <<bound, status, caps24, caps28, buffer, candidate,
                       candRenderer, hpc, local, staleVars>>

\* Faulty: any caller's failed query is kept.
RetainableAnyCaller(t, c) == candRenderer[t] = c.renderer

\* The failed query to keep: asked for by 0x82245130 on behalf of the candidate.
Retainable(t, c) ==
    /\ c.caller = "config"
    /\ candRenderer[t] = c.renderer

\* The innermost query returns and the End hook runs up to its first atomic.
\* success is r3; readable stands for the range check of either branch.
End(t, success, readable) ==
    LET q == Head(queries[t])
        c == capture[t]
        retain == ~success /\ Retainable(t, c)
        repair == success /\ q.output = c.output
        next == IF c = None \/ ~readable \/ ~(retain \/ repair) THEN "out"
                ELSE IF retain THEN "store_config" ELSE "load_renderer"
    IN  /\ hpc[t] = "out" /\ queries[t] # <<>>
        /\ queries' = [queries EXCEPT ![t] = Tail(@)]
        /\ buffer' = IF success THEN [buffer EXCEPT ![q.output] = q.renderer]
                     ELSE buffer
        /\ status' = IF q.caller = "config"
                       THEN [status EXCEPT ![candidate[t]] =
                                 IF success THEN "valid" ELSE "failed"]
                       ELSE status
        /\ capture' = [capture EXCEPT ![t] = None]
        /\ hpc' = [hpc EXCEPT ![t] = next]
        /\ local' = [local EXCEPT ![t] =
                        IF next = "out" THEN None
                        ELSE [renderer |-> c.renderer, output |-> q.output,
                              config |-> None, nested |-> q.nested]]
        /\ UNCHANGED <<bound, caps24, caps28, candidate, candRenderer, staleVars>>

-----------------------------------------------------------------------------
(* The rest of ReRevvedHandleGfxRenderCapsEnd, one action per atomic access   *)
(* and per guest word.                                                        *)

\* The hook goes on, or returns and forgets its locals.
HookGoto(t, from, to) ==
    /\ hpc[t] = from
    /\ hpc' = [hpc EXCEPT ![t] = to]
    /\ local' = IF to = "out" THEN [local EXCEPT ![t] = None] ELSE local

StoreConfig(t) ==
    /\ HookGoto(t, "store_config", "store_renderer")
    /\ staleConfig' = candidate[t]
    /\ UNCHANGED <<gfxVars, threadVars, staleRenderer>>

\* Faulty: the two stores are given each other's value.
StoreRendererSwapped(t) ==
    /\ HookGoto(t, "store_renderer", "out")
    /\ staleRenderer' = candidate[t]
    /\ UNCHANGED <<gfxVars, threadVars, staleConfig>>

StoreRenderer(t) ==
    /\ HookGoto(t, "store_renderer", "out")
    /\ staleRenderer' = local[t].renderer
    /\ UNCHANGED <<gfxVars, threadVars, staleConfig>>

LoadRenderer(t) ==
    /\ HookGoto(t, "load_renderer",
                IF staleRenderer = local[t].renderer THEN "load_config" ELSE "out")
    /\ UNCHANGED <<gfxVars, threadVars, staleVars>>

\* Faulty: the config's own renderer is not compared.
EligibleUnchecked(t) == staleConfig # None

\* The config read from the atomic must itself name the querying renderer.
Eligible(t) ==
    /\ staleConfig # None
    /\ bound[staleConfig] = local[t].renderer

LoadConfig(t, readable) ==
    /\ hpc[t] = "load_config"
    /\ IF Eligible(t) /\ readable
         THEN /\ hpc' = [hpc EXCEPT ![t] = "write_24"]
              /\ local' = [local EXCEPT ![t].config = staleConfig]
         ELSE /\ hpc' = [hpc EXCEPT ![t] = "out"]
              /\ local' = [local EXCEPT ![t] = None]
    /\ UNCHANGED <<gfxVars, threadVars, staleVars>>

Word(t) == buffer[local[t].output]

\* A checked write fails when the page has meanwhile lost its access.
Write24(t, writable) ==
    /\ HookGoto(t, "write_24", IF writable THEN "write_28" ELSE "out")
    /\ caps24' = IF writable THEN [caps24 EXCEPT ![local[t].config] = Word(t)]
                 ELSE caps24
    /\ UNCHANGED <<bound, status, caps28, buffer, queries, threadVars, staleVars>>

\* Faulty: the pending config is cleared although its second word was not written.
Write28Ignored(t, writable) ==
    /\ HookGoto(t, "write_28", "clear_config")
    /\ caps28' = IF writable THEN [caps28 EXCEPT ![local[t].config] = Word(t)]
                 ELSE caps28
    /\ UNCHANGED <<bound, status, caps24, buffer, queries, threadVars, staleVars>>

Write28(t, writable) ==
    /\ HookGoto(t, "write_28", IF writable THEN "clear_config" ELSE "out")
    /\ caps28' = IF writable THEN [caps28 EXCEPT ![local[t].config] = Word(t)]
                 ELSE caps28
    /\ UNCHANGED <<bound, status, caps24, buffer, queries, threadVars, staleVars>>

ClearConfig(t) ==
    /\ HookGoto(t, "clear_config", "clear_renderer")
    /\ staleConfig' = None
    /\ UNCHANGED <<gfxVars, threadVars, staleRenderer>>

ClearRenderer(t) ==
    /\ HookGoto(t, "clear_renderer", "out")
    /\ staleRenderer' = None
    /\ UNCHANGED <<gfxVars, threadVars, staleConfig>>

HookStep(t) ==
    \/ StoreConfig(t) \/ StoreRenderer(t)
    \/ LoadRenderer(t)
    \/ \E accessible \in BOOLEAN :
          LoadConfig(t, accessible) \/ Write24(t, accessible) \/ Write28(t, accessible)
    \/ ClearConfig(t) \/ ClearRenderer(t)

GuestStep(t) ==
    \/ \E c \in Configs, r \in Renderers : Remember(t, c, r)
    \/ \E r \in Renderers, o \in Outputs : Begin(t, r, o)
    \/ \E success, readable \in BOOLEAN : End(t, success, readable)

Next == \E t \in Threads : GuestStep(t) \/ HookStep(t)

Spec == Init /\ [][Next]_vars

-----------------------------------------------------------------------------
(* Properties.                                                                *)

\* Although config and renderer are two atomics that other threads replace at any
\* moment, a config is only rewritten with the caps of the renderer it names.
CapsAreOwn ==
    \A c \in Configs : {caps24[c], caps28[c]} \subseteq {None, bound[c]}

\* Contract, item 1: only a config whose own query failed is ever retained.
OnlyFailedRetained == staleConfig # None => status[staleConfig] = "failed"

Repaired(c) == caps24[c] # None /\ caps28[c] # None

\* "if the second write fails after the first succeeds, the pending config remains
\* eligible": the pending config is dropped only when both its words are written.
ClearsOnlyRepaired ==
    [][\A c \in Configs :
          staleConfig = c /\ staleConfig' = None => Repaired(c)]_vars

\* Across threads a clear is paid for by a repair: it may hit a config another
\* thread stored meanwhile, but then the clearing thread has written both words of
\* the config it had loaded, and no failed write of its own was forgotten.
ClearsFollowRepairs ==
    [][staleConfig # None /\ staleConfig' = None =>
          \/ Repaired(staleConfig)
          \/ \E t \in Threads :
                /\ hpc[t] = "clear_config" /\ hpc'[t] = "clear_renderer"
                /\ local[t].config # staleConfig
                /\ Repaired(local[t].config)]_vars

\* "Retain a failed render config until the same renderer supplies valid caps."
RetainedUntilValidCaps ==
    [][\A c \in Configs :
          staleConfig = c /\ staleConfig' # c => Repaired(c)]_vars

\* "nested queries do not enter the repair path": the End hook neither retains nor
\* repairs on behalf of a query that started inside another one.
NestedStayOut == \A t \in Threads : hpc[t] # "out" => ~local[t].nested
=============================================================================
