---------------------------- MODULE PresenceProofs ----------------------------
(* Theorems about Presence, for any number of games and turns and any publish *)
(* interval.                                                                   *)
EXTENDS Presence, TLAPS

-----------------------------------------------------------------------------
(* Types.                                                                     *)

LEMMA ModelsApart ==
    /\ \A a \in Activities : a # NoActivity /\ a # Idle /\ a # InGame
    /\ NoActivity \notin Models
<1>1. \A a \in Activities : a.kind = "playing"
  BY DEF Activities
<1>2. NoActivity.kind = "none" /\ Idle.kind = "idle" /\ InGame.kind = "in game"
  BY DEF NoActivity, Idle, InGame
<1> QED
  BY <1>1, <1>2 DEF Models

\* In a game the current activity is one the client can be sent.
InGameCounts == inGame => game \in 1 .. MaxGames

LEMMA CurrentIsActivity ==
    ASSUME TypeOK, InGameCounts, inGame
    PROVE  Current \in Activities
BY DEF TypeOK, InGameCounts, Current, Activities

\* The published screen belongs to the game's state.
ScreenMatches == screen = "none" \/ screen \in ScreensOf(inGame)

LEMMA TurnIsInGame == ScreenMatches /\ screen = "turn" => inGame
BY DEF ScreenMatches, ScreensOf

LEMMA RetainType ==
    ASSUME TypeOK, InGameCounts, ScreenMatches
    PROVE  /\ Retain \in Activities \cup {NoActivity}
           /\ SelectPresence(Retain) \in Models
<1>1. screen = "turn" => Current \in Activities
  BY TurnIsInGame, CurrentIsActivity
<1>2. Retain \in Activities \cup {NoActivity}
  BY <1>1 DEF Retain, TypeOK
<1> QED
  BY <1>1, <1>2 DEF SelectPresence, Models

-----------------------------------------------------------------------------
(* The inductive invariant.                                                   *)

\* What the UI thread has done so far determines the flag, the client's session
\* and whether there is a thread.
Lifecycle ==
    /\ ui = "setup" => ~running /\ thread = "none" /\ session = "off"
    /\ ui = "start rpc" => running /\ thread = "none" /\ session = "off"
    /\ ui = "spawn" => running /\ thread = "none" /\ session = "on" /\ shown = Idle
    /\ ui = "running" => running /\ thread \notin {"none", "done"} /\ session = "on"
    /\ ui = "join" => ~running /\ thread # "none" /\ session = "on"
    /\ ui = "stop rpc" => ~running /\ thread = "done" /\ session = "on"
    /\ ui \in {"closed", "exited"} =>
           ~running /\ thread \in {"none", "done"} /\ session = "off"

\* What the thread has polled belongs to the games started so far.
PolledGames ==
    /\ lastMenu <= game
    /\ inGame => lastMenu < game
    /\ lastComplete # NoActivity => lastComplete.game <= game
    /\ thread = "none" => lastComplete = NoActivity

IInv ==
    /\ TypeOK
    /\ InGameCounts
    /\ ScreenMatches
    /\ Lifecycle
    /\ PolledGames
    /\ RetainedIsCurrent
    /\ ShownIsLastSent

LEMMA InitIInv == Init => IInv
<1> SUFFICES ASSUME Init PROVE IInv
  OBVIOUS
<1>1. TypeOK
  <2>1. /\ game \in 0 .. MaxGames /\ turn \in 1 .. MaxTurn
        /\ age \in 0 .. PublishInterval /\ lastMenu \in 0 .. MaxGames
    BY PresenceAssumption DEF Init
  <2>2. /\ screen \in Screens /\ inGame \in BOOLEAN /\ running \in BOOLEAN
        /\ slept \in BOOLEAN /\ ui \in UiPcs /\ thread \in ThreadPcs
        /\ session \in {"off", "on"}
    BY DEF Init, Screens, UiPcs, ThreadPcs
  <2>3. /\ retained \in Activities \cup {NoActivity}
        /\ lastComplete \in Activities \cup {NoActivity}
        /\ pending \in Models /\ lastSent \in Models
        /\ shown \in Models \cup {NoActivity}
    BY DEF Init, Models
  <2> QED
    BY <2>1, <2>2, <2>3 DEF TypeOK
<1>2. InGameCounts /\ ScreenMatches /\ Lifecycle /\ ShownIsLastSent
  BY DEF Init, InGameCounts, ScreenMatches, Lifecycle, ShownIsLastSent
<1>3. PolledGames /\ RetainedIsCurrent
  BY DEF Init, PolledGames, RetainedIsCurrent
<1> QED
  BY <1>1, <1>2, <1>3 DEF IInv

\* The game's own steps leave the thread's knowledge behind but never ahead.
LEMMA GameKeeps == IInv /\ Game => IInv'
<1> SUFFICES ASSUME IInv, Game PROVE IInv'
  OBVIOUS
<1> USE DEF IInv
<1>1. /\ inGame' \in BOOLEAN /\ game' \in 0 .. MaxGames /\ turn' \in 1 .. MaxTurn
      /\ game <= game'
      /\ inGame' => game' \in 1 .. MaxGames
      /\ inGame' /\ ~inGame => game' > game
  <2>1. inGame \in BOOLEAN /\ game \in 0 .. MaxGames /\ turn \in 1 .. MaxTurn
    BY DEF TypeOK
  <2>2. CASE inGame' = inGame /\ game' = game /\ turn' = turn
    BY <2>1, <2>2, PresenceAssumption DEF InGameCounts
  <2>3. CASE /\ ~inGame /\ game < MaxGames /\ inGame' = TRUE
             /\ game' = game + 1 /\ turn' = 1
    BY <2>1, <2>3, PresenceAssumption
  <2>4. CASE inGame /\ turn < MaxTurn /\ turn' = turn + 1 /\ UNCHANGED <<inGame, game>>
    BY <2>1, <2>4, PresenceAssumption DEF InGameCounts
  <2>5. CASE inGame /\ inGame' = FALSE /\ UNCHANGED <<game, turn>>
    <3>1. inGame' \in BOOLEAN /\ ~inGame'
      BY <2>5
    <3>2. game' \in 0 .. MaxGames /\ turn' \in 1 .. MaxTurn /\ game <= game'
      BY <2>1, <2>5
    <3> QED
      BY <3>1, <3>2
  <2>6. \/ inGame' = inGame /\ game' = game /\ turn' = turn
        \/ /\ ~inGame /\ game < MaxGames /\ inGame' = TRUE
           /\ game' = game + 1 /\ turn' = 1
        \/ inGame /\ turn < MaxTurn /\ turn' = turn + 1 /\ UNCHANGED <<inGame, game>>
        \/ inGame /\ inGame' = FALSE /\ UNCHANGED <<game, turn>>
    BY DEF Game
  <2> QED
    BY <2>2, <2>3, <2>4, <2>5, <2>6
<1>2. screen' \in ScreensOf(inGame') /\ screen' \in Screens
  BY <1>1 DEF Game, Screens, ScreensOf
<1>3. UNCHANGED <<running, ui, thread, retained, pending, lastSent, slept, age,
                  session, shown, lastMenu, lastComplete>>
  BY DEF Game, loopVars, timeVars, discordVars, historyVars
<1>4. TypeOK'
  BY <1>1, <1>2, <1>3 DEF TypeOK
<1>5. InGameCounts' /\ ScreenMatches'
  BY <1>1, <1>2 DEF InGameCounts, ScreenMatches
<1>6. Lifecycle' /\ RetainedIsCurrent' /\ ShownIsLastSent'
  BY <1>3 DEF Lifecycle, RetainedIsCurrent, ShownIsLastSent
<1>7. PolledGames'
  <2>1. lastMenu \in Nat /\ game \in Nat /\ game' \in Nat
    BY <1>1 DEF TypeOK
  <2>2. lastComplete # NoActivity => lastComplete.game \in Nat
    BY DEF TypeOK, Activities
  <2> QED
    BY <1>1, <1>3, <2>1, <2>2 DEF PolledGames
<1> QED
  BY <1>4, <1>5, <1>6, <1>7

\* The UI thread's steps and the clock do not touch the game or the history.
LEMMA UiKeeps ==
    IInv /\ (Tick \/ StartExchange \/ StopExchange \/ UiStep) => IInv'
<1> SUFFICES ASSUME IInv, Tick \/ StartExchange \/ StopExchange \/ UiStep
             PROVE  IInv'
  OBVIOUS
<1> USE DEF IInv
<1>1. UNCHANGED <<screen, inGame, game, turn, lastMenu, lastComplete, pending>>
  BY DEF Tick, StartExchange, StopExchange, UiStep, StartRpc, SpawnThread, Join,
     StopRpc, gameVars, historyVars, loopVars
<1>2. InGameCounts' /\ ScreenMatches'
  BY <1>1 DEF InGameCounts, ScreenMatches
<1>3. CASE Tick
  <2>1. UNCHANGED <<running, ui, thread, retained, lastSent, session, shown>>
    BY <1>3 DEF Tick, loopVars, discordVars
  <2>2. TypeOK'
    BY <1>1, <1>3, <2>1, PresenceAssumption DEF Tick, TypeOK
  <2> QED
    BY <1>1, <1>2, <2>1, <2>2
       DEF Lifecycle, PolledGames, RetainedIsCurrent, ShownIsLastSent
<1>4. CASE StartExchange \/ StopExchange \/ Join
  <2>1. UNCHANGED <<thread, retained, lastSent, slept, age, session, shown>>
    BY <1>4 DEF StartExchange, StopExchange, Join, loopVars, timeVars, discordVars
  <2>2. TypeOK'
    BY <1>1, <1>4, <2>1
       DEF StartExchange, StopExchange, Join, UiGoto, TypeOK, UiPcs
  <2>3. Lifecycle'
    <3>1. running \in BOOLEAN
      BY DEF TypeOK
    <3>2. CASE StartExchange
      <4>1. ui = "setup" /\ ui' = "start rpc" /\ running' = TRUE
        BY <3>2 DEF StartExchange, UiGoto, Lifecycle
      <4> QED
        BY <2>1, <4>1 DEF Lifecycle
    <3>3. CASE StopExchange
      <4>1. /\ ui \in {"setup", "running", "closed"} /\ ~running'
            /\ ui' = IF ui = "running" THEN "join" ELSE "exited"
        BY <3>3 DEF StopExchange, Lifecycle
      <4> QED
        BY <2>1, <4>1 DEF Lifecycle
    <3>4. CASE Join
      <4>1. /\ ui = "join" /\ ui' = "stop rpc" /\ thread = "done"
            /\ running' = running
        BY <3>4 DEF Join, UiGoto
      <4> QED
        BY <2>1, <4>1 DEF Lifecycle
    <3> QED
      BY <1>4, <3>2, <3>3, <3>4
  <2> QED
    BY <1>1, <1>2, <2>1, <2>2, <2>3
       DEF PolledGames, RetainedIsCurrent, ShownIsLastSent
<1>5. CASE StartRpc
  <2>1. UNCHANGED <<running, thread, retained, lastSent, slept, age>>
    BY <1>5 DEF StartRpc, loopVars, timeVars
  <2>2. /\ ui = "start rpc" /\ ui' = "spawn"
        /\ session' = "on" /\ shown' = Idle
    BY <1>5 DEF StartRpc, UiGoto
  <2>3. TypeOK'
    BY <1>1, <2>1, <2>2 DEF TypeOK, UiPcs, Models
  <2>4. Lifecycle' /\ ShownIsLastSent'
    BY <2>1, <2>2 DEF Lifecycle, ShownIsLastSent
  <2> QED
    BY <1>1, <1>2, <2>1, <2>3, <2>4 DEF PolledGames, RetainedIsCurrent
<1>6. CASE SpawnThread
  <2>1. UNCHANGED <<running, slept, session, shown>>
    BY <1>6 DEF SpawnThread, discordVars
  <2>2. /\ ui = "spawn" /\ ui' = "running" /\ thread' = "test"
        /\ lastSent' = Idle /\ retained' = NoActivity /\ age' = 0
    BY <1>6 DEF SpawnThread, UiGoto
  <2>3. TypeOK'
    BY <1>1, <2>1, <2>2, PresenceAssumption DEF TypeOK, UiPcs, ThreadPcs, Models
  <2>4. Lifecycle' /\ ShownIsLastSent'
    BY <2>1, <2>2 DEF Lifecycle, ShownIsLastSent
  <2>5. lastComplete = NoActivity
    BY <2>2 DEF Lifecycle, PolledGames
  <2> QED
    BY <1>1, <1>2, <2>2, <2>3, <2>4, <2>5 DEF PolledGames, RetainedIsCurrent
<1>7. CASE StopRpc
  <2>1. UNCHANGED <<running, thread, retained, lastSent, slept, age>>
    BY <1>7 DEF StopRpc, loopVars, timeVars
  <2>2. /\ ui = "stop rpc" /\ ui' = "closed"
        /\ session' = "off" /\ shown' = NoActivity
    BY <1>7 DEF StopRpc, UiGoto
  <2>3. TypeOK'
    BY <1>1, <2>1, <2>2 DEF TypeOK, UiPcs
  <2>4. Lifecycle' /\ ShownIsLastSent'
    BY <2>1, <2>2 DEF Lifecycle, ShownIsLastSent
  <2> QED
    BY <1>1, <1>2, <2>1, <2>3, <2>4 DEF PolledGames, RetainedIsCurrent
<1> QED
  BY <1>3, <1>4, <1>5, <1>6, <1>7 DEF UiStep

\* A poll is where the retained activity and the history move together.
LEMMA PollKeeps == IInv /\ Poll => IInv'
<1> SUFFICES ASSUME IInv, Poll PROVE IInv'
  OBVIOUS
<1> USE DEF IInv
<1>1. /\ thread = "poll" /\ thread' = "publish"
      /\ retained' = Retain /\ pending' = SelectPresence(Retain)
      /\ lastMenu' = IF screen = "menu" THEN game ELSE lastMenu
      /\ lastComplete' = IF screen = "turn" THEN Current ELSE lastComplete
  BY DEF Poll, ThreadGoto
<1>2. UNCHANGED <<screen, inGame, game, turn, running, ui, lastSent, slept, age,
                  session, shown>>
  BY DEF Poll, gameVars, timeVars, discordVars
<1>3. screen = "turn" => inGame /\ Current \in Activities
  BY TurnIsInGame, CurrentIsActivity
<1>4. screen = "menu" => ~inGame
  BY DEF ScreenMatches, ScreensOf
<1>5. game \in Nat /\ lastMenu \in Nat
      /\ (lastComplete # NoActivity => lastComplete.game \in Nat)
  BY DEF TypeOK, Activities
<1>6. TypeOK'
  BY <1>1, <1>2, <1>3, RetainType DEF TypeOK, ThreadPcs
<1>7. InGameCounts' /\ ScreenMatches' /\ ShownIsLastSent' /\ Lifecycle'
  BY <1>1, <1>2 DEF InGameCounts, ScreenMatches, ShownIsLastSent, Lifecycle
<1>8. CASE screen = "turn"
  <2>1. /\ lastComplete' = Current /\ retained' = Current /\ lastMenu' = lastMenu
        /\ Current # NoActivity /\ Current.game = game
    BY <1>1, <1>3, <1>8, ModelsApart DEF Retain, Current
  <2>2. lastMenu < game
    BY <1>3, <1>8 DEF PolledGames
  <2> QED
    BY <1>1, <1>2, <1>5, <1>6, <1>7, <2>1, <2>2 DEF PolledGames, RetainedIsCurrent
<1>9. CASE screen = "menu"
  <2>1. retained' = NoActivity /\ lastMenu' = game /\ lastComplete' = lastComplete
    BY <1>1, <1>9 DEF Retain
  <2>2. lastComplete # NoActivity => ~(lastComplete.game > game)
    BY <1>5 DEF PolledGames
  <2> QED
    BY <1>1, <1>2, <1>4, <1>5, <1>6, <1>7, <1>9, <2>1, <2>2
       DEF PolledGames, RetainedIsCurrent
<1>10. CASE screen \notin {"turn", "menu"}
  <2>1. UNCHANGED <<retained, lastMenu, lastComplete>>
    BY <1>1, <1>10 DEF Retain
  <2> QED
    BY <1>1, <1>2, <1>6, <1>7, <2>1 DEF PolledGames, RetainedIsCurrent
<1> QED
  BY <1>8, <1>9, <1>10

\* The other steps of the thread.
LEMMA LoopKeeps ==
    IInv /\ (TestRunning \/ Wake \/ RetestRunning \/ Publish \/ HoldBack) => IInv'
<1> SUFFICES ASSUME IInv,
                    TestRunning \/ Wake \/ RetestRunning \/ Publish \/ HoldBack
             PROVE  IInv'
  OBVIOUS
<1> USE DEF IInv
<1>1. UNCHANGED <<screen, inGame, game, turn, running, ui, retained, pending,
                  session, lastMenu, lastComplete>>
  BY DEF TestRunning, Wake, RetestRunning, Publish, HoldBack, gameVars, loopVars,
     discordVars, historyVars
<1>2. /\ thread \notin {"none", "done"} /\ thread' \in ThreadPcs \ {"none"}
      /\ thread' = "done" => ~running
  BY DEF TestRunning, Wake, RetestRunning, Publish, HoldBack, ThreadGoto, ThreadPcs
<1>3. \/ UNCHANGED <<shown, lastSent>>
      \/ shown' = pending /\ lastSent' = pending
  BY DEF TestRunning, Wake, RetestRunning, Publish, HoldBack, loopVars, discordVars
<1>4. /\ lastSent' \in Models /\ shown' \in Models \cup {NoActivity}
      /\ UNCHANGED <<shown, lastSent>> \/ shown' = lastSent'
  BY <1>3 DEF TypeOK
<1>5. slept' \in BOOLEAN
  BY DEF TypeOK, TestRunning, Wake, RetestRunning, Publish, HoldBack, timeVars
<1>6. age' \in 0 .. PublishInterval
  <2>1. age' \in {age, 0}
    BY DEF TestRunning, Wake, RetestRunning, Publish, HoldBack, timeVars
  <2> QED
    BY <2>1, PresenceAssumption DEF TypeOK
<1>7. TypeOK'
  BY <1>1, <1>2, <1>4, <1>5, <1>6 DEF TypeOK
<1>8. Lifecycle'
  BY <1>1, <1>2 DEF Lifecycle, TypeOK, UiPcs
<1>9. ShownIsLastSent'
  BY <1>1, <1>2, <1>4 DEF ShownIsLastSent
<1> QED
  BY <1>1, <1>2, <1>7, <1>8, <1>9
     DEF InGameCounts, ScreenMatches, PolledGames, RetainedIsCurrent

LEMMA StutterKeeps == IInv /\ UNCHANGED vars => IInv'
<1> SUFFICES ASSUME IInv, UNCHANGED vars PROVE IInv'
  OBVIOUS
<1> USE DEF IInv, vars, gameVars, loopVars, timeVars, discordVars, historyVars
<1>1. TypeOK'
  BY DEF TypeOK
<1>2. InGameCounts' /\ ScreenMatches' /\ PolledGames'
  BY DEF InGameCounts, ScreenMatches, PolledGames
<1>3. Lifecycle'
  BY DEF Lifecycle
<1>4. RetainedIsCurrent' /\ ShownIsLastSent'
  BY DEF RetainedIsCurrent, ShownIsLastSent
<1> QED
  BY <1>1, <1>2, <1>3, <1>4

LEMMA NextIInv == IInv /\ [Next]_vars => IInv'
BY GameKeeps, UiKeeps, PollKeeps, LoopKeeps, StutterKeeps DEF Next, ThreadStep

THEOREM Inductive == Spec => []IInv
BY InitIInv, NextIInv, PTL DEF Spec

-----------------------------------------------------------------------------
(* The properties.                                                            *)

\* Every variable of the presence keeps its type, the pending activity included.
THEOREM TypeCorrect == Spec => []TypeOK
<1>1. IInv => TypeOK
  BY DEF IInv
<1> QED
  BY <1>1, Inductive, PTL

\* No presence thread outlives the client or the application that feeds it.
THEOREM StopIsQuiet == Spec => []StoppedIsQuiet
<1>1. IInv => StoppedIsQuiet
  BY DEF IInv, Lifecycle, StoppedIsQuiet
<1> QED
  BY <1>1, Inductive, PTL

\* Once a menu has been polled, no activity of a game that began before it is retained.
THEOREM RetainedCurrent == Spec => []RetainedIsCurrent
<1>1. IInv => RetainedIsCurrent
  BY DEF IInv
<1> QED
  BY <1>1, Inductive, PTL

\* What the thread compares with is what the client shows.
THEOREM ShownLastSent == Spec => []ShownIsLastSent
<1>1. IInv => ShownIsLastSent
  BY DEF IInv
<1> QED
  BY <1>1, Inductive, PTL

\* The client is started once at a time, and every activity and every stop meets a
\* started one.
THEOREM CalledWhileOn == Spec => CalledInSession
<1>1. IInv /\ [Next]_vars =>
        [/\ StartRpc => session = "off"
         /\ Publish \/ StopRpc => session = "on"]_vars
  <2> SUFFICES ASSUME IInv
               PROVE  /\ StartRpc => session = "off"
                      /\ Publish \/ StopRpc => session = "on"
    OBVIOUS
  <2>1. StartRpc => session = "off"
    BY DEF IInv, Lifecycle, StartRpc, UiGoto
  <2>2. StopRpc => session = "on"
    BY DEF IInv, Lifecycle, StopRpc, UiGoto
  <2>3. Publish => session = "on"
    BY DEF IInv, Lifecycle, Publish, ThreadGoto, TypeOK, UiPcs
  <2> QED
    BY <2>1, <2>2, <2>3
<1> QED
  BY <1>1, Inductive, PTL DEF Spec, CalledInSession
-----------------------------------------------------------------------------
(* What the liveness properties rest on: counts and stable states, which need *)
(* no fairness.                                                               *)

\* Steps the presence thread has left once g_presence_running is false.
StepsToDone ==
    CASE thread \in {"none", "done"} -> 0
      [] thread \in {"test", "retest"} -> 1
      [] thread \in {"sleep", "publish"} -> 2
      [] thread = "poll" -> 3

\* The join in StopPresence: from wherever the request finds the thread, it is done
\* after at most three steps of its own, of which one at most calls SetPresence, and
\* nothing else in the program can put that off.
JoinIsBounded ==
    [][ui = "join" =>
          /\ StepsToDone \in 0 .. 3
          /\ ThreadStep => StepsToDone' < StepsToDone
          /\ ~ThreadStep => StepsToDone' = StepsToDone
          /\ Publish => StepsToDone' = 1
          /\ StepsToDone <= 1 => ~Publish]_vars

\* An activity is held back only while the rate limit has not expired: once it has,
\* the client shows what the last poll selected, whether or not it was sent now.
HeldBackOnlyByRate ==
    [][thread = "publish" /\ thread' = "test" /\ age = PublishInterval =>
          shown' = pending]_vars

\* The client shows m and no publication of anything else is on its way.
Settled(m) ==
    /\ running /\ thread # "none" /\ shown = m /\ lastSent = m
    /\ thread = "publish" => pending = m

\* "Publishes at most once per interval" cannot flicker: an activity that is shown and
\* that every poll would still select stays shown until the presence is stopped.
SettledStays ==
    [][\A m \in Models :
          Settled(m) /\ SelectPresence(Retain) = m /\ running' => Settled(m)']_vars

\* A playing activity that is published is the last complete one the thread polled and
\* belongs to a game begun after the last menu it polled, although a poll, the game's
\* next frames and the publication are far apart.
PublishesLastComplete ==
    [][Publish /\ pending.kind = "playing" =>
          /\ shown' = lastComplete
          /\ lastComplete.game > lastMenu]_vars

\* The join waits for at most three steps of the presence thread.
THEOREM JoinBounded == Spec => JoinIsBounded
<1>1. IInv /\ [Next]_vars =>
        [ui = "join" =>
            /\ StepsToDone \in 0 .. 3
            /\ ThreadStep => StepsToDone' < StepsToDone
            /\ ~ThreadStep => StepsToDone' = StepsToDone
            /\ Publish => StepsToDone' = 1
            /\ StepsToDone <= 1 => ~Publish]_vars
  <2> SUFFICES ASSUME IInv, Next, ui = "join"
               PROVE  /\ StepsToDone \in 0 .. 3
                      /\ ThreadStep => StepsToDone' < StepsToDone
                      /\ ~ThreadStep => StepsToDone' = StepsToDone
                      /\ Publish => StepsToDone' = 1
                      /\ StepsToDone <= 1 => ~Publish
    OBVIOUS
  <2>1. ~running /\ thread \in ThreadPcs
    BY DEF IInv, TypeOK, Lifecycle
  <2>2. StepsToDone \in 0 .. 3
    BY <2>1 DEF StepsToDone, ThreadPcs
  <2>3. ASSUME ThreadStep PROVE StepsToDone' < StepsToDone
    <3>1. CASE TestRunning
      BY <2>1, <3>1 DEF TestRunning, ThreadGoto, StepsToDone
    <3>2. CASE Wake
      BY <3>2 DEF Wake, ThreadGoto, StepsToDone
    <3>3. CASE RetestRunning
      BY <2>1, <3>3 DEF RetestRunning, ThreadGoto, StepsToDone
    <3>4. CASE Poll
      BY <3>4 DEF Poll, ThreadGoto, StepsToDone
    <3>5. CASE Publish \/ HoldBack
      BY <3>5 DEF Publish, HoldBack, ThreadGoto, StepsToDone
    <3> QED
      BY <2>3, <3>1, <3>2, <3>3, <3>4, <3>5 DEF ThreadStep
  <2>4. ASSUME ~ThreadStep PROVE thread' = thread
    BY <2>4 DEF Next, Game, Tick, StartExchange, StopExchange, UiStep, StartRpc,
                SpawnThread, Join, StopRpc, UiGoto
  <2>5. Publish => StepsToDone' = 1 /\ StepsToDone = 2
    BY DEF Publish, ThreadGoto, StepsToDone
  <2>6. ~ThreadStep => StepsToDone' = StepsToDone
    BY <2>4 DEF StepsToDone
  <2>7. StepsToDone <= 1 => ~Publish
    BY <2>5
  <2> QED
    BY <2>2, <2>3, <2>5, <2>6, <2>7
<1> QED
  BY <1>1, Inductive, PTL DEF Spec, JoinIsBounded

\* The rate limit is the only thing that keeps a selected activity from the client.
THEOREM OnlyRateHoldsBack == Spec => HeldBackOnlyByRate
<1>1. IInv /\ [Next]_vars =>
        [thread = "publish" /\ thread' = "test" /\ age = PublishInterval =>
            shown' = pending]_vars
  <2> SUFFICES ASSUME IInv, Next, thread = "publish", thread' = "test",
                      age = PublishInterval
               PROVE  shown' = pending
    OBVIOUS
  <2>1. Publish \/ HoldBack
    BY DEF Next, Game, Tick, StartExchange, StopExchange, UiStep, StartRpc,
           SpawnThread, Join, StopRpc, UiGoto, ThreadStep, TestRunning, Wake,
           RetestRunning, Poll, ThreadGoto, IInv, Lifecycle
  <2>2. CASE Publish
    BY <2>2 DEF Publish
  <2>3. CASE HoldBack
    <3>1. pending = lastSent /\ UNCHANGED shown
      BY <2>3, PresenceAssumption DEF HoldBack, discordVars
    <3>2. session = "on"
      BY DEF IInv, Lifecycle, TypeOK, UiPcs
    <3> QED
      BY <3>1, <3>2 DEF IInv, ShownIsLastSent
  <2> QED
    BY <2>1, <2>2, <2>3
<1> QED
  BY <1>1, Inductive, PTL DEF Spec, HeldBackOnlyByRate

\* A shown activity stays shown while the polls agree with it.
THEOREM SettledActivityStays == Spec => SettledStays
<1>1. IInv /\ [Next]_vars =>
        [\A m \in Models :
            Settled(m) /\ SelectPresence(Retain) = m /\ running' => Settled(m)']_vars
  <2> SUFFICES ASSUME IInv, Next, NEW m \in Models, Settled(m),
                      SelectPresence(Retain) = m, running'
               PROVE  Settled(m)'
    OBVIOUS
  <2>1. /\ ui = "running" /\ running /\ thread # "none"
        /\ shown = m /\ lastSent = m /\ (thread = "publish" => pending = m)
    BY DEF IInv, Lifecycle, TypeOK, UiPcs, Settled
  <2>2. CASE Poll
    <3>1. thread' = "publish" /\ pending' = m /\ UNCHANGED <<lastSent, shown>>
      BY <2>2 DEF Poll, ThreadGoto, discordVars
    <3> QED
      BY <2>1, <3>1 DEF Settled
  <2>3. CASE ~Poll
    <3>1. ~Publish
      BY <2>1 DEF Publish, ThreadGoto
    <3>2. UNCHANGED <<lastSent, shown, pending>>
      BY <2>1, <2>3, <3>1
         DEF Next, Game, Tick, StartExchange, StopExchange, UiStep, StartRpc,
             SpawnThread, Join, StopRpc, UiGoto, ThreadStep, TestRunning, Wake,
             RetestRunning, HoldBack, loopVars, discordVars
    <3>3. thread' # "none" /\ (thread' = "publish" => thread = "publish")
      BY <2>1, <2>3, <3>1
         DEF Next, Game, Tick, StartExchange, StopExchange, UiStep, StartRpc,
             SpawnThread, Join, StopRpc, UiGoto, ThreadStep, TestRunning, Wake,
             RetestRunning, HoldBack, ThreadGoto
    <3> QED
      BY <2>1, <3>2, <3>3 DEF Settled
  <2> QED
    BY <2>2, <2>3
<1> QED
  BY <1>1, Inductive, PTL DEF Spec, SettledStays

\* What the poll has selected still stands when it is published.
PolledStands ==
    thread = "publish" /\ pending.kind = "playing" =>
        pending = lastComplete /\ lastComplete.game > lastMenu

LEMMA PolledStandsKeeps == IInv /\ PolledStands /\ [Next]_vars => PolledStands'
<1> SUFFICES ASSUME IInv, PolledStands, [Next]_vars PROVE PolledStands'
  OBVIOUS
<1>1. CASE Poll
  <2>1. /\ retained' = Retain /\ pending' = SelectPresence(Retain)
        /\ lastMenu' = IF screen = "menu" THEN game ELSE lastMenu
        /\ lastComplete' = IF screen = "turn" THEN Current ELSE lastComplete
    BY <1>1 DEF Poll
  <2>2. CASE screen = "turn"
    <3>1. pending' = Current /\ lastComplete' = Current /\ lastMenu' = lastMenu
      BY <2>1, <2>2 DEF SelectPresence
    <3>2. lastMenu < game /\ lastMenu \in Nat /\ game \in Nat
      BY <2>2, TurnIsInGame DEF IInv, PolledGames, TypeOK
    <3>3. Current.game = game
      BY DEF Current
    <3> QED
      BY <3>1, <3>2, <3>3 DEF PolledStands
  <2>3. CASE screen = "gated"
    <3>1. /\ pending' = IF retained = NoActivity THEN InGame ELSE retained
          /\ lastComplete' = lastComplete /\ lastMenu' = lastMenu
      BY <2>1, <2>3 DEF SelectPresence, Retain
    <3>2. InGame.kind # "playing"
      BY DEF InGame
    <3>3. retained # NoActivity =>
             retained = lastComplete /\ lastComplete.game > lastMenu
      BY DEF IInv, RetainedIsCurrent
    <3> QED
      BY <3>1, <3>2, <3>3 DEF PolledStands
  <2>4. CASE screen \notin {"turn", "gated"}
    <3>1. pending' = Idle /\ Idle.kind # "playing"
      BY <2>1, <2>4 DEF SelectPresence, Idle
    <3> QED
      BY <3>1 DEF PolledStands
  <2> QED
    BY <2>2, <2>3, <2>4
<1>2. CASE ~Poll
  <2>1. UNCHANGED <<pending, lastComplete, lastMenu>>
    BY <1>2 DEF Next, Game, Tick, StartExchange, StopExchange, UiStep, StartRpc,
                SpawnThread, Join, StopRpc, ThreadStep, TestRunning, Wake,
                RetestRunning, Publish, HoldBack, loopVars, historyVars, vars
  <2>2. thread' = "publish" => thread = "publish"
    BY <1>2 DEF Next, Game, Tick, StartExchange, StopExchange, UiStep, StartRpc,
                SpawnThread, Join, StopRpc, ThreadStep, TestRunning, Wake,
                RetestRunning, Publish, HoldBack, ThreadGoto, vars
  <2> QED
    BY <2>1, <2>2 DEF PolledStands
<1> QED
  BY <1>1, <1>2

\* Every playing activity that is published is the last complete one.
THEOREM PublishedIsComplete == Spec => PublishesLastComplete
<1>1. Init => PolledStands
  BY DEF Init, PolledStands
<1>2. PolledStands /\ [Next]_vars =>
        [Publish /\ pending.kind = "playing" =>
            /\ shown' = lastComplete
            /\ lastComplete.game > lastMenu]_vars
  BY DEF PolledStands, Publish, ThreadGoto
<1> QED
  BY <1>1, <1>2, PolledStandsKeeps, Inductive, PTL DEF Spec, PublishesLastComplete
=============================================================================
