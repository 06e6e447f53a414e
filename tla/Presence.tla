------------------------------ MODULE Presence ------------------------------
(* The Discord presence of presence.cpp and presence_model.cpp: the UI thread *)
(* starts and stops it, the presence thread polls the published gameplay      *)
(* state once a second, keeps the last complete activity and publishes at     *)
(* most once per interval.  The game and the Discord client are external.  A  *)
(* poll is one step: SnapshotExchange shows that reads are atomic.            *)
EXTENDS Naturals

CONSTANTS
    MaxGames,          \* bound: games the player starts
    MaxTurn,           \* bound: turns of a game; stands for civilization, era, year too
    PublishInterval    \* kPresencePublishInterval, in poll intervals

ASSUME PresenceAssumption ==
    /\ MaxGames \in Nat
    /\ MaxTurn \in Nat \ {0}
    /\ PublishInterval \in Nat \ {0}

VARIABLES
    \* the game, as its frames publish it
    screen,       \* what the last frame published: "none" before the first
    inGame,
    game,         \* games started so far
    turn,         \* turn of the current game
    \* presence.cpp
    running,      \* g_presence_running
    ui,           \* where the UI thread is in StartPresence and StopPresence
    thread,       \* where the presence thread is
    retained,     \* retained_gameplay
    pending,
    lastSent,     \* last_sent
    slept,        \* whether this sleep has lasted a poll interval
    age,          \* steady_clock::now() - last_publish, saturating at the interval
    \* the Discord client
    session,      \* "off" or "on"
    shown,        \* the activity it shows
    \* history, for the properties
    lastMenu,     \* games started when the thread last polled a known menu
    lastComplete  \* last complete activity the thread polled

gameVars == <<screen, inGame, game, turn>>
discordVars == <<session, shown>>
historyVars == <<lastMenu, lastComplete>>
loopVars == <<retained, pending, lastSent>>
timeVars == <<slept, age>>
vars == <<gameVars, running, ui, thread, loopVars, timeVars, discordVars,
          historyVars>>

NoActivity == [kind |-> "none"]
Idle == [kind |-> "idle"]
InGame == [kind |-> "in game"]
Activities ==
    [kind : {"playing"}, game : 1 .. MaxGames, turn : 1 .. MaxTurn]
Models == {Idle, InGame} \cup Activities

\* "gated" is gameplay in which some gate of the playable turn is closed (an AI
\* turn, a popup, a civilization outside the table); "unknown" is a frame whose
\* frontend pointers could not be read.
ScreensOf(playing) ==
    IF playing THEN {"unknown", "gated", "turn"} ELSE {"menu", "unknown"}
Screens == {"none"} \cup ScreensOf(TRUE) \cup ScreensOf(FALSE)

UiPcs == {"setup", "start rpc", "spawn", "running", "join", "stop rpc", "closed",
          "exited"}
ThreadPcs == {"none", "test", "sleep", "retest", "poll", "publish", "done"}

TypeOK ==
    /\ screen \in Screens
    /\ inGame \in BOOLEAN
    /\ game \in 0 .. MaxGames
    /\ turn \in 1 .. MaxTurn
    /\ running \in BOOLEAN
    /\ ui \in UiPcs
    /\ thread \in ThreadPcs
    /\ retained \in Activities \cup {NoActivity}
    /\ pending \in Models
    /\ lastSent \in Models
    /\ slept \in BOOLEAN
    /\ age \in 0 .. PublishInterval
    /\ session \in {"off", "on"}
    /\ shown \in Models \cup {NoActivity}
    /\ lastMenu \in 0 .. MaxGames
    /\ lastComplete \in Activities \cup {NoActivity}

Init ==
    /\ screen = "none"
    /\ inGame = FALSE
    /\ game = 0
    /\ turn = 1
    /\ running = FALSE
    /\ ui = "setup"
    /\ thread = "none"
    /\ retained = NoActivity
    /\ pending = Idle
    /\ lastSent = Idle
    /\ slept = FALSE
    /\ age = 0
    /\ session = "off"
    /\ shown = NoActivity
    /\ lastMenu = 0
    /\ lastComplete = NoActivity

-----------------------------------------------------------------------------
(* The game: every step ends with a published frame.                          *)

Game ==
    /\ \/ inGame' = inGame /\ game' = game /\ turn' = turn
       \/ ~inGame /\ game < MaxGames /\ inGame' = TRUE /\ game' = game + 1 /\ turn' = 1
       \/ inGame /\ turn < MaxTurn /\ turn' = turn + 1 /\ UNCHANGED <<inGame, game>>
       \/ inGame /\ inGame' = FALSE /\ UNCHANGED <<game, turn>>
    /\ screen' \in ScreensOf(inGame')
    /\ UNCHANGED <<running, ui, thread, loopVars, timeVars, discordVars, historyVars>>

\* One poll interval of the steady clock.
Tick ==
    /\ slept' = TRUE
    /\ age' = IF age < PublishInterval THEN age + 1 ELSE age
    /\ UNCHANGED <<gameVars, running, ui, thread, loopVars, discordVars, historyVars>>

-----------------------------------------------------------------------------
(* The UI thread: StartPresence from OnPostSetup, StopPresence from           *)
(* OnWindowCloseRequested and again from OnShutdown.                          *)

UiGoto(from, to) ==
    /\ ui = from
    /\ ui' = to

StartExchange ==
    /\ UiGoto("setup", IF running THEN "running" ELSE "start rpc")
    /\ running' = TRUE
    /\ UNCHANGED <<gameVars, thread, loopVars, timeVars, discordVars, historyVars>>

\* rex::discord_rpc::Start with the fallback presence.
StartRpc ==
    /\ UiGoto("start rpc", "spawn")
    /\ session' = "on"
    /\ shown' = Idle
    /\ UNCHANGED <<gameVars, running, thread, loopVars, timeVars, historyVars>>

SpawnThread ==
    /\ UiGoto("spawn", "running")
    /\ thread' = "test"
    /\ lastSent' = Idle
    /\ retained' = NoActivity
    /\ age' = 0
    /\ UNCHANGED <<gameVars, running, pending, slept, discordVars, historyVars>>

\* Faulty: the client is stopped without waiting for the thread.
StopExchangeNoJoin ==
    /\ ui \in {"setup", "running", "closed"}
    /\ running' = FALSE
    /\ ui' = IF running THEN "stop rpc" ELSE IF ui = "setup" THEN "exited" ELSE "closed"
    /\ UNCHANGED <<gameVars, thread, loopVars, timeVars, discordVars, historyVars>>

\* Faulty: the flag is read and not cleared.
StopExchangeUncleared ==
    /\ ui \in {"setup", "running", "closed"}
    /\ ui' = IF running THEN "join" ELSE "exited"
    /\ UNCHANGED <<gameVars, running, thread, loopVars, timeVars, discordVars,
                   historyVars>>

\* Faulty: a stop that finds the presence stopped does not return.
StopExchangeAlways ==
    /\ ui \in {"setup", "running", "closed"}
    /\ running' = FALSE
    /\ ui' = IF running THEN "join" ELSE "stop rpc"
    /\ UNCHANGED <<gameVars, thread, loopVars, timeVars, discordVars, historyVars>>

\* Setup may fail before StartPresence; a close may be followed by a shutdown.
StopExchange ==
    /\ ui \in {"setup", "running", "closed"}
    /\ running' = FALSE
    /\ ui' = IF running THEN "join" ELSE "exited"
    /\ UNCHANGED <<gameVars, thread, loopVars, timeVars, discordVars, historyVars>>

Join ==
    /\ UiGoto("join", "stop rpc")
    /\ thread = "done"
    /\ UNCHANGED <<gameVars, running, thread, loopVars, timeVars, discordVars,
                   historyVars>>

StopRpc ==
    /\ UiGoto("stop rpc", "closed")
    /\ session' = "off"
    /\ shown' = NoActivity
    /\ UNCHANGED <<gameVars, running, thread, loopVars, timeVars, historyVars>>

\* What the UI thread does inside StartPresence and StopPresence.
UiStep == StartRpc \/ SpawnThread \/ Join \/ StopRpc

-----------------------------------------------------------------------------
(* The presence thread.                                                       *)

ThreadGoto(from, to) ==
    /\ thread = from
    /\ thread' = to

\* The loop condition; a true one starts the sleep.
TestRunning ==
    /\ ThreadGoto("test", IF running THEN "sleep" ELSE "done")
    /\ slept' = FALSE
    /\ UNCHANGED <<gameVars, running, ui, loopVars, age, discordVars, historyVars>>

Wake ==
    /\ ThreadGoto("sleep", "retest")
    /\ slept
    /\ UNCHANGED <<gameVars, running, ui, loopVars, timeVars, discordVars, historyVars>>

RetestRunning ==
    /\ ThreadGoto("retest", IF running THEN "poll" ELSE "done")
    /\ UNCHANGED <<gameVars, running, ui, loopVars, timeVars, discordVars, historyVars>>

Current == [kind |-> "playing", game |-> game, turn |-> turn]

\* Faulty: the menu does not clear the last activity.
RetainAcrossMenu == IF screen = "turn" THEN Current ELSE retained

\* retained_gameplay after a poll: TryBuildGameplayPresence succeeds only on a
\* playable turn; a known menu resets it; anything else leaves it alone.
Retain ==
    CASE screen = "turn" -> Current
      [] screen = "menu" -> NoActivity
      [] OTHER -> retained

\* Faulty: the optional is dereferenced without looking.
SelectUnchecked(kept) ==
    CASE screen = "turn" -> Current
      [] screen = "gated" -> kept
      [] OTHER -> Idle

\* SelectPresence(state, kept)
SelectPresence(kept) ==
    CASE screen = "turn" -> Current
      [] screen = "gated" -> IF kept = NoActivity THEN InGame ELSE kept
      [] OTHER -> Idle

Poll ==
    /\ ThreadGoto("poll", "publish")
    /\ retained' = Retain
    /\ pending' = SelectPresence(Retain)
    /\ lastMenu' = IF screen = "menu" THEN game ELSE lastMenu
    /\ lastComplete' = IF screen = "turn" THEN Current ELSE lastComplete
    /\ UNCHANGED <<gameVars, running, ui, lastSent, timeVars, discordVars>>

Publish ==
    /\ ThreadGoto("publish", "test")
    /\ pending # lastSent
    /\ age = PublishInterval
    /\ shown' = pending
    /\ lastSent' = pending
    /\ age' = 0
    /\ UNCHANGED <<gameVars, running, ui, retained, pending, slept, session,
                   historyVars>>

\* Faulty: a rate-limited activity counts as sent.
HoldBackAsSent ==
    /\ ThreadGoto("publish", "test")
    /\ pending = lastSent \/ age < PublishInterval
    /\ lastSent' = pending
    /\ UNCHANGED <<gameVars, running, ui, retained, pending, timeVars, discordVars,
                   historyVars>>

\* Faulty: the interval restarts at every poll.
HoldBackRestarts ==
    /\ ThreadGoto("publish", "test")
    /\ pending = lastSent \/ age < PublishInterval
    /\ age' = 0
    /\ UNCHANGED <<gameVars, running, ui, loopVars, slept, discordVars, historyVars>>

\* Nothing new, or too soon.
HoldBack ==
    /\ ThreadGoto("publish", "test")
    /\ pending = lastSent \/ age < PublishInterval
    /\ UNCHANGED <<gameVars, running, ui, loopVars, timeVars, discordVars,
                   historyVars>>

ThreadStep ==
    TestRunning \/ Wake \/ RetestRunning \/ Poll \/ Publish \/ HoldBack

-----------------------------------------------------------------------------
Next ==
    \/ Game \/ Tick
    \/ StartExchange \/ StopExchange \/ UiStep
    \/ ThreadStep

Spec == Init /\ [][Next]_vars

\* The clock advances and both threads execute what they have entered.
FairSpec ==
    Spec /\ WF_vars(Tick) /\ WF_vars(UiStep) /\ WF_vars(ThreadStep)

-----------------------------------------------------------------------------
(* Properties.                                                                *)

\* SetPresence and Stop are only called between the client's Start and its Stop: also
\* when the window closes while the thread is between its poll and its publication,
\* when a shutdown follows the close, and when one comes without a start.
CalledInSession ==
    [][/\ StartRpc => session = "off"
       /\ Publish \/ StopRpc => session = "on"]_vars

\* Once StopPresence goes on to stop the client, and after it has returned, no
\* presence thread is left: OnShutdown may destroy what the thread would read.
StoppedIsQuiet ==
    ui \in {"stop rpc", "closed", "exited"} => thread \in {"none", "done"}

\* The activity a gated screen shows is the last complete one of a game that
\* began after the last menu the thread polled ("temporary gameplay gate retains
\* last complete activity", "menu transition clears gameplay presentation").
\* A menu that comes and goes between two polls clears nothing: the next game's
\* gated screens may then show the last game's activity.
RetainedIsCurrent ==
    retained = IF lastComplete # NoActivity /\ lastComplete.game > lastMenu
                 THEN lastComplete ELSE NoActivity

\* What the client shows while the loop is between publications is what the
\* thread believes it sent, so deduplication never hides a change.
ShownIsLastSent == thread # "none" /\ session = "on" => shown = lastSent

\* StopPresence returns: the join waits for one poll interval at most.
StopReturns == (ui = "join") ~> (ui = "closed")

\* The rate limit delays an activity but never loses it: if the game's screen
\* keeps asking for one activity and the presence keeps running, it is shown.
Converges ==
    \A m \in Models :
        <>[](running /\ thread # "none" /\ SelectPresence(Retain) = m)
            => <>[](shown = m)
=============================================================================
