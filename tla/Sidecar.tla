------------------------------ MODULE Sidecar ------------------------------
(***************************************************************************)
(* The server as a process of the game: WaylineForgeProcessHost.cs starts  *)
(* it, waits for its receipt on a private pipe and for its health, and     *)
(* ends its process group; app/launcher.py and app/production_runtime.py   *)
(* compose the server, serve, and close what they opened.                  *)
(*                                                                         *)
(* The host's methods run on the game's main thread, which a termination   *)
(* blocks; what they await is completed elsewhere and picked up by Resume. *)
(* Signals reach the server at any point: TERM from the host, INT from a   *)
(* terminal.  uvicorn answers both while it serves, and raises them again  *)
(* when serve returns.                                                     *)
(*                                                                         *)
(* The model process is a session of its own that no signal to the         *)
(* server's group reaches.                                                 *)
(*                                                                         *)
(* Abstracted: arguments, environment and descriptors of the spawn; the    *)
(* text of the receipt, which is what this server writes; one request in   *)
(* flight stands for any number.                                           *)
(***************************************************************************)
EXTENDS Naturals, FiniteSetsExt

CONSTANTS
    MaxStarts,      \* bound: calls of StartAsync
    MaxMishaps,     \* bound: calls that fail, and deaths of the server
    MaxInterrupts,  \* bound: INT signals
    GameMayDie      \* the game may be killed

ASSUME SidecarAssumption ==
    /\ MaxStarts \in Nat \ {0}
    /\ MaxMishaps \in Nat /\ MaxInterrupts \in 0..1
    /\ GameMayDie \in BOOLEAN

\* What build_production_runtime opens, in this order.
cache == 1  profiles == 2  quizzes == 3  routes == 4  driver == 5  worker == 6
Resources == cache..worker
ModelOwners == {driver, worker}

VARIABLES
    \* WaylineForgeProcessHost
    host,       \* its State
    disposed,
    awaiting,   \* what StartAsync is suspended on
    answer,     \* how that ended, not picked up yet
    over,       \* the startup window has passed
    cancelled,  \* the caller's token
    owned,      \* _process is set
    ending,     \* what TerminateTree, which blocks the main thread, is for
    reader,     \* the host's end of the pipe is open
    collected,  \* the exit of the current process was collected
    game,       \* the game is alive
    launches,
    \* the server
    phase,      \* where its main task is
    web,        \* uvicorn
    opened,     \* resources 1..opened are open
    closed, unclosed,   \* closed, and those whose closing failed
    receipt,    \* it was written to the pipe
    busy,       \* a request is in flight
    caught,     \* signals uvicorn caught
    interrupt,  \* the main task was cancelled and does not know it
    primary,    \* the failure serve_runtime will raise
    code,       \* the exit code
    \* everything else
    models,     \* launches whose model process runs
    interrupts, mishaps

hostVars == <<host, disposed, awaiting, answer, over, cancelled, owned, ending, reader,
              collected, game, launches>>
closing == <<opened, closed, unclosed>>
signals == <<caught, interrupt, interrupts>>
serverVars == <<phase, web, closing, receipt, busy, signals, primary, code>>
sidecarVars == <<hostVars, serverVars, models, mishaps>>

SidecarTypeOK ==
    /\ host \in {"Stopped", "Starting", "Ready", "RuntimeUnavailable", "Failed"}
    /\ awaiting \in {"none", "receipt", "exit", "health"}
    /\ answer \in {"none", "line", "eof", "exit78", "exit", "healthy", "failed", "cancelled"}
    /\ ending \in {"no", "Failed", "Stopped", "Disposed"}
    /\ launches \in 0..MaxStarts
    /\ phase \in {"none", "composing", "cleaning", "starting", "started", "serving",
                  "stopping", "closing", "exited"}
    /\ web \in {"off", "on", "exiting", "done"}
    /\ opened \in 0..worker /\ closed \subseteq Resources /\ unclosed \subseteq Resources
    /\ caught \subseteq {"TERM", "INT"}
    /\ primary \in {"none", "launch", "control"}
    /\ code \in {0, 78, 130, 137, 143}
    /\ models \subseteq 1..MaxStarts
    /\ interrupts \in 0..MaxInterrupts /\ mishaps \in 0..MaxMishaps
    /\ {disposed, over, cancelled, owned, reader, collected, game, receipt, busy, interrupt}
           \subseteq BOOLEAN

SidecarInit ==
    /\ host = "Stopped" /\ disposed = FALSE
    /\ awaiting = "none" /\ answer = "none"
    /\ over = FALSE /\ cancelled = FALSE
    /\ owned = FALSE /\ ending = "no" /\ reader = FALSE /\ collected = FALSE
    /\ game = TRUE /\ launches = 0
    /\ phase = "none" /\ web = "off"
    /\ opened = 0 /\ closed = {} /\ unclosed = {}
    /\ receipt = FALSE /\ busy = FALSE
    /\ caught = {} /\ interrupt = FALSE /\ interrupts = 0
    /\ primary = "none" /\ code = 0
    /\ models = {} /\ mishaps = 0

Mishap == mishaps < MaxMishaps /\ mishaps' = mishaps + 1
Exited == phase = "exited"
Alive == phase \notin {"none", "exited"}

-----------------------------------------------------------------------------
(* The server: composition.                                                *)

Exit(n) == /\ phase' = "exited" /\ web' = "off" /\ busy' = FALSE
           /\ code' = n

Stay == UNCHANGED <<hostVars, models>>

Open == /\ phase = "composing" /\ opened < worker
        /\ opened' = opened + 1
        /\ UNCHANGED <<phase, web, closed, unclosed, receipt, busy, signals, primary, code,
                       mishaps>>
        /\ Stay

\* Whatever was opened is closed again; a package that is invalid fails
\* before anything is.
ComposeFails ==
    /\ phase = "composing" /\ Mishap
    /\ primary' = "launch"
    /\ IF opened = 0 THEN Exit(78)
       ELSE phase' = "cleaning" /\ UNCHANGED <<web, busy, code>>
    /\ UNCHANGED <<closing, receipt, signals>> /\ Stay

Composed == /\ phase = "composing" /\ opened = worker
            /\ phase' = "starting"
            /\ UNCHANGED <<web, closing, receipt, busy, signals, primary, code, mishaps>>
            /\ Stay

-----------------------------------------------------------------------------
(* The server: serve_runtime up to its finally.                            *)

Fail(next) == primary' = "launch" /\ phase' = next

\* The listener cannot be bound, or uvicorn ends before it has started.
StartFails == /\ phase = "starting" /\ Mishap
              /\ Fail("closing")
              /\ UNCHANGED <<web, closing, receipt, busy, signals, code>> /\ Stay

StartExpires == /\ phase = "starting" /\ Mishap
                /\ Fail("stopping") /\ web' = "exiting"
                /\ UNCHANGED <<closing, receipt, busy, signals, code>> /\ Stay

\* A cancellation is met at the first await.
StartInterrupted == /\ phase = "starting" /\ interrupt
                    /\ phase' = "stopping" /\ web' = "exiting"
                    /\ primary' = "control" /\ interrupt' = FALSE
                    /\ UNCHANGED <<closing, receipt, busy, caught, interrupts, code, mishaps>>
                    /\ Stay

Started == /\ phase = "starting" /\ ~interrupt
           /\ phase' = "started" /\ web' = "on"
           /\ UNCHANGED <<closing, receipt, busy, signals, primary, code, mishaps>> /\ Stay

\* publish_startup_receipt: nobody may be reading any more.
Publish == /\ phase = "started"
           /\ IF reader THEN /\ receipt' = TRUE /\ phase' = "serving"
                             /\ UNCHANGED <<web, primary>>
              ELSE /\ Fail("stopping")
                   /\ web' = IF web = "on" THEN "exiting" ELSE web
                   /\ UNCHANGED receipt
           /\ UNCHANGED <<closing, busy, signals, code, mishaps>> /\ Stay

\* A request, and with it perhaps the model.
Request == /\ game /\ host = "Ready"
           /\ web = "on" /\ ~busy
           /\ busy' = TRUE
           /\ UNCHANGED <<phase, web, closing, receipt, signals, primary, code, mishaps>>
           /\ Stay

Answered == /\ busy
            /\ busy' = FALSE
            /\ UNCHANGED <<phase, web, closing, receipt, signals, primary, code, mishaps>>
            /\ Stay

\* A driver that was told to shut down starts nothing any more.
LaunchModel == /\ busy /\ (closed \cup unclosed) \cap ModelOwners = {}
               /\ launches \notin models
               /\ models' = models \cup {launches}
               /\ UNCHANGED <<hostVars, serverVars, mishaps>>

\* serve returns once nothing is in flight, or at a second signal; the
\* signals it caught are raised again under the handlers of before: TERM ends
\* the process there and then, INT cancels the main task.
Drained ==
    /\ web = "exiting" /\ (~busy \/ {"INT", "TERM"} \subseteq caught)
    /\ IF "TERM" \in caught THEN Exit(143) /\ UNCHANGED interrupt
       ELSE /\ web' = "done"
            /\ interrupt' = (interrupt \/ "INT" \in caught)
            /\ UNCHANGED <<phase, busy, code>>
    /\ UNCHANGED <<closing, receipt, caught, interrupts, primary, mishaps>> /\ Stay

ServeFails == /\ phase = "serving" /\ web # "done" /\ Mishap
              /\ Fail("closing") /\ web' = "done"
              /\ UNCHANGED <<closing, receipt, busy, signals, code>> /\ Stay

ServeReturns == /\ phase = "serving" /\ web = "done"
                /\ phase' = "closing"
                /\ primary' = IF interrupt THEN "control" ELSE primary
                /\ interrupt' = FALSE
                /\ UNCHANGED <<web, closing, receipt, busy, caught, interrupts, code, mishaps>>
                /\ Stay

-----------------------------------------------------------------------------
(* The server: what serve_runtime and build_production_runtime close.      *)

Interrupted == IF interrupt THEN "control" ELSE primary

\* _end_server waits for serve, for five seconds at most: nobody has read the
\* receipt, so no request is in flight and serve returns.
Ended == /\ phase = "stopping" /\ web = "done"
         /\ phase' = "closing"
         /\ primary' = Interrupted /\ interrupt' = FALSE
         /\ UNCHANGED <<web, closing, receipt, busy, caught, interrupts, code, mishaps>>
         /\ Stay

ToClose == (1..opened) \ (closed \cup unclosed)

\* (mutant) A cleanup that fails ends the cleanup.
CloseUntilFailure ==
    /\ phase \in {"cleaning", "closing"} /\ ToClose # {}
    /\ LET r == Max(ToClose) IN
       \/ /\ closed' = closed \cup {r}
          /\ models' = IF r \in ModelOwners THEN models \ {launches} ELSE models
          /\ UNCHANGED <<phase, web, busy, code, unclosed, primary, mishaps>>
       \/ /\ Mishap
          /\ unclosed' = unclosed \cup {r}
          /\ Exit(78)
          /\ UNCHANGED <<closed, primary, models>>
    /\ UNCHANGED <<hostVars, opened, receipt, signals>>

\* RuntimeBundle.aclose and _run_cleanups: last opened first, each of them
\* even if another one failed.  Closing the worker also shuts the driver
\* down, and the driver reports success only without a child.
CloseOne ==
    /\ phase \in {"cleaning", "closing"} /\ ToClose # {}
    /\ LET r == Max(ToClose) IN
       \/ /\ closed' = closed \cup {r}
          /\ models' = IF r \in ModelOwners THEN models \ {launches} ELSE models
          /\ UNCHANGED <<unclosed, primary, mishaps>>
       \/ /\ Mishap
          /\ unclosed' = unclosed \cup {r}
          /\ primary' = IF primary = "control" THEN primary ELSE "launch"
          /\ UNCHANGED <<closed, models>>
    /\ UNCHANGED <<hostVars, phase, web, opened, receipt, busy, signals, code>>

\* A cancellation met while composing becomes a LaunchError.
Leave == /\ phase \in {"cleaning", "closing"} /\ ToClose = {}
         /\ Exit(CASE phase = "cleaning" -> 78
                   [] Interrupted = "control" -> 130
                   [] Interrupted = "launch" -> 78
                   [] OTHER -> 0)
         /\ UNCHANGED <<closing, receipt, signals, primary, mishaps>> /\ Stay

-----------------------------------------------------------------------------
(* Signals and deaths.                                                     *)

Handled == web \in {"on", "exiting"}

\* What a TERM does to the server; outside uvicorn nothing handles it.
Term == IF Handled
        THEN /\ caught' = caught \cup {"TERM"} /\ web' = "exiting"
             /\ UNCHANGED <<phase, busy, code>>
        ELSE Exit(143) /\ UNCHANGED caught

Interrupt ==
    /\ Alive /\ interrupts < MaxInterrupts
    /\ interrupts' = interrupts + 1
    /\ IF Handled
       THEN caught' = caught \cup {"INT"} /\ web' = "exiting" /\ UNCHANGED interrupt
       ELSE interrupt' = TRUE /\ UNCHANGED <<caught, web>>
    /\ UNCHANGED <<phase, closing, receipt, busy, primary, code, mishaps>> /\ Stay

ServerDies == /\ Alive /\ Mishap
              /\ Exit(137)
              /\ UNCHANGED <<closing, receipt, signals, primary>> /\ Stay

\* The kernel closes its end of the pipe.
GameDies == /\ GameMayDie /\ game
            /\ game' = FALSE /\ reader' = FALSE
            /\ UNCHANGED <<host, disposed, awaiting, answer, over, cancelled, owned, ending,
                           collected, launches, serverVars, models, mishaps>>

-----------------------------------------------------------------------------
(* The host.                                                               *)

\* The main thread is not inside TerminateTree.
Free == game /\ ending = "no"

SetFailed == host' = "Failed"

StartAsync ==
    /\ Free /\ ~disposed /\ host = "Stopped" /\ awaiting = "none"
    /\ launches < MaxStarts
    /\ launches' = launches + 1
    /\ over' = FALSE /\ cancelled' = FALSE
    /\ \/ /\ host' = "Starting" /\ awaiting' = "receipt"
          /\ owned' = TRUE /\ reader' = TRUE /\ collected' = FALSE
          /\ phase' = "composing" /\ web' = "off"
          /\ opened' = 0 /\ closed' = {} /\ unclosed' = {}
          /\ receipt' = FALSE /\ busy' = FALSE /\ caught' = {} /\ interrupt' = FALSE
          /\ primary' = "none" /\ code' = 0
          /\ UNCHANGED <<interrupts, mishaps>>
       \/ /\ Mishap /\ SetFailed        \* the launcher cannot spawn
          /\ UNCHANGED <<awaiting, owned, reader, collected, serverVars>>
    /\ UNCHANGED <<disposed, answer, ending, game, models>>

Token == over \/ cancelled

Answers(a) == answer' = a

\* (mutant) A read of the pipe cannot be cancelled.
ReadBlocks ==
    /\ game /\ awaiting = "receipt" /\ answer = "none"
    /\ \/ reader /\ receipt /\ Answers("line")
       \/ reader /\ Exited /\ ~receipt /\ Answers("eof")
       \/ ~reader /\ Answers("failed")
    /\ reader' = FALSE
    /\ UNCHANGED <<host, disposed, awaiting, over, cancelled, owned, ending, collected, game,
                   launches, serverVars, models, mishaps>>

\* ReadLine polls the pipe and the token, and closes its end.
ReadEnds ==
    /\ game /\ awaiting = "receipt" /\ answer = "none"
    /\ \/ Token /\ Answers("cancelled")
       \/ reader /\ receipt /\ Answers("line")
       \/ reader /\ Exited /\ ~receipt /\ Answers("eof")
       \/ ~reader /\ Answers("failed")
    /\ reader' = FALSE
    /\ UNCHANGED <<host, disposed, awaiting, over, cancelled, owned, ending, collected, game,
                   launches, serverVars, models, mishaps>>

\* WaitForExitAsync polls waitpid and the token.
ExitSeen ==
    /\ game /\ awaiting = "exit" /\ answer = "none"
    /\ \/ Token /\ Answers("cancelled") /\ UNCHANGED collected
       \/ /\ Exited
          /\ collected' = TRUE
          /\ Answers(IF code = 78 THEN "exit78" ELSE "exit")
    /\ UNCHANGED <<host, disposed, awaiting, over, cancelled, owned, ending, reader, game,
                   launches, serverVars, models, mishaps>>

\* CheckReadyAsync: a request for /v1/health.
HealthEnds ==
    /\ game /\ awaiting = "health" /\ answer = "none"
    /\ \/ Token /\ Answers("cancelled")
       \/ web = "on" /\ Answers("healthy")
       \/ web # "on" /\ Answers("failed")
    /\ UNCHANGED <<host, disposed, awaiting, over, cancelled, owned, ending, reader, collected,
                   game, launches, serverVars, models, mishaps>>

\* Dropping the process: it was reaped, or is now.
Dropped == /\ owned' = FALSE /\ reader' = FALSE
           /\ collected' = (collected \/ Exited)

SetState(goal) == host' = IF goal = "Failed" THEN "Failed" ELSE "Stopped"

\* StopOwnedProcess on the way to a state: no process, one that has ended, or
\* a TERM and the wait for it.
Stop(goal) ==
    IF owned /\ ~Exited
    THEN /\ ending' = goal
         /\ Term
         /\ UNCHANGED <<host, owned, reader, collected>>
    ELSE /\ Dropped /\ SetState(goal)
         /\ UNCHANGED <<ending, phase, web, busy, code, caught>>

\* StartAsync goes on with what it awaited, whatever happened meanwhile.
Resume ==
    /\ Free /\ awaiting # "none" /\ answer # "none"
    /\ answer' = "none"
    /\ \/ /\ answer = "line" /\ awaiting' = "health"
          /\ UNCHANGED <<host, owned, ending, reader, collected, serverVars>>
       \/ /\ answer = "eof" /\ owned /\ awaiting' = "exit"
          /\ UNCHANGED <<host, owned, ending, reader, collected, serverVars>>
       \/ /\ answer = "exit78" /\ owned /\ awaiting' = "none"
          /\ host' = "RuntimeUnavailable" /\ Dropped
          /\ UNCHANGED <<ending, serverVars>>
       \/ /\ answer = "healthy" /\ awaiting' = "none"
          /\ host' = "Ready"
          /\ UNCHANGED <<owned, ending, reader, collected, serverVars>>
       \/ /\ \/ answer \in {"exit", "failed", "cancelled"}
             \/ answer \in {"eof", "exit78"} /\ ~owned
          /\ awaiting' = "none"
          /\ Stop(IF answer = "cancelled" /\ cancelled THEN "Stopped" ELSE "Failed")
          /\ UNCHANGED <<closing, receipt, interrupt, interrupts, primary>>
    /\ UNCHANGED <<disposed, over, cancelled, game, launches, models, mishaps>>

Dispose ==
    /\ Free /\ ~disposed
    /\ disposed' = TRUE
    /\ Stop("Disposed")
    /\ UNCHANGED <<awaiting, answer, over, cancelled, game, launches, closing, receipt,
                   interrupt, interrupts, primary, models, mishaps>>

Terminated == /\ ending' = "no" /\ SetState(ending)
              /\ owned' = FALSE /\ reader' = FALSE

\* The server ended within the second it is given.
GraceHelps == /\ game /\ ending # "no" /\ Exited
              /\ Terminated /\ collected' = TRUE
              /\ UNCHANGED <<disposed, awaiting, answer, over, cancelled, game, launches,
                             serverVars, models, mishaps>>

\* (mutant) A server that does not end within its second is left alone.
GraceOverGivesUp ==
    /\ game /\ ending # "no" /\ ~Exited
    /\ Terminated
    /\ UNCHANGED <<disposed, awaiting, answer, over, cancelled, collected, game, launches,
                   serverVars, models, mishaps>>

\* SIGKILL, and a wait for the leader.
GraceOver ==
    /\ game /\ ending # "no" /\ ~Exited
    /\ Exit(137)
    /\ Terminated /\ collected' = TRUE
    /\ UNCHANGED <<disposed, awaiting, answer, over, cancelled, game, launches, closing,
                   receipt, signals, primary, models, mishaps>>

Elapse == /\ game /\ awaiting # "none" /\ ~over
          /\ over' = TRUE
          /\ UNCHANGED <<host, disposed, awaiting, answer, cancelled, owned, ending, reader,
                         collected, game, launches, serverVars, models, mishaps>>

Cancel == /\ Free /\ awaiting # "none" /\ ~cancelled
          /\ cancelled' = TRUE
          /\ UNCHANGED <<host, disposed, awaiting, answer, over, owned, ending, reader,
                         collected, game, launches, serverVars, models, mishaps>>

-----------------------------------------------------------------------------

Host == \/ ReadEnds \/ ExitSeen \/ HealthEnds \/ Resume
        \/ GraceHelps \/ GraceOver \/ Elapse

Closing == Drained \/ Ended \/ CloseOne \/ Leave

Serving == \/ Open \/ Composed \/ Started \/ StartInterrupted \/ Publish
           \/ ServeReturns \/ Answered

SidecarNext ==
    \/ Host \/ Closing \/ Serving
    \/ StartAsync \/ Dispose \/ Cancel
    \/ ComposeFails \/ StartFails \/ StartExpires \/ ServeFails
    \/ Request \/ LaunchModel
    \/ Interrupt \/ ServerDies \/ GameDies

\* The host's threads run and time passes; a server may hang before it serves,
\* but what it is told to close it closes.
SidecarSpec ==
    /\ SidecarInit /\ [][SidecarNext]_sidecarVars
    /\ WF_sidecarVars(Host) /\ WF_sidecarVars(Closing)
    /\ WF_sidecarVars(Elapse) /\ WF_sidecarVars(Resume) /\ WF_sidecarVars(GraceOver)

\* A server that does not hang.
ServingSpec == SidecarSpec /\ WF_sidecarVars(Serving)

-----------------------------------------------------------------------------
(* Properties.                                                             *)

\* Whenever a host that is not running a server says so, because StartAsync
\* failed, was cancelled or found no runtime, or because it was disposed, at
\* whatever point of a start, its server has ended and was reaped.
NoServerLeft ==
    Free /\ (host \notin {"Starting", "Ready"} \/ disposed) =>
        ~Alive /\ (Exited => collected)

\* A server that leaves by its own code leaves a model process behind only if
\* ending it failed twice, in the worker's cleanup and in the driver's: one
\* failed cleanup, of whatever resource, is survived.
OneFailureIsSurvived ==
    Exited /\ code \in {0, 78, 130} /\ launches \in models => ModelOwners \subseteq unclosed

\* A start comes to its end within its window, whatever the server does, and
\* a server that begins to close what it has exits.
EndsAreReached ==
    /\ awaiting # "none" ~> ~game \/ (awaiting = "none" /\ ending = "no")
    /\ phase \in {"cleaning", "stopping", "closing"} ~> Exited

\* No model process outlives the server that started it.
ModelEndsWithServer == ~Alive => models = {}

\* The server ends when the game is gone.
ServerEndsWithGame == ~game ~> ~Alive

\* A disposed host stays stopped.
DisposedIsStopped == disposed /\ Free => host = "Stopped"
=============================================================================
