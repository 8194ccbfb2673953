--------------------------- MODULE ProcessProofs ---------------------------
(***************************************************************************)
(* What is proved of the two modules that own processes.  ModelProcess:    *)
(* for any number of launches and failures the launch that has a child     *)
(* owns the authority, so that servers that are alive never have two       *)
(* children between them.  Sidecar: what the game    *)
(* leaves running when it stops its service, and the service its model.    *)
(***************************************************************************)
EXTENDS ModelProcess, Sidecar, TLAPS

\* The variables the argument is about.
Shape == /\ os \in [Launches -> {"none", "running", "zombie", "gone"}]
         /\ held \in Launches \cup {Nothing}
         /\ pipeline \in [Launches -> {"none", "checking", "creating", "binding",
                                       "cleaning", "spawned", "failed"}]
         /\ clean \in [Launches -> Steps \cup {"term", "kill", "reaped", "unsafe"}]
         /\ waiter \in [Launches -> {"none", "waiting", "waited", "published"}]

\* The lock file has one owner.
Exclusive == rival => held = Nothing

\* The authority is held from the start of a launch ...
Early(e) == pipeline[e] \in {"checking", "creating"}

HeldBefore == up => \A e \in Launches : Early(e) => held = e

\* ... until its child is recorded as reaped,
HeldUntilReaped ==
    up => \A e \in Launches : os[e] # "none" /\ e \notin reaped => held = e

\* which is only done for a child that is gone.
ReapedIsGone ==
    \A e \in Launches :
        e \in reaped \/ waiter[e] \in {"waited", "published"} \/ clean[e] = "reaped"
            => os[e] = "gone"

\* A launch has no child before its thread creates one.
NoChildYet ==
    up => \A e \in Launches :
              pipeline[e] \in {"none", "checking", "creating"} => os[e] = "none"

IInv == Shape /\ Exclusive /\ HeldBefore /\ HeldUntilReaped /\ ReapedIsGone /\ NoChildYet

LEMMA Begins == Init => IInv
  BY ModelProcessAssumption DEF Init, IInv, Shape, Exclusive, HeldBefore, Early,
     HeldUntilReaped, ReapedIsGone, NoChildYet, Launches, Nothing, Steps

\* An action that leaves the child, its reaping and the authority alone, and
\* moves no pipeline back.
LEMMA Harmless ==
    ASSUME IInv, UNCHANGED <<os, held, rival, up, reaped>>,
           Shape',
           \A e \in Launches : Early(e)' => Early(e),
           \A e \in Launches : pipeline'[e] \in {"none", "checking", "creating"} =>
               pipeline[e] \in {"none", "checking", "creating"},
           \A e \in Launches : waiter'[e] \in {"waited", "published"} =>
               waiter[e] \in {"waited", "published"} \/ clean[e] = "reaped",
           \A e \in Launches : clean'[e] = "reaped" => clean[e] = "reaped"
    PROVE  IInv'
  BY DEF IInv, Exclusive, HeldBefore, HeldUntilReaped, ReapedIsGone, NoChildYet

\* The pipeline, on the event loop.
LEMMA Pipeline ==
    ASSUME IInv, NEW e \in Launches, Loop(e)
    PROVE  IInv'
<1> USE DEF Loop, LoopFree
<1>1. CASE Checked(e)
  BY <1>1, Harmless DEF Checked, system, authority, ends, IInv, Shape, Early
<1>2. CASE NothingCreated(e)
  <2>1. held = e /\ os[e] = "none"
    BY <1>2 DEF NothingCreated, IInv, HeldBefore, NoChildYet, Early
  <2>2. \A f \in Launches : os[f] # "none" => f \in reaped
    BY <1>2, <2>1 DEF NothingCreated, IInv, HeldUntilReaped
  <2>3. \A f \in Launches : f # e => ~Early(f)
    BY <1>2, <2>1 DEF NothingCreated, IInv, HeldBefore
  <2>4. Shape' /\ Exclusive' /\ held' \in {e, Nothing}
    BY <1>2, <2>1 DEF NothingCreated, LetGo, authority, ends, IInv, Shape, Exclusive
  <2>. QED
    BY <1>2, <2>1, <2>2, <2>3, <2>4 DEF NothingCreated, ends, IInv, Shape, HeldBefore,
       HeldUntilReaped, ReapedIsGone, NoChildYet, Early
<1>3. CASE Bind(e)
  BY <1>3, Harmless DEF Bind, system, authority, ends, IInv, Shape, Early
<1>4. CASE BindFails(e)
  BY <1>4, Harmless DEF BindFails, authority, ends, IInv, Shape, Early
<1>5. CASE CleanEnds(e)
  BY <1>5, Harmless DEF CleanEnds, system, authority, ends, IInv, Shape, Early
<1>6. CASE Return(e)
  BY <1>6, Harmless DEF Return, system, authority, ends, IInv, Shape, Early
<1>7. CASE LateBegins(e)
  BY <1>7, Harmless DEF LateBegins, system, authority, launch, IInv, Shape, Early
<1>8. CASE Reap(e)
  <2>1. os[e] = "gone" /\ held = e
    BY <1>8 DEF Reap, IInv, ReapedIsGone, HeldUntilReaped
  <2>2. \A f \in Launches : ~Early(f) /\ (f # e /\ os[f] # "none" => f \in reaped)
    BY <1>8, <2>1 DEF Reap, IInv, HeldBefore, HeldUntilReaped, NoChildYet, Early
  <2>3. Shape' /\ Exclusive' /\ held' \in {e, Nothing}
    BY <1>8, <2>1 DEF Reap, LetGo, IInv, Shape, Exclusive
  <2>4. ReapedIsGone' /\ NoChildYet' /\ HeldUntilReaped'
    BY <1>8, <2>1, <2>2 DEF Reap, IInv, ReapedIsGone, NoChildYet, HeldUntilReaped
  <2>. QED
    BY <1>8, <2>1, <2>2, <2>3, <2>4 DEF Reap, IInv, HeldBefore, Early
<1>. QED
  BY <1>1, <1>2, <1>3, <1>4, <1>5, <1>6, <1>7, <1>8

\* The threads.
LEMMA InThreads ==
    ASSUME IInv, NEW e \in Launches, Threads(e)
    PROVE  IInv'
<1> USE DEF Threads
<1>1. CASE Create(e)
  <2>1. os[e] = "none" /\ held = e
    BY <1>1 DEF Create, IInv, HeldBefore, NoChildYet, Early
  <2>. QED
    BY <1>1, <2>1 DEF Create, authority, ends, IInv, Shape, Exclusive, HeldBefore, Early,
       HeldUntilReaped, ReapedIsGone, NoChildYet
<1>2. CASE CleanSignals(e)
  BY <1>2, Harmless DEF CleanSignals, authority, ends, IInv, Shape, Early, Steps
<1>3. CASE CleanReaps(e)
  BY <1>3 DEF CleanReaps, authority, ends, IInv, Shape, Exclusive, HeldBefore, Early,
     HeldUntilReaped, ReapedIsGone, NoChildYet, Steps
<1>4. CASE CleanExpires(e)
  BY <1>4, Harmless DEF CleanExpires, system, authority, ends, IInv, Shape, Early, Steps
<1>5. CASE Waited(e)
  BY <1>5 DEF Waited, authority, launch, IInv, Shape, Exclusive, HeldBefore, Early,
     HeldUntilReaped, ReapedIsGone, NoChildYet
<1>6. CASE Published(e)
  BY <1>6, Harmless DEF Published, system, authority, launch, IInv, Shape, Early
<1>. QED
  BY <1>1, <1>2, <1>3, <1>4, <1>5, <1>6

\* The wait that follows a signal invents no end.
LEMMA Awaiting ==
    ASSUME IInv, NEW e \in Launches, NEW by \in Users, AwaitEnd(e, by),
           UNCHANGED <<os, held, rival, up, reaped, pipeline, clean>>
    PROVE  IInv'
  BY Harmless DEF AwaitEnd, IInv, Shape, Early

\* What ends a child: the supervisor, the clean-up and the shutdown.
LEMMA InEnding ==
    ASSUME IInv, NEW e \in Launches, NEW by \in Users, Ending(e, by)
    PROVE  IInv'
<1> USE DEF Ending
<1>1. CASE Signal(e, by)
  BY <1>1, Harmless, Awaiting DEF Signal, system, launch, ends, IInv, Shape, Early
<1>2. CASE WaitEnds(e, by)
  BY <1>2, Harmless DEF WaitEnds, system, launch, IInv, Shape, Early
<1>3. CASE WaitExpires(e, by)
  BY <1>3, Harmless DEF WaitExpires, system, launch, IInv, Shape, Early
<1>. QED
  BY <1>1, <1>2, <1>3

\* The loop aims at a launch, for one of the three.
AimShape == aim \in Aims \cup {NoAim}

\* The signal itself.
LEMMA InSignal ==
    ASSUME IInv, AimShape, Delivered \/ Refused \/ Missed
    PROVE  IInv'
<1>0. aim # NoAim /\ aim.launch \in Launches /\ aim.by \in Users
  BY DEF Delivered, Refused, Missed, AimShape, Aims, Users
<1>1. CASE Delivered
  BY <1>0, <1>1, Awaiting DEF Delivered, launch
<1>2. CASE Refused
  BY <1>0, <1>2, Harmless DEF Refused, system, launch, IInv, Shape, Early
<1>3. CASE Missed
  BY <1>0, <1>3, Awaiting, Harmless DEF Missed, launch, IInv, Shape, Early
<1>. QED
  BY <1>1, <1>2, <1>3

\* The shutdown of the driver.
LEMMA InShutdown == IInv /\ ShutsDown => IInv'
<1> SUFFICES ASSUME IInv, ShutsDown PROVE IInv'
  OBVIOUS
<1>1. CASE Close
  <2>1. held' = IF held \in reaped THEN Nothing ELSE held
    BY <1>1 DEF Close
  <2>2. \A f \in Launches : held \in reaped =>
            ~Early(f) /\ (os[f] # "none" => f \in reaped)
    BY <1>1 DEF Close, LoopFree, IInv, HeldBefore, HeldUntilReaped, NoChildYet, ReapedIsGone, Early
  <2>. QED
    BY <1>1, <2>1, <2>2 DEF Close, system, ends, IInv, Shape, Exclusive, HeldBefore, Early,
       HeldUntilReaped, ReapedIsGone, NoChildYet
<1>2. CASE Shutdown \/ SpawnsEnd \/ SpawnsExpire
  BY <1>2, Harmless DEF Shutdown, SpawnsEnd, SpawnsExpire, system, launch, ends, IInv, Shape, Early
<1>3. CASE CloseFails
  BY <1>3, Harmless DEF CloseFails, launch, ends, IInv, Shape, Early
<1>. QED
  BY <1>1, <1>2, <1>3 DEF ShutsDown

LEMMA Aiming == Spec => []AimShape
<1>1. Init => AimShape
  BY DEF Init, AimShape
<1>2. AimShape /\ [Next]_vars => AimShape'
  <2> SUFFICES ASSUME AimShape, [Next]_vars
               PROVE  aim' \in Aims \cup {NoAim}
    BY DEF AimShape
  <2>1. ASSUME NEW e \in Launches, NEW by \in Users, Ending(e, by)
        PROVE  aim' \in Aims \cup {NoAim}
    <3>1. CASE Signal(e, by)
      <4>1. SignalOf(Phase(e, by)) \in {"TERM", "KILL"} /\ by \in {"stop", "late", "shutdown"}
        BY DEF SignalOf, Users
      <4>. QED
        BY <3>1, <4>1 DEF Signal, Aims, AimShape
    <3>2. CASE WaitEnds(e, by) \/ WaitExpires(e, by)
      BY <3>2 DEF WaitEnds, WaitExpires, AimShape
    <3>. QED
      BY <2>1, <3>1, <3>2 DEF Ending
  <2>2. ASSUME NEW e \in Launches,
               Loop(e) \/ Threads(e) \/ GiveUp(e) \/ Ready(e) \/ StopBegins(e) \/ Exits(e)
        PROVE  aim' = aim
    BY <2>2 DEF Loop, Threads, GiveUp, Ready, StopBegins, Exits, Checked, NothingCreated, Bind,
       BindFails, CleanEnds, Return, LateBegins, Reap, Create, CleanSignals, CleanReaps,
       CleanExpires, Waited, Published, authority
  <2>3. Start \/ ShutsDown \/ RivalStarts \/ RivalEnds => aim' = aim
    BY DEF Start, ShutsDown, Shutdown, SpawnsEnd, SpawnsExpire, Close, CloseFails,
       RivalStarts, RivalEnds, authority
  <2>4. Delivered \/ Refused \/ Missed \/ Die => aim' = NoAim
    BY DEF Delivered, Refused, Missed, Die
  <2>5. UNCHANGED vars => aim' = aim
    BY DEF vars, authority
  <2>. QED
    BY <2>1, <2>2, <2>3, <2>4, <2>5 DEF Next, AimShape
<1>. QED
  BY <1>1, <1>2, PTL DEF Spec

LEMMA Step == IInv /\ AimShape /\ [Next]_vars => IInv'
<1> SUFFICES ASSUME IInv, AimShape, [Next]_vars
             PROVE  IInv'
  OBVIOUS
<1>1. CASE Start
  <2>1. held = Nothing /\ ~rival
    BY <1>1 DEF Start
  <2>2. \A f \in Launches : ~Early(f) /\ (os[f] # "none" => f \in reaped)
    BY <1>1, <2>1, ModelProcessAssumption
       DEF Start, LoopFree, IInv, HeldBefore, HeldUntilReaped, Launches, Nothing
  <2>. QED
    BY <1>1, <2>1, <2>2 DEF Start, system, ends, IInv, Shape, Exclusive, HeldBefore, Early,
       HeldUntilReaped, ReapedIsGone, NoChildYet
<1>2. CASE Die
  BY <1>2 DEF Die, IInv, Shape, Exclusive, HeldBefore, HeldUntilReaped, ReapedIsGone,
     NoChildYet, Steps
<1>3. CASE RivalStarts \/ RivalEnds
  BY <1>3 DEF RivalStarts, RivalEnds, authority, launch, ends, IInv, Shape, Exclusive,
     HeldBefore, Early, HeldUntilReaped, ReapedIsGone, NoChildYet
<1>4. ASSUME NEW e \in Launches, Exits(e)
      PROVE  IInv'
  BY <1>4 DEF Exits, authority, launch, ends, IInv, Shape, Exclusive, HeldBefore, Early,
     HeldUntilReaped, ReapedIsGone, NoChildYet
<1>5. ASSUME NEW e \in Launches, GiveUp(e) \/ Ready(e) \/ StopBegins(e)
      PROVE  IInv'
  BY <1>5, Harmless DEF GiveUp, Ready, StopBegins, system, authority, launch, ends, IInv,
     Shape, Early
<1>6. CASE UNCHANGED vars
  BY <1>6, Harmless DEF vars, system, authority, launch, ends, IInv, Shape, Early
<1>. QED
  BY <1>1, <1>2, <1>3, <1>4, <1>5, <1>6, Pipeline, InThreads, InEnding, InSignal, InShutdown
     DEF Next

LEMMA Invariance == Spec => []IInv
  BY Begins, Step, Aiming, PTL DEF Spec

\* While the server lives, the launch that has a child owns the authority and
\* the lock file, whatever failed or came late (start, _prepare_and_spawn,
\* _reap_record and shutdown_all of the driver).
THEOREM ChildIsHeld == Spec => []HeldWhileChild
<1>1. IInv => HeldWhileChild
  BY DEF IInv, HeldUntilReaped, ReapedIsGone, HeldWhileChild, Unreaped
<1>. QED
  BY <1>1, Invariance, PTL

\* Servers that are alive never have two children between them.
THEOREM AtMostOneChild == Spec => []OneChild
<1>1. IInv => OneChild
  BY ModelProcessAssumption DEF IInv, HeldUntilReaped, ReapedIsGone, Exclusive, OneChild,
     Unreaped, Launches, Nothing
<1>. QED
  BY <1>1, Invariance, PTL

-----------------------------------------------------------------------------
(* The end of the driver.                                                  *)

\* What a shutdown that succeeded has let go stays so.
Finality == up /\ shutdown = "closed" => held = Nothing /\ artifacts = {}

\* No step but Close closes the driver, and none starts a launch or keeps a
\* descriptor once it is closed.
LEMMA Final ==
    ASSUME IInv, AimShape, Finality, [Next]_vars
    PROVE  Finality'
<1> SUFFICES ASSUME up', shutdown' = "closed"
             PROVE  held' = Nothing /\ artifacts' = {}
  BY DEF Finality
<1>1. up
  BY DEF Next, Start, Delivered, Refused, Missed, ShutsDown, Shutdown, SpawnsEnd, SpawnsExpire,
     Close, CloseFails, LoopFree, Loop, Threads, Checked, NothingCreated, Create, Bind, BindFails,
     CleanSignals, CleanReaps, CleanExpires, CleanEnds, Return, GiveUp, Ready, Ending, Signal,
     WaitEnds, WaitExpires, StopBegins, LateBegins, Exits, Waited, Published, Reap, Die,
     RivalStarts, RivalEnds, vars, system
<1>2. CASE Close
  BY <1>2 DEF Close
<1>3. ASSUME shutdown' = shutdown, held' \in {held, Nothing}, artifacts' \subseteq artifacts
      PROVE  held' = Nothing /\ artifacts' = {}
  BY <1>1, <1>3 DEF Finality
<1>4. ASSUME NEW e \in Launches, Early(e)
      PROVE  shutdown # "closed"
  BY <1>1, <1>4, ModelProcessAssumption DEF Finality, IInv, HeldBefore, Launches, Nothing
<1>5. CASE Start
  BY <1>5 DEF Start
<1>6. ASSUME NEW e \in Launches, Loop(e)
      PROVE  held' = Nothing /\ artifacts' = {}
  <2>1. CASE Checked(e)
    BY <1>4, <2>1 DEF Checked, authority, Early
  <2>2. CASE NothingCreated(e) \/ Reap(e)
    BY <1>3, <2>2 DEF NothingCreated, Reap, LetGo
  <2>3. CASE Bind(e) \/ BindFails(e) \/ CleanEnds(e) \/ Return(e) \/ LateBegins(e)
    BY <1>3, <2>3 DEF Bind, BindFails, CleanEnds, Return, LateBegins, authority, launch
  <2>. QED
    BY <1>6, <2>1, <2>2, <2>3 DEF Loop
<1>7. ASSUME NEW e \in Launches,
             Threads(e) \/ GiveUp(e) \/ Ready(e) \/ StopBegins(e) \/ Exits(e)
      PROVE  held' = Nothing /\ artifacts' = {}
  BY <1>3, <1>7 DEF Threads, GiveUp, Ready, StopBegins, Exits, Create, CleanSignals, CleanReaps,
     CleanExpires, Waited, Published, authority, launch
<1>8. ASSUME NEW e \in Launches, NEW by \in Users, NEW step, step # "closed",
             MoveTo(e, by, step), UNCHANGED <<held, artifacts>>
      PROVE  held' = Nothing /\ artifacts' = {}
  BY <1>3, <1>8 DEF MoveTo
<1>9. ASSUME NEW e \in Launches, NEW by \in Users, Ending(e, by)
      PROVE  held' = Nothing /\ artifacts' = {}
  <2>1. CASE Signal(e, by)
    BY <1>3, <1>8, <2>1 DEF Signal, AwaitEnd, launch
  <2>2. CASE WaitEnds(e, by) \/ WaitExpires(e, by)
    BY <1>8, <2>2 DEF WaitEnds, WaitExpires, Achieved, Failed, launch
  <2>. QED
    BY <1>9, <2>1, <2>2 DEF Ending
<1>10. CASE Delivered \/ Refused \/ Missed
  <2>1. aim.launch \in Launches /\ aim.by \in Users
    BY <1>10 DEF Delivered, Refused, Missed, AimShape, Aims, Users
  <2>. QED
    BY <1>8, <1>10, <2>1 DEF Delivered, Refused, Missed, AwaitEnd, Failed, launch
<1>11. CASE Shutdown \/ SpawnsEnd \/ SpawnsExpire \/ CloseFails
  BY <1>11 DEF Shutdown, SpawnsEnd, SpawnsExpire, CloseFails
<1>12. CASE Die
  BY <1>12 DEF Die
<1>13. CASE RivalStarts \/ RivalEnds \/ UNCHANGED vars
  BY <1>3, <1>13 DEF RivalStarts, RivalEnds, vars, authority, launch
<1>. QED
  BY <1>2, <1>5, <1>6, <1>7, <1>9, <1>10, <1>11, <1>12, <1>13 DEF Next, ShutsDown

\* A shutdown that succeeds, in whatever order the children ended, failed to
\* end or came late before it, leaves no child of the server, no open
\* artifact and no lock, for good (shutdown_all of the driver).
THEOREM ClosedIsEmpty == Spec => []ClosedLeavesNothing
<1>1. Init => Finality
  BY DEF Init, Finality
<1>2. IInv /\ Finality => ClosedLeavesNothing
  BY ModelProcessAssumption DEF IInv, Finality, HeldUntilReaped, ReapedIsGone,
     ClosedLeavesNothing, Unreaped, Launches, Nothing
<1>. QED
  BY <1>1, <1>2, Final, Invariance, Aiming, PTL DEF Spec

-----------------------------------------------------------------------------
(* The game's service.                                                      *)

LEMMA Numbers ==
    /\ worker = 6 /\ driver = 5
    /\ Resources = 1..6 /\ ModelOwners = {5, 6}
    /\ ModelOwners \subseteq 1..worker
  BY DEF worker, driver, cache, Resources, ModelOwners

-----------------------------------------------------------------------------
(* The process of the host.                                                *)

\* uvicorn's handlers are installed only while there is a process.
NoProcessNoWeb == ~Alive => web = "off"

\* The host owns a process from its start until it drops it,
OwnedIsStarted == owned => phase # "none"

\* which it does only when it has ended,
AliveIsOwned == game /\ Alive => owned

\* and has been collected.
DroppedIsReaped == game /\ Exited /\ ~owned => collected

\* A host that neither starts nor runs a server, or was disposed, is still
\* ending its process or has dropped it.
IdleOwnsNothing ==
    Free /\ (host \notin {"Starting", "Ready"} \/ disposed) => ~owned

\* What StartAsync was told of an exit is true when it goes on: nobody starts
\* another process while it waits.
ToldOfExit == answer \in {"eof", "exit78", "exit"} => Exited

AnswersAreAwaited == awaiting = "none" => answer = "none"

HInv == /\ NoProcessNoWeb /\ OwnedIsStarted /\ AliveIsOwned /\ DroppedIsReaped
        /\ IdleOwnsNothing /\ ToldOfExit /\ AnswersAreAwaited

LEMMA HBegins == SidecarInit => HInv
  BY DEF SidecarInit, HInv, NoProcessNoWeb, OwnedIsStarted, AliveIsOwned, DroppedIsReaped,
     IdleOwnsNothing, ToldOfExit, AnswersAreAwaited, Alive, Exited, Free

\* What the server and its signals do: a process that is alive goes on or
\* ends, and no process is born.
ServerMoves ==
    /\ UNCHANGED <<host, disposed, awaiting, answer, owned, ending, collected>>
    /\ game' => game
    /\ ~Alive => phase' = phase
    /\ phase' # "none" \/ phase = "none"
    /\ NoProcessNoWeb'

LEMMA ServerKeepsHost ==
    ASSUME HInv, ServerMoves
    PROVE  HInv'
  BY DEF ServerMoves, HInv, NoProcessNoWeb, OwnedIsStarted, AliveIsOwned, DroppedIsReaped,
     IdleOwnsNothing, ToldOfExit, AnswersAreAwaited, Alive, Exited, Free

ServerStep == \/ Closing \/ Serving
              \/ ComposeFails \/ StartFails \/ StartExpires \/ ServeFails
              \/ Request \/ LaunchModel
              \/ Interrupt \/ ServerDies \/ GameDies

LEMMA ServerStepMoves ==
    ASSUME HInv, ServerStep
    PROVE  ServerMoves
<1> USE DEF ServerMoves, HInv, NoProcessNoWeb, Alive, Stay, hostVars, closing, signals
<1>1. CASE Closing
  BY <1>1 DEF Closing, Drained, Ended, CloseOne, Leave, Exit, serverVars
<1>2. CASE Serving
  BY <1>2 DEF Serving, Open, Composed, Started, StartInterrupted, Publish, ServeReturns,
     Answered, Fail
<1>3. CASE ComposeFails \/ StartFails \/ StartExpires \/ ServeFails
  BY <1>3 DEF ComposeFails, StartFails, StartExpires, ServeFails, Fail, Exit
<1>4. CASE Request \/ LaunchModel \/ Interrupt \/ ServerDies \/ GameDies
  BY <1>4 DEF Request, LaunchModel, Interrupt, ServerDies, GameDies, Exit, Handled, serverVars
<1>. QED
  BY <1>1, <1>2, <1>3, <1>4 DEF ServerStep

\* StopOwnedProcess ends a process that is alive, or drops one that is not.
LEMMA Stopping ==
    ASSUME HInv, NEW goal \in {"Failed", "Stopped", "Disposed"}, Stop(goal), Free,
           UNCHANGED game,
           answer' \in {"none", answer}, awaiting' \in {"none", awaiting},
           awaiting' = "none" => answer' = "none"
    PROVE  HInv'
<1> USE DEF HInv, NoProcessNoWeb, OwnedIsStarted, AliveIsOwned, DroppedIsReaped,
     IdleOwnsNothing, ToldOfExit, AnswersAreAwaited, Alive, Exited, Free
<1>1. CASE owned /\ ~Exited
  BY <1>1 DEF Stop, Term, Handled, Exit
<1>2. CASE ~(owned /\ ~Exited)
  BY <1>2 DEF Stop, Dropped, SetState
<1>. QED
  BY <1>1, <1>2

LEMMA HostKeepsHost ==
    ASSUME HInv, Host \/ StartAsync \/ Dispose \/ Cancel
    PROVE  HInv'
<1> USE DEF HInv, NoProcessNoWeb, OwnedIsStarted, AliveIsOwned, DroppedIsReaped,
     IdleOwnsNothing, ToldOfExit, AnswersAreAwaited, Alive, Exited, Free
<1>1. CASE ReadEnds
  BY <1>1 DEF ReadEnds, Answers, Exited, serverVars
<1>2. CASE ExitSeen
  BY <1>2 DEF ExitSeen, Answers, serverVars
<1>3. CASE HealthEnds
  BY <1>3 DEF HealthEnds, Answers, serverVars
<1>4. CASE Resume
  <2>1. CASE answer \in {"line", "healthy"} \/ (answer = "eof" /\ owned)
    BY <1>4, <2>1 DEF Resume, serverVars, Stop
  <2>2. CASE answer = "exit78" /\ owned
    BY <1>4, <2>2 DEF Resume, serverVars, Dropped
  <2>3. CASE \/ answer \in {"exit", "failed", "cancelled"}
             \/ answer \in {"eof", "exit78"} /\ ~owned
    <3>1. PICK goal \in {"Failed", "Stopped", "Disposed"} : Stop(goal) /\ goal # "Disposed"
      BY <1>4, <2>3 DEF Resume
    <3>. QED
      BY <1>4, <2>3, <3>1, Stopping DEF Resume
  <2>4. \/ answer \in {"line", "healthy"}
        \/ answer \in {"eof", "exit78"} /\ owned
        \/ answer \in {"exit", "failed", "cancelled"}
        \/ answer \in {"eof", "exit78"} /\ ~owned
    BY <1>4 DEF Resume
  <2> HIDE DEF HInv
  <2>. QED
    BY <2>1, <2>2, <2>3, <2>4
<1>5. CASE GraceHelps
  BY <1>5 DEF GraceHelps, Terminated, SetState, serverVars
<1>6. CASE GraceOver
  BY <1>6 DEF GraceOver, Terminated, SetState, Exit
<1>7. CASE Elapse \/ Cancel
  BY <1>7 DEF Elapse, Cancel, serverVars
<1>8. CASE StartAsync
  BY <1>8 DEF StartAsync, SetFailed, serverVars
<1>9. CASE Dispose
  BY <1>9, Stopping DEF Dispose
<1>. QED
  BY <1>1, <1>2, <1>3, <1>4, <1>5, <1>6, <1>7, <1>8, <1>9 DEF Host

LEMMA HStep == HInv /\ [SidecarNext]_sidecarVars => HInv'
<1>1. CASE UNCHANGED sidecarVars
  BY <1>1 DEF sidecarVars, hostVars, serverVars, HInv, NoProcessNoWeb, OwnedIsStarted, AliveIsOwned,
     DroppedIsReaped, IdleOwnsNothing, ToldOfExit, AnswersAreAwaited, Alive, Exited, Free
<1>. QED
  BY <1>1, ServerKeepsHost, ServerStepMoves, HostKeepsHost DEF SidecarNext, ServerStep

LEMMA HInvariance == SidecarSpec => []HInv
  BY HBegins, HStep, PTL DEF SidecarSpec

\* Whenever a host that is not running a server says so, because StartAsync
\* failed, was cancelled or found no runtime, or because it was disposed, at
\* whatever point of a start, its server has ended and was reaped
\* (StopOwnedProcess, TerminateTree and StartAsync of the process host).
THEOREM HostLeavesNoServer == SidecarSpec => []NoServerLeft
<1>1. HInv => NoServerLeft
  BY DEF HInv, NoServerLeft, AliveIsOwned, DroppedIsReaped, IdleOwnsNothing, Free
<1>. QED
  BY <1>1, HInvariance, PTL

-----------------------------------------------------------------------------
(* The model process of the server.                                        *)

\* A launch that was not made yet has no model.
ModelsAreLaunched == launches \in Nat /\ models \subseteq 0..launches

\* uvicorn runs over a composed server, which has opened everything.
WebIsComposed ==
    /\ phase \in {"none", "composing", "cleaning", "exited"} => web = "off" /\ ~busy
    /\ phase \notin {"none", "composing", "cleaning", "exited"} => opened = worker

\* A model that runs was started with both its owners, neither of which has
\* closed since.
ModelIsOwned == launches \in models => opened = worker /\ closed \cap ModelOwners = {}

MInv == ModelsAreLaunched /\ WebIsComposed /\ ModelIsOwned /\ OneFailureIsSurvived

LEMMA MBegins == SidecarInit => MInv
  BY Numbers DEF SidecarInit, MInv, ModelsAreLaunched, WebIsComposed, ModelIsOwned,
     OneFailureIsSurvived, Exited

\* A step that keeps the model and what was opened and closed, and that ends
\* the server, if it does, by a signal.
LEMMA Gentle ==
    ASSUME MInv, UNCHANGED <<launches, models, closing>>, WebIsComposed',
           UNCHANGED phase \/ ~Exited' \/ code' \in {137, 143},
           UNCHANGED phase => UNCHANGED code
    PROVE  MInv'
  BY DEF MInv, ModelsAreLaunched, ModelIsOwned, OneFailureIsSurvived, Exited, closing

\* StopOwnedProcess sends the server a TERM.
LEMMA StopIsGentle ==
    ASSUME MInv, NEW goal, Stop(goal), UNCHANGED <<launches, models, closing>>
    PROVE  MInv'
<1>1. CASE owned /\ ~Exited
  <2>1. WebIsComposed' /\ (UNCHANGED <<phase, code>> \/ code' = 143)
    BY <1>1 DEF Stop, Term, Handled, Exit, MInv, WebIsComposed, closing
  <2>2. UNCHANGED phase => UNCHANGED code
    BY <1>1 DEF Stop, Term, Exit, Exited
  <2>. QED
    BY <2>1, <2>2, Gentle
<1>2. CASE ~(owned /\ ~Exited)
  BY <1>2, Gentle DEF Stop, MInv, WebIsComposed, closing
<1>. QED
  BY <1>1, <1>2

\* What the server closes and how it leaves.
LEMMA ClosingKeepsModel ==
    ASSUME MInv, Closing
    PROVE  MInv'
<1>1. CASE Drained
  BY <1>1, Gentle DEF Drained, Exit, Exited, Stay, hostVars, closing, MInv, WebIsComposed
<1>2. CASE Ended
  BY <1>2, Gentle DEF Ended, Exited, Stay, hostVars, closing, MInv, WebIsComposed
<1>3. CASE CloseOne
  <2>1. PICK r \in {Max(ToClose)} :
            \/ /\ closed' = closed \cup {r}
               /\ models' = IF r \in ModelOwners THEN models \ {launches} ELSE models
            \/ UNCHANGED <<closed, models>>
    BY <1>3 DEF CloseOne
  <2>2. /\ UNCHANGED <<launches, phase, web, busy, opened>>
        /\ ~Exited
    BY <1>3 DEF CloseOne, hostVars, Exited
  <2>3. ModelsAreLaunched' /\ WebIsComposed' /\ OneFailureIsSurvived'
    BY <2>1, <2>2 DEF MInv, ModelsAreLaunched, WebIsComposed, OneFailureIsSurvived, Exited
  <2>4. ModelIsOwned'
    BY <2>1, <2>2 DEF MInv, ModelIsOwned
  <2>. QED
    BY <2>3, <2>4 DEF MInv
<1>4. CASE Leave
  <2>1. /\ UNCHANGED <<launches, models, opened, closed, unclosed>>
        /\ ToClose = {}
    BY <1>4 DEF Leave, Stay, hostVars, closing
  <2>2. launches \in models => ModelOwners \subseteq unclosed
    BY <2>1, Numbers DEF MInv, ModelIsOwned, ToClose
  <2>3. WebIsComposed'
    BY <1>4 DEF Leave, Exit, WebIsComposed
  <2>. QED
    BY <2>1, <2>2, <2>3 DEF MInv, ModelsAreLaunched, ModelIsOwned, OneFailureIsSurvived
<1>. QED
  BY <1>1, <1>2, <1>3, <1>4 DEF Closing

\* Everything else the server does, and what is done to it.
LEMMA ServerKeepsModel ==
    ASSUME MInv, ServerStep
    PROVE  MInv'
<1>1. CASE Open
  <2>1. /\ opened # worker /\ opened' = opened + 1 /\ phase = "composing"
        /\ UNCHANGED <<phase, web, busy, closed, unclosed, launches, models, code>>
    BY <1>1, Numbers DEF Open, Stay, hostVars
  <2>. QED
    BY <2>1 DEF MInv, ModelsAreLaunched, WebIsComposed, ModelIsOwned, OneFailureIsSurvived,
       Exited
<1>2. CASE ComposeFails
  <2>1. launches \in models => opened # 0
    BY Numbers DEF MInv, ModelIsOwned
  <2>. QED
    BY <1>2, <2>1 DEF ComposeFails, Exit, Stay, hostVars, closing, MInv, ModelsAreLaunched,
       WebIsComposed, ModelIsOwned, OneFailureIsSurvived, Exited
<1>3. CASE LaunchModel
  <2>1. closed \cap ModelOwners = {} /\ opened = worker /\ ~Exited
    BY <1>3 DEF LaunchModel, MInv, WebIsComposed, Exited
  <2>. QED
    BY <1>3, <2>1 DEF LaunchModel, hostVars, serverVars, closing, MInv, ModelsAreLaunched,
       WebIsComposed, ModelIsOwned, OneFailureIsSurvived, Exited
<1>4. CASE Composed \/ Started \/ StartInterrupted \/ Publish \/ ServeReturns \/ Answered
  BY <1>4, Gentle DEF Composed, Started, StartInterrupted, Publish, ServeReturns, Answered,
     Fail, Exited, Stay, hostVars, closing, MInv, WebIsComposed
<1>5. CASE StartFails \/ StartExpires \/ ServeFails \/ Request \/ Interrupt
  BY <1>5, Gentle DEF StartFails, StartExpires, ServeFails, Request, Interrupt, Handled, Alive,
     Fail, Exited, Stay, hostVars, closing, MInv, WebIsComposed
<1>6. CASE ServerDies \/ GameDies
  BY <1>6, Gentle DEF ServerDies, GameDies, Exit, Exited, Alive, Stay, hostVars, serverVars,
     closing, MInv, WebIsComposed
<1>. QED
  BY <1>1, <1>2, <1>3, <1>4, <1>5, <1>6, ClosingKeepsModel DEF ServerStep, Serving

LEMMA HostKeepsModel ==
    ASSUME MInv, Host \/ StartAsync \/ Dispose \/ Cancel
    PROVE  MInv'
<1>1. CASE StartAsync
  <2>1. launches' = launches + 1 /\ launches' \notin models /\ UNCHANGED models
    BY <1>1 DEF StartAsync, MInv, ModelsAreLaunched
  <2>. QED
    BY <1>1, <2>1 DEF StartAsync, serverVars, closing, MInv, ModelsAreLaunched, WebIsComposed,
       ModelIsOwned, OneFailureIsSurvived, Exited
<1>2. CASE Resume
  BY <1>2, StopIsGentle, Gentle DEF Resume, serverVars, closing, MInv, WebIsComposed
<1>3. CASE Dispose
  BY <1>3, StopIsGentle DEF Dispose
<1>4. CASE GraceOver
  BY <1>4, Gentle DEF GraceOver, Exit, Exited, closing, MInv, WebIsComposed
<1>5. CASE ReadEnds \/ ExitSeen \/ HealthEnds \/ GraceHelps \/ Elapse \/ Cancel
  BY <1>5, Gentle DEF ReadEnds, ExitSeen, HealthEnds, GraceHelps, Elapse, Cancel, serverVars,
     closing, MInv, WebIsComposed
<1>. QED
  BY <1>1, <1>2, <1>3, <1>4, <1>5 DEF Host

LEMMA MStep == MInv /\ [SidecarNext]_sidecarVars => MInv'
<1> SUFFICES ASSUME MInv, [SidecarNext]_sidecarVars
             PROVE  MInv'
  OBVIOUS
<1>1. CASE UNCHANGED sidecarVars
  BY <1>1, Gentle DEF sidecarVars, hostVars, serverVars, closing, MInv, WebIsComposed
<1>. QED
  BY <1>1, ServerKeepsModel, HostKeepsModel DEF SidecarNext, ServerStep

\* A server that leaves by its own code leaves a model process behind only if
\* closing the worker and closing the driver both failed: one failed cleanup,
\* of whatever resource, is survived (RuntimeBundle.aclose, _run_cleanups).
THEOREM ModelOutlivesTwoFailures == SidecarSpec => []OneFailureIsSurvived
<1>1. MInv => OneFailureIsSurvived
  BY DEF MInv
<1>. QED
  BY <1>1, MBegins, MStep, PTL DEF SidecarSpec
=============================================================================
