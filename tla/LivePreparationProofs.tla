----------------------- MODULE LivePreparationProofs -----------------------
(* Theorems of LivePreparation, for any number of preparations, launches,   *)
(* items, crashes, cancellations and sessions.                              *)
EXTENDS LivePreparation, FiniteSetTheorems, TLAPS

-----------------------------------------------------------------------------
(* The model process.                                                       *)

Places == {"idle", "verifying", "spawning", "readying", "stopping", "revoking",
           "generating", "cancelling", "waiting", "ended"}
Stages == {"absent", "spawning", "running", "ready", "exited", "reaped"}
Stops == [by : Users \cup {NoOne}, stage : {"none", "begin", "term", "kill"},
          bound : {"live", "whole"}]

Launching(p) == pc[p] \in {"verifying", "spawning", "readying"}

WorkerShape == /\ epoch \in Nat
               /\ child \in [Epochs -> Stages]
               /\ pc \in [Preps -> Places]
               /\ stop \in Stops

\* Only the last epoch may have a child.
LastChildOnly == \A e \in Epochs : e # epoch => child[e] \in {"absent", "reaped"}

\* A stop is in progress only while the worker is stopping.
StopIsStopping == stop.stage # "none" => state = "stopping"

\* At most one preparation is inside a launch, and the worker knows it.
OneLauncher ==
    \A p \in Preps : Launching(p) =>
        /\ state = "starting" /\ epoch \in Epochs
        /\ \A q \in Preps : Launching(q) => q = p

\* Before the launch there is no child.
NothingLaunched == (\E p \in Preps : pc[p] = "verifying") => Unreaped = {}

WorkerInv == /\ WorkerShape
             /\ LastChildOnly
             /\ StopIsStopping
             /\ OneLauncher
             /\ NothingLaunched
             /\ StoppedIsReaped

LEMMA WorkerBegins == Init => WorkerInv
  BY WorkerAssumption DEF Init, WorkerInit, WorkerInv, WorkerShape, Places, Stages, Stops, Users,
     NoStop, Epochs, LastChildOnly, StopIsStopping, OneLauncher, Launching,
     NothingLaunched, StoppedIsReaped, Unreaped

\* An action that leaves the worker alone and lets no preparation into a launch.
LEMMA WorkerUntouched ==
    ASSUME WorkerInv, UNCHANGED <<epoch, child, stop, state>>,
           pc' \in [Preps -> Places],
           \A p \in Preps : Launching(p)' => pc'[p] = pc[p]
    PROVE  WorkerInv'
  BY DEF WorkerInv, WorkerShape, LastChildOnly, StopIsStopping, OneLauncher, Launching,
     NothingLaunched, StoppedIsReaped, Unreaped, Epochs

\* An action after which no preparation is inside a launch.
LEMMA NobodyLaunches ==
    ASSUME WorkerInv, UNCHANGED <<epoch, child>>,
           pc' \in [Preps -> Places], \A p \in Preps : ~Launching(p)',
           stop' \in Stops, StopIsStopping',
           state' = "stopped" => Unreaped = {}
    PROVE  WorkerInv'
  BY DEF WorkerInv, WorkerShape, LastChildOnly, OneLauncher, NothingLaunched,
     StoppedIsReaped, Unreaped, Launching

\* Whoever leaves a launch leaves nobody in it.
LEMMA LauncherLeaves ==
    ASSUME WorkerInv, NEW p \in Preps, Launching(p),
           NEW l \in Places \ {"verifying", "spawning", "readying"},
           pc' = [pc EXCEPT ![p] = l]
    PROVE  /\ pc' \in [Preps -> Places] /\ \A q \in Preps : ~Launching(q)'
           /\ state = "starting" /\ stop.stage = "none"
  BY DEF WorkerInv, WorkerShape, OneLauncher, Launching, StopIsStopping

\* A worker that is not starting has nobody in a launch.
LEMMA NobodyInside ==
    ASSUME WorkerInv, state # "starting",
           \/ UNCHANGED pc
           \/ \E p \in Preps : \E l \in Places \ {"verifying", "spawning", "readying"} :
                pc' = [pc EXCEPT ![p] = l]
    PROVE  pc' \in [Preps -> Places] /\ \A q \in Preps : ~Launching(q)'
  BY DEF WorkerInv, WorkerShape, OneLauncher, Launching

\* The beginning of a stop.
LEMMA StopBegins ==
    ASSUME NEW u \in Users, NEW b \in {"live", "whole"}, StopFor(u, b)
    PROVE  /\ stop' \in Stops /\ StopIsStopping' /\ state' = "stopping"
           /\ UNCHANGED <<epoch, child>>
  BY DEF StopFor, Stops, StopIsStopping, driver

LEMMA WorkerInvariance == Spec => []WorkerInv
<1>1. WorkerInv /\ [Next]_vars => WorkerInv'
  <2> SUFFICES ASSUME WorkerInv, [Next]_vars
               PROVE  WorkerInv'
    OBVIOUS
  <2> USE DEF orchestrator, preparation, provider, database, worker, controller, driver
  <2>1. ASSUME NEW p \in Preps, NEW id \in RequestIds, Begin(p, id)
        PROVE  WorkerInv'
    <3>1. CASE StartEpoch /\ Goto(p, "verifying")
      <4>1. epoch' \in Epochs /\ epoch' \in Nat /\ \A q \in Preps : ~Launching(q)
        BY <3>1, WorkerAssumption
        DEF StartEpoch, WorkerInv, WorkerShape, OneLauncher, Epochs
      <4>2. \A e \in Epochs : child[e] \in {"absent", "reaped"}
        BY <3>1 DEF StartEpoch, WorkerInv, WorkerShape, StoppedIsReaped, Unreaped, Stages
      <4>3. pc' = [pc EXCEPT ![p] = "verifying"] /\ state' = "starting" /\ UNCHANGED <<child, stop>>
        BY <3>1 DEF StartEpoch, Goto
      <4> QED
        BY <3>1, <4>1, <4>2, <4>3
        DEF StartEpoch, WorkerInv, WorkerShape, LastChildOnly, StopIsStopping, OneLauncher,
            Launching, NothingLaunched, StoppedIsReaped, Unreaped, Places
    <3>2. CASE /\ UNCHANGED worker
               /\ \E l \in {"generating", "waiting", "ended"} : pc' = [pc EXCEPT ![p] = l]
      BY <3>2, WorkerUntouched DEF WorkerInv, WorkerShape, Places, Launching
    <3> QED
      BY <2>1, <3>1, <3>2 DEF Begin, StartWorker, AskItem, Ask, Goto, End, Fail
  <2>2. ASSUME NEW p \in Preps, Verified(p)
        PROVE  WorkerInv'
    <3>0. Launching(p) /\ pc[p] = "verifying"
      BY <2>2 DEF Verified, Launching
    <3>1. CASE Launch /\ Goto(p, "spawning")
      <4>1. /\ pc' = [pc EXCEPT ![p] = "spawning"]
            /\ child' = [child EXCEPT ![epoch] = "spawning"]
            /\ UNCHANGED <<state, epoch, stop>>
        BY <3>1 DEF Launch, Goto
      <4> QED
        BY <3>0, <4>1
        DEF WorkerInv, WorkerShape, LastChildOnly, StopIsStopping, OneLauncher,
            Launching, NothingLaunched, StoppedIsReaped, Unreaped, Places, Stages
    <3>2. CASE LaunchRefused /\ Fail(p)
      BY <3>0, <3>2, LauncherLeaves, NobodyLaunches
      DEF LaunchRefused, Quarantine, Fail, End, Places, WorkerInv, WorkerShape, StopIsStopping
    <3>3. CASE AbandonEpoch /\ Goto(p, "waiting")
      BY <3>0, <3>3, LauncherLeaves, NobodyLaunches
      DEF AbandonEpoch, Goto, Places, WorkerInv, WorkerShape, StopIsStopping, NothingLaunched
    <3> QED
      BY <2>2, <3>1, <3>2, <3>3 DEF Verified
  <2>3. ASSUME NEW p \in Preps, Spawned(p)
        PROVE  WorkerInv'
    <3>0. Launching(p) /\ pc[p] = "spawning"
      BY <2>3 DEF Spawned, Launching
    <3>1. CASE SpawnedInTime /\ Goto(p, "readying")
      <4>1. /\ pc' = [pc EXCEPT ![p] = "readying"]
            /\ child' = [child EXCEPT ![epoch] = "running"]
            /\ UNCHANGED <<state, epoch, stop>>
        BY <3>1 DEF SpawnedInTime, Goto
      <4> QED
        BY <3>0, <4>1
        DEF WorkerInv, WorkerShape, LastChildOnly, StopIsStopping, OneLauncher,
            Launching, NothingLaunched, StoppedIsReaped, Unreaped, Places, Stages
    <3>2. CASE SpawnFails /\ Fail(p)
      <4>1. PICK s \in {"absent", "running"} : child' = [child EXCEPT ![epoch] = s]
        BY <3>2 DEF SpawnFails
      <4>2. state' = "quarantined" /\ UNCHANGED <<epoch, stop>> /\ pc' = [pc EXCEPT ![p] = "ended"]
        BY <3>2 DEF SpawnFails, Quarantine, Fail, End
      <4>3. /\ pc' \in [Preps -> Places] /\ \A q \in Preps : ~Launching(q)'
            /\ stop.stage = "none"
        BY <3>0, <4>2, LauncherLeaves DEF Places
      <4> QED
        BY <4>1, <4>2, <4>3
        DEF WorkerInv, WorkerShape, LastChildOnly, StopIsStopping, OneLauncher, Launching,
            NothingLaunched, StoppedIsReaped, Stages
    <3>3. CASE SpawnAbandoned /\ Fail(p)
      BY <3>0, <3>3, LauncherLeaves, NobodyLaunches
      DEF SpawnAbandoned, Quarantine, Fail, End, Places, WorkerInv, WorkerShape, StopIsStopping
    <3> QED
      BY <2>3, <3>1, <3>2, <3>3 DEF Spawned
  <2>4. ASSUME NEW p \in Preps, Readiness(p)
        PROVE  WorkerInv'
    <3>0. Launching(p) /\ p \in Users
      BY <2>4 DEF Readiness, Launching, Users
    <3>1. CASE Answered(p)
      <4>1. /\ \E l \in {"generating", "waiting"} : pc' = [pc EXCEPT ![p] = l]
            /\ child' = [child EXCEPT ![epoch] = "ready"]
            /\ state' = "ready" /\ UNCHANGED <<epoch, stop>>
        BY <3>1 DEF Answered, BecomeReady, AskItem, Ask, Goto
      <4>2. /\ pc' \in [Preps -> Places] /\ \A q \in Preps : ~Launching(q)'
            /\ stop.stage = "none"
        BY <3>0, <4>1, LauncherLeaves DEF Places
      <4> QED
        BY <4>1, <4>2
        DEF WorkerInv, WorkerShape, LastChildOnly, StopIsStopping, OneLauncher, Launching,
            NothingLaunched, StoppedIsReaped, Stages
    <3>2. CASE DiedReady(p) \/ NotReady(p)
      <4>1. StopFor(p, "live") /\ \E l \in {"stopping", "revoking"} : pc' = [pc EXCEPT ![p] = l]
        BY <3>2 DEF DiedReady, NotReady, Goto
      <4> QED
        BY <3>0, <4>1, StopBegins, LauncherLeaves, NobodyLaunches DEF Places
    <3> QED
      BY <2>4, <3>1, <3>2 DEF Readiness
  <2>5. ASSUME NEW p \in Preps, StopReturns(p)
        PROVE  WorkerInv'
    <3>1. \E l \in {"waiting", "ended"} : pc' = [pc EXCEPT ![p] = l]
      BY <2>5 DEF StopReturns, Fail, End, Goto
    <3> QED
      BY <2>5, <3>1, WorkerUntouched DEF StopReturns, WorkerInv, WorkerShape, Places, Launching
  <2>6. ASSUME NEW p \in Preps, CallStarts(p) \/ GateOpens(p)
        PROVE  WorkerInv'
    <3>1. CASE UNCHANGED <<worker, pc>>
      BY <3>1, WorkerUntouched DEF WorkerInv, WorkerShape
    <3>2. CASE /\ state = "ready" /\ Quarantine /\ UNCHANGED <<driver, pc>>
      BY <3>2, NobodyInside, NobodyLaunches
      DEF Quarantine, WorkerInv, WorkerShape, StopIsStopping
    <3>3. CASE state = "ready" /\ GrantLease(p) /\ UNCHANGED pc
      BY <3>3, NobodyInside, NobodyLaunches
      DEF GrantLease, WorkerInv, WorkerShape, StopIsStopping
    <3> QED
      BY <2>6, <3>1, <3>2, <3>3 DEF CallStarts, GateOpens, UseWorker, NoLease
  <2>7. ASSUME NEW p \in Preps, Responds(p)
        PROVE  WorkerInv'
    <3>1. CASE HoldsLease(p) /\ ConfirmComplete(p) /\ UNCHANGED pc
      BY <3>1, NobodyInside, NobodyLaunches
      DEF HoldsLease, ConfirmComplete, WorkerInv, WorkerShape, StopIsStopping
    <3>2. CASE UNCHANGED <<controller, child, pc>>
      BY <3>2, WorkerUntouched DEF WorkerInv, WorkerShape
    <3> QED
      BY <2>7, <3>1, <3>2 DEF Responds
  <2>8. ASSUME NEW p \in Preps, Aborts(p)
        PROVE  WorkerInv'
    <3>1. CASE HoldsLease(p) /\ StopFor(p, "whole") /\ UNCHANGED pc
      BY <3>1, StopBegins, NobodyInside, NobodyLaunches DEF HoldsLease, Users
    <3>2. CASE UNCHANGED <<worker, pc>>
      BY <3>2, WorkerUntouched DEF WorkerInv, WorkerShape
    <3> QED
      BY <2>8, <3>1, <3>2 DEF Aborts
  <2>9. ASSUME NEW p \in Preps, Aborted(p)
        PROVE  WorkerInv'
    BY <2>9, WorkerUntouched DEF Aborted, WorkerInv, WorkerShape
  <2>10. ASSUME NEW p \in Preps, Collect(p) \/ Expire(p) \/ Acknowledge(p) \/ Fallback(p)
         PROVE  WorkerInv'
    <3>1. /\ UNCHANGED worker
          /\ \E l \in {"generating", "cancelling", "waiting", "ended"} : pc' = [pc EXCEPT ![p] = l]
      BY <2>10
      DEF Collect, Expire, Acknowledge, Fallback, AskItem, Ask, NextAttempt, Goto, Save,
          Answer, Fail, End
    <3> QED
      BY <3>1, WorkerUntouched DEF WorkerInv, WorkerShape, Places, Launching
  <2>11. ASSUME NEW p \in Preps, Cancel(p)
         PROVE  WorkerInv'
    <3>0. p \in Users
      BY DEF Users
    <3>1. CASE pc[p] = "verifying" /\ AbandonEpoch /\ Goto(p, "waiting")
      BY <3>1, LauncherLeaves, NobodyLaunches
      DEF AbandonEpoch, Goto, Places, Launching, WorkerInv, WorkerShape, StopIsStopping,
          NothingLaunched
    <3>2. CASE pc[p] = "spawning" /\ SpawnAbandoned /\ Fail(p)
      BY <3>2, LauncherLeaves, NobodyLaunches
      DEF SpawnAbandoned, Quarantine, Fail, End, Places, Launching, WorkerInv, WorkerShape,
          StopIsStopping
    <3>3. CASE pc[p] = "readying" /\ StopFor(p, "live") /\ pc' = [pc EXCEPT ![p] = "stopping"]
      BY <3>0, <3>3, StopBegins, LauncherLeaves, NobodyLaunches DEF Places, Launching
    <3>4. CASE UNCHANGED worker /\ (pc' = pc \/ pc' = [pc EXCEPT ![p] = "ended"])
      BY <3>4, WorkerUntouched DEF WorkerInv, WorkerShape, Places, Launching
    <3> QED
      BY <2>11, <3>1, <3>2, <3>3, <3>4 DEF Cancel, CancelAwait, End
  <2>12. CASE Close
    <3>1. CASE state \in {"ready", "busy"} /\ StopFor(Closer, "whole") /\ UNCHANGED pc
      BY <3>1, StopBegins, NobodyInside, NobodyLaunches DEF Users
    <3>2. CASE CloseDriver /\ UNCHANGED pc
      BY <3>2, WorkerUntouched DEF CloseDriver, WorkerInv, WorkerShape
    <3> QED
      BY <2>12, <3>1, <3>2 DEF Close
  <2>13. CASE CloseStopped \/ Sweep \/ SweepExpires
    BY <2>13, WorkerUntouched
    DEF CloseStopped, CloseDriver, Sweep, SweepSignals, SweepExpires, WorkerInv, WorkerShape
  <2>14. CASE Swept
    <3>1. /\ child' = [e \in Epochs |-> IF e \in Unreaped THEN "reaped" ELSE child[e]]
          /\ UNCHANGED <<state, epoch, stop, pc>>
      BY <2>14 DEF Swept, SweepReaps
    <3> QED
      BY <3>1
      DEF WorkerInv, WorkerShape, LastChildOnly, StopIsStopping, OneLauncher, Launching,
          NothingLaunched, StoppedIsReaped, Unreaped, Stages
  <2>15. CASE Supervise
    <3>0. UNCHANGED pc
      BY <2>15 DEF Supervise, others
    <3>1. CASE StopSignals \/ StopEscalates
      <4>1. /\ stop.stage # "none" /\ stop' \in Stops
            /\ UNCHANGED <<state, epoch, child>>
        BY <3>1 DEF StopSignals, StopEscalates, WorkerInv, WorkerShape, Stops
      <4>2. state = "stopping"
        BY <4>1 DEF WorkerInv, StopIsStopping
      <4> QED
        BY <3>0, <4>1, <4>2, NobodyInside, NobodyLaunches DEF StopIsStopping
    <3>2. CASE StopReaps
      <4>1. /\ state = "stopping" /\ state' = "stopped" /\ stop' = NoStop
            /\ child' = [child EXCEPT ![epoch] = "reaped"] /\ UNCHANGED epoch
        BY <3>2 DEF StopReaps, AcceptReceipt, WorkerInv, StopIsStopping
      <4>2. \A e \in Epochs : child'[e] \in {"absent", "reaped"}
        BY <4>1 DEF WorkerInv, WorkerShape, LastChildOnly
      <4>3. pc' \in [Preps -> Places] /\ \A q \in Preps : ~Launching(q)'
        BY <3>0, <4>1, NobodyInside
      <4>4. stop' \in Stops /\ stop'.stage = "none"
        BY <4>1 DEF NoStop, Stops
      <4> QED
        BY <4>1, <4>2, <4>3, <4>4
        DEF WorkerInv, WorkerShape, LastChildOnly, StopIsStopping, OneLauncher,
            NothingLaunched, StoppedIsReaped, Unreaped, Stages
    <3>3. CASE StopExpires
      <4>1. /\ state = "stopping" /\ state' = "quarantined" /\ stop' = NoStop
            /\ UNCHANGED <<epoch, child>>
        BY <3>3 DEF StopExpires, WorkerInv, StopIsStopping
      <4> QED
        BY <3>0, <4>1, NobodyInside, NobodyLaunches DEF NoStop, Stops, StopIsStopping
    <3> QED
      BY <2>15, <3>1, <3>2, <3>3 DEF Supervise
  <2>16. ASSUME NEW e \in Epochs, Child(e)
         PROVE  WorkerInv'
    <3>1. /\ child[e] \in {"spawning", "running", "ready", "exited"}
          /\ \E s \in Stages : child' = [child EXCEPT ![e] = s]
          /\ UNCHANGED <<state, epoch, stop, pc>>
      BY <2>16 DEF Child, others, SpawnedLate, ReapedLate, Exits, Stages
    <3>2. e = epoch /\ e \in Unreaped
      BY <3>1 DEF WorkerInv, LastChildOnly, Unreaped
    <3> QED
      BY <3>1, <3>2
      DEF WorkerInv, WorkerShape, LastChildOnly, StopIsStopping, OneLauncher, Launching,
          NothingLaunched, StoppedIsReaped
  <2>17. CASE \/ \E u \in Users : Elapse(u)
              \/ OpenSession \/ FinishBattle \/ DeleteProfile
              \/ UNCHANGED vars
    <3>1. UNCHANGED <<worker, pc>>
      BY <2>17 DEF Elapse, others, OpenSession, FinishBattle, DeleteProfile, vars
    <3> QED
      BY <3>1, WorkerUntouched DEF WorkerInv, WorkerShape
  <2> QED
    BY <2>1, <2>2, <2>3, <2>4, <2>5, <2>6, <2>7, <2>8, <2>9, <2>10, <2>11, <2>12,
       <2>13, <2>14, <2>15, <2>16, <2>17
    DEF Next, Step, CallStep, Shutdown
<1> QED
  BY <1>1, WorkerBegins, PTL DEF Spec

\* The worker gives no authority back while a child may be alive: whatever
\* launches, crashes, timeouts, cancellations and shutdowns do, a worker that
\* may be launched again has no child the operating system still knows.
THEOREM WorkerSafe == Spec => []StoppedIsReaped
  BY WorkerInvariance, PTL DEF WorkerInv

-----------------------------------------------------------------------------
(* The cache and the generation.                                            *)

Calls == {"none", "created", "queued", "posting", "aborting", "done"}
Replies == {"none", "batch", "session_not_current", "quiz_in_progress",
            "idempotency_conflict", "safe_content_unavailable", "cancelled"}

\* Only a preparation that generates, or gave up, has a call under way.
AckInv == /\ pc \in [Preps -> Places]
          /\ call \in [Preps -> Calls]
          /\ reply \in [Preps -> Replies]
          /\ \A p \in Preps : pc[p] \in Places \ {"generating", "cancelling", "ended"} => Idle(p)
          /\ \A p \in Preps : reply[p] # "none" => pc[p] = "ended"
          /\ \A p \in Preps : reply[p] = "batch" => Idle(p)

\* A step of p that leaves its call alone, which is over unless it goes on
\* waiting for it or ends without a batch.
LEMMA PreparationMoves ==
    ASSUME AckInv, NEW p \in Preps, reply[p] = "none", call' = call,
           NEW l \in Places, NEW r \in Replies,
           pc' = [pc EXCEPT ![p] = l], reply' = [reply EXCEPT ![p] = r],
           r # "none" => l = "ended",
           l \in {"generating", "cancelling"} \/ (l = "ended" /\ r # "batch") \/ Idle(p)
    PROVE  AckInv'
  BY DEF AckInv, Idle

\* The next call of p, after the last one.
LEMMA CallCreated ==
    ASSUME AckInv, NEW p \in Preps, reply[p] = "none", UNCHANGED reply,
           pc' = [pc EXCEPT ![p] = "generating"], call' = [call EXCEPT ![p] = "created"]
    PROVE  AckInv'
  BY DEF AckInv, Idle, Places, Calls

\* A step of the call of p, which is under way.
LEMMA CallMoves ==
    ASSUME AckInv, NEW p \in Preps, ~Idle(p), UNCHANGED <<pc, reply>>,
           NEW c \in Calls, call' = [call EXCEPT ![p] = c]
    PROVE  AckInv'
  BY DEF AckInv, Idle

\* The first call of an item, if there is one.
LEMMA ItemAsked ==
    ASSUME AckInv, NEW p \in Preps, reply[p] = "none", Idle(p), NEW s, AskItem(p, s)
    PROVE  AckInv'
<1>1. CASE Ask(p, s, 1)
  BY <1>1, CallCreated DEF Ask
<1>2. CASE Goto(p, "waiting") /\ UNCHANGED provider
  <2>1. reply' = [reply EXCEPT ![p] = "none"]
    BY <1>2 DEF Goto, AckInv
  <2> QED
    BY <1>2, <2>1, PreparationMoves DEF Goto, provider, Places, Replies
<1> QED
  BY <1>1, <1>2 DEF AskItem

\* Going elsewhere once the call is over, or on behalf of the call.
LEMMA GoesTo ==
    ASSUME AckInv, NEW p \in Preps, reply[p] = "none", call' = call,
           NEW l \in Places, Goto(p, l), l \in {"generating", "cancelling"} \/ Idle(p)
    PROVE  AckInv'
<1>1. reply' = [reply EXCEPT ![p] = "none"]
  BY DEF Goto, AckInv
<1> QED
  BY <1>1, PreparationMoves DEF Goto, Replies

\* An end of p.
LEMMA EndsWith ==
    ASSUME AckInv, NEW p \in Preps, reply[p] = "none", call' = call,
           NEW r \in Replies, End(p, r), r # "batch" \/ Idle(p)
    PROVE  AckInv'
  BY PreparationMoves DEF End, Places

\* The one write, by a preparation whose calls are over.
LEMMA Saves ==
    ASSUME AckInv, NEW p \in Preps, reply[p] = "none", call' = call, Idle(p), Save(p)
    PROVE  AckInv'
  BY EndsWith DEF Save, Answer, Replies

LEMMA AckInvariance == Spec => []AckInv
<1>1. Init => AckInv
  BY DEF Init, AckInv, Places, Calls, Replies, Idle
<1>2. AckInv /\ [Next]_vars => AckInv'
  <2> SUFFICES ASSUME AckInv, [Next]_vars
               PROVE  AckInv'
    OBVIOUS
  <2> USE DEF preparation, orchestrator, provider
  <2>0. ASSUME NEW p \in Preps, pc[p] # "ended"
        PROVE  reply[p] = "none"
    BY <2>0 DEF AckInv
  <2>1. ASSUME NEW p \in Preps, NEW id \in RequestIds, Begin(p, id)
        PROVE  AckInv'
    <3>1. reply[p] = "none" /\ Idle(p)
      BY <2>0, <2>1 DEF Begin, AckInv, Places
    <3>2. CASE StartWorker(p)
      <4>1. CASE AskItem(p, 1)
        BY <3>1, <4>1, ItemAsked
      <4>2. CASE Goto(p, "verifying") /\ UNCHANGED provider
        BY <3>1, <4>2, GoesTo DEF Places
      <4>3. CASE Fail(p) /\ UNCHANGED provider
        BY <3>1, <4>3, EndsWith DEF Fail, Replies
      <4> QED
        BY <3>2, <4>1, <4>2, <4>3 DEF StartWorker
    <3>3. CASE /\ \E r \in {"session_not_current", "batch", "idempotency_conflict", "quiz_in_progress"} :
                     End(p, r)
               /\ UNCHANGED provider
      BY <3>1, <3>3, EndsWith DEF Replies
    <3> QED
      BY <2>1, <3>2, <3>3 DEF Begin
  <2>2. ASSUME NEW p \in Preps, Verified(p) \/ Spawned(p) \/ StopReturns(p)
        PROVE  AckInv'
    <3>1. reply[p] = "none" /\ Idle(p) /\ UNCHANGED provider
      BY <2>0, <2>2 DEF Verified, Spawned, StopReturns, AckInv, Places
    <3>2. CASE \E l \in {"spawning", "waiting", "readying"} : Goto(p, l)
      BY <3>1, <3>2, GoesTo DEF Places
    <3>3. CASE \E r \in {"safe_content_unavailable", "cancelled"} : End(p, r)
      BY <3>1, <3>3, EndsWith DEF Replies
    <3> QED
      BY <2>2, <3>2, <3>3 DEF Verified, Spawned, StopReturns, Fail
  <2>3. ASSUME NEW p \in Preps, Readiness(p)
        PROVE  AckInv'
    <3>1. reply[p] = "none" /\ Idle(p)
      BY <2>0, <2>3 DEF Readiness, AckInv, Places
    <3>2. CASE Answered(p)
      BY <3>1, <3>2, ItemAsked DEF Answered
    <3>3. CASE DiedReady(p) \/ NotReady(p)
      BY <3>1, <3>3, GoesTo DEF DiedReady, NotReady, Places
    <3> QED
      BY <2>3, <3>2, <3>3 DEF Readiness
  <2>4. ASSUME NEW p \in Preps, \/ CallStarts(p) \/ GateOpens(p) \/ Aborts(p)
                                \/ Aborted(p) \/ Responds(p)
        PROVE  AckInv'
    <3>1. ~Idle(p) /\ UNCHANGED <<pc, reply>>
      BY <2>4 DEF CallStarts, GateOpens, Aborts, Aborted, Responds, Idle
    <3>2. \E c \in Calls : call' = [call EXCEPT ![p] = c]
      BY <2>4 DEF CallStarts, GateOpens, Aborts, Aborted, Responds, UseWorker, NoLease, Return, Calls
    <3> QED
      BY <3>1, <3>2, CallMoves
  <2>5. ASSUME NEW p \in Preps, Collect(p)
        PROVE  AckInv'
    <3>1. reply[p] = "none" /\ Idle(p)
      BY <2>0, <2>5 DEF Collect, Idle
    <3>2. CASE AskItem(p, slot[p] + 1)
      BY <3>1, <3>2, ItemAsked
    <3>3. CASE Save(p) /\ UNCHANGED provider
      BY <3>1, <3>3, Saves
    <3>4. CASE NextAttempt(p)
      <4>1. CASE Ask(p, slot[p], 2)
        BY <3>1, <4>1, CallCreated DEF Ask
      <4>2. CASE Goto(p, "waiting") /\ UNCHANGED provider
        BY <3>1, <4>2, GoesTo DEF Places
      <4> QED
        BY <3>4, <4>1, <4>2 DEF NextAttempt
    <3>5. CASE Fail(p) /\ UNCHANGED provider
      BY <3>1, <3>5, EndsWith DEF Fail, Replies
    <3> QED
      BY <2>5, <3>2, <3>3, <3>4, <3>5 DEF Collect
  <2>6. ASSUME NEW p \in Preps, Expire(p) \/ Acknowledge(p)
        PROVE  AckInv'
    <3>1. reply[p] = "none" /\ call' = call
      BY <2>0, <2>6 DEF Expire, Acknowledge
    <3>2. CASE Goto(p, "cancelling")
      BY <3>1, <3>2, GoesTo DEF Places
    <3>3. CASE call[p] = "done" /\ Goto(p, "waiting")
      BY <3>1, <3>3, GoesTo DEF Places, Idle
    <3>4. CASE Fail(p)
      BY <3>1, <3>4, EndsWith DEF Fail, Replies
    <3> QED
      BY <2>6, <3>2, <3>3, <3>4 DEF Expire, Acknowledge
  <2>7. ASSUME NEW p \in Preps, Fallback(p)
        PROVE  AckInv'
    <3>1. reply[p] = "none" /\ Idle(p) /\ call' = call
      BY <2>0, <2>7 DEF Fallback, AckInv, Places
    <3> QED
      BY <2>7, <3>1, Saves, EndsWith DEF Fallback, Fail, Replies
  <2>8. ASSUME NEW p \in Preps, Cancel(p)
        PROVE  AckInv'
    <3>1. reply[p] = "none" /\ call' = call
      BY <2>0, <2>8 DEF Cancel, CancelAwait
    <3>2. CASE pc[p] = "verifying" /\ Goto(p, "waiting")
      BY <3>1, <3>2, GoesTo DEF AckInv, Places
    <3>3. CASE \E r \in {"safe_content_unavailable", "cancelled"} : End(p, r)
      BY <3>1, <3>3, EndsWith DEF Replies
    <3>4. CASE pc[p] = "readying" /\ pc' = [pc EXCEPT ![p] = "stopping"] /\ UNCHANGED reply
      BY <3>1, <3>4 DEF AckInv, Places, Idle
    <3>5. CASE UNCHANGED <<pc, reply>>
      BY <3>1, <3>5 DEF AckInv, Idle
    <3> QED
      BY <2>8, <3>2, <3>3, <3>4, <3>5 DEF Cancel, CancelAwait, Fail
  <2>9. CASE \/ Close \/ Shutdown \/ Supervise \/ (\E e \in Epochs : Child(e))
             \/ (\E u \in Users : Elapse(u))
             \/ OpenSession \/ FinishBattle \/ DeleteProfile \/ UNCHANGED vars
    <3>1. UNCHANGED <<pc, reply, call>>
      BY <2>9
      DEF Close, Shutdown, CloseStopped, Sweep, Swept, SweepExpires, Supervise, Child, Elapse,
          others, OpenSession, FinishBattle, DeleteProfile, vars
    <3> QED
      BY <3>1 DEF AckInv, Idle
  <2> QED
    BY <2>1, <2>2, <2>3, <2>4, <2>5, <2>6, <2>7, <2>8, <2>9 DEF Next, Step, CallStep
<1> QED
  BY <1>1, <1>2, PTL DEF Spec

\* The reviewed cache is opened, and a batch answered, only when the generation
\* of the same preparation has ended: a call that outlived its deadline was
\* cancelled and its end awaited.
THEOREM AcknowledgedFirst == Spec => []FallbackAfterAck
<1>1. AckInv => FallbackAfterAck
  BY DEF AckInv, FallbackAfterAck, Places
<1> QED
  BY <1>1, AckInvariance, PTL

-----------------------------------------------------------------------------
(* The live batch.                                                          *)

AtMostOne == open = {} \/ \E q : open = {q}

\* However many preparations pass their first look for a live batch and meet
\* at the write, they leave one.
THEOREM OneBatch == Spec => []OneLiveBatch
<1>1. Init => AtMostOne
  BY DEF Init, AtMostOne
<1>2. AtMostOne /\ [Next]_vars => AtMostOne'
  <2> SUFFICES ASSUME AtMostOne, [Next]_vars
               PROVE  AtMostOne'
    OBVIOUS
  <2> USE DEF AtMostOne, database
  <2>1. ASSUME NEW p \in Preps, Save(p)
        PROVE  AtMostOne'
    BY <2>1 DEF Save
  <2>2. ASSUME NEW p \in Preps, Collect(p) \/ Fallback(p)
        PROVE  AtMostOne'
    BY <2>1, <2>2 DEF Collect, Fallback
  <2>3. CASE FinishBattle
    BY <2>3 DEF FinishBattle
  <2>4. CASE DeleteProfile
    BY <2>4 DEF DeleteProfile
  <2>5. ASSUME NEW p \in Preps, \/ \E id \in RequestIds : Begin(p, id)
                                \/ Verified(p) \/ Spawned(p) \/ Readiness(p) \/ StopReturns(p)
                                \/ Expire(p) \/ Acknowledge(p) \/ CallStep(p) \/ Responds(p)
                                \/ Cancel(p)
        PROVE  AtMostOne'
    BY <2>5
    DEF Begin, Verified, Spawned, Readiness, StopReturns, Expire, Acknowledge, CallStep,
        CallStarts, GateOpens, Aborts, Aborted, Responds, Cancel
  <2>6. CASE \/ Close \/ Shutdown \/ Supervise \/ (\E e \in Epochs : Child(e))
             \/ (\E u \in Users : Elapse(u)) \/ OpenSession \/ UNCHANGED vars
    BY <2>6
    DEF Close, Shutdown, CloseStopped, Sweep, Swept, SweepExpires, Supervise, Child, Elapse,
        others, OpenSession, vars
  <2> QED
    BY <2>2, <2>3, <2>4, <2>5, <2>6 DEF Next, Step
<1>3. AtMostOne => OneLiveBatch
  <2>1. Cardinality({}) = 0 /\ \A q : Cardinality({q}) = 1
    BY FS_EmptySet, FS_Singleton, Zenon
  <2>2. CASE open = {}
    BY <2>1, <2>2 DEF OneLiveBatch
  <2>3. ASSUME NEW q, open = {q}
        PROVE  OneLiveBatch
    <3>1. Cardinality(open) = 1
      BY <2>1, <2>3, Zenon
    <3> QED
      BY <3>1 DEF OneLiveBatch
  <2> QED
    BY <2>2, <2>3 DEF AtMostOne
<1> QED
  BY <1>1, <1>2, <1>3, PTL DEF Spec
-----------------------------------------------------------------------------
(* What a step does to the worker.                                          *)

\* The launch of an epoch and its ends.
LaunchStep ==
    \/ StartEpoch
    \/ /\ state = "starting" /\ epoch \in Epochs
       /\ \/ AbandonEpoch
          \/ Launch \/ LaunchRefused
          \/ SpawnedInTime \/ SpawnFails \/ SpawnAbandoned
          \/ BecomeReady

\* A lease is granted, ended, or found lost.
LeaseStep ==
    \/ state = "ready" /\ Quarantine /\ UNCHANGED driver
    \/ \E p \in Preps : /\ state = "ready" /\ child[epoch] = "ready"
                        /\ GrantLease(p)
    \/ \E p \in Preps : HoldsLease(p) /\ ConfirmComplete(p)
    \/ \E p \in Preps : /\ ~HoldsLease(p)
                        /\ working' = working \ {p}
                        /\ UNCHANGED <<controller, child, signalled, driverClosed, crashes>>

StopStep ==
    \/ /\ state \in {"starting", "ready", "busy"}
       /\ \E u \in Users : \E b \in {"live", "whole"} : StopFor(u, b)
    \/ /\ state = "stopping"
       /\ StopSignals \/ StopEscalates \/ StopReaps \/ StopExpires

\* A stop or an end that nobody but the supervisor and the driver sees.
ChildStep == \E e \in Epochs : SpawnedLate(e) \/ ReapedLate(e) \/ Exits(e)

\* What the shutdown of the server does.
CloseStep == CloseDriver \/ SweepSignals \/ SweepReaps

Untouched == UNCHANGED <<state, epoch, lease, stop, authority, driver>>

WorkerStep == LaunchStep \/ LeaseStep \/ StopStep \/ ChildStep \/ CloseStep \/ Untouched

\* Every step is one of these to the worker, and only a preparation inside a
\* launch takes a launch further.
LEMMA WorkerSteps ==
    ASSUME WorkerInv, [Next]_vars
    PROVE  WorkerStep
<1> USE DEF worker, controller, driver, others
<1>1. ASSUME NEW p \in Preps, NEW id \in RequestIds, Begin(p, id)
      PROVE  WorkerStep
  BY <1>1 DEF Begin, StartWorker, WorkerStep, LaunchStep, Untouched
<1>2. ASSUME NEW p \in Preps, Verified(p)
      PROVE  WorkerStep
  <2>1. state = "starting" /\ epoch \in Epochs
    BY <1>2 DEF Verified, WorkerInv, OneLauncher, Launching
  <2>. QED
    BY <1>2, <2>1 DEF Verified, WorkerStep, LaunchStep
<1>3. ASSUME NEW p \in Preps, Spawned(p) \/ Readiness(p)
      PROVE  WorkerStep
  <2>1. state = "starting" /\ epoch \in Epochs
    BY <1>3 DEF Spawned, Readiness, WorkerInv, OneLauncher, Launching
  <2>. QED
    BY <1>3, <2>1 DEF Spawned, Readiness, Answered, DiedReady, NotReady, Users, WorkerStep,
       LaunchStep, StopStep
<1>4. ASSUME NEW p \in Preps, StopReturns(p) \/ Aborted(p)
      PROVE  WorkerStep
  BY <1>4 DEF StopReturns, Aborted, WorkerStep, Untouched
<1>5. ASSUME NEW p \in Preps, CallStarts(p) \/ GateOpens(p)
      PROVE  WorkerStep
  <2>1. CASE UNCHANGED worker
    BY <2>1 DEF WorkerStep, Untouched
  <2>2. CASE state = "ready" /\ Quarantine /\ UNCHANGED driver
    BY <2>2 DEF WorkerStep, LeaseStep
  <2>3. CASE /\ state = "ready" /\ child[epoch] = "ready"
             /\ GrantLease(p)
    BY <2>3 DEF WorkerStep, LeaseStep
  <2>. QED
    BY <1>5, <2>1, <2>2, <2>3 DEF CallStarts, GateOpens, UseWorker, NoLease
<1>6. ASSUME NEW p \in Preps, Responds(p)
      PROVE  WorkerStep
  BY <1>6 DEF Responds, WorkerStep, LeaseStep
<1>7. ASSUME NEW p \in Preps, Aborts(p)
      PROVE  WorkerStep
  BY <1>7 DEF Aborts, HoldsLease, Users, WorkerStep, StopStep, Untouched
<1>8. ASSUME NEW p \in Preps, Collect(p) \/ Expire(p) \/ Acknowledge(p) \/ Fallback(p)
      PROVE  WorkerStep
  BY <1>8 DEF Collect, Expire, Acknowledge, Fallback, WorkerStep, Untouched
<1>9. ASSUME NEW p \in Preps, Cancel(p)
      PROVE  WorkerStep
  <2>1. pc[p] \in {"verifying", "spawning", "readying"} => state = "starting" /\ epoch \in Epochs
    BY DEF WorkerInv, OneLauncher, Launching
  <2>. QED
    BY <1>9, <2>1 DEF Cancel, CancelAwait, Users, WorkerStep, LaunchStep, StopStep, Untouched
<1>10. CASE Close \/ Shutdown
  BY <1>10 DEF Close, Shutdown, CloseStopped, Sweep, Swept, SweepExpires, Users, WorkerStep,
     StopStep, CloseStep, Untouched
<1>11. CASE Supervise \/ \E e \in Epochs : Child(e)
  <2>1. stop.stage # "none" => state = "stopping"
    BY DEF WorkerInv, StopIsStopping
  <2>2. CASE StopSignals \/ StopEscalates \/ StopReaps \/ StopExpires
    BY <2>1, <2>2 DEF StopSignals, StopEscalates, StopReaps, StopExpires, WorkerStep, StopStep
  <2>. QED
    BY <1>11, <2>2 DEF Supervise, Child, WorkerStep, ChildStep
<1>12. CASE \/ \E u \in Users : Elapse(u)
            \/ OpenSession \/ FinishBattle \/ DeleteProfile \/ UNCHANGED vars
  BY <1>12 DEF Elapse, OpenSession, FinishBattle, DeleteProfile, vars, WorkerStep, Untouched
<1>. QED
  BY <1>1, <1>2, <1>3, <1>4, <1>5, <1>6, <1>7, <1>8, <1>9, <1>10, <1>11, <1>12
     DEF Next, Step, CallStep

-----------------------------------------------------------------------------
(* One prompt at a time.                                                    *)

\* Prompts are evaluated by the ready child of the current epoch, one at a
\* time, for the lease; a worker that may grant a lease evaluates none.
EvaluationInv ==
    /\ state # "stopped" => epoch \in Epochs
    /\ working \subseteq Preps /\ \A p, q \in working : p = q
    /\ working # {} => /\ epoch \in Epochs /\ child[epoch] = "ready"
                       /\ state \notin {"ready", "starting", "stopped"}
    /\ state = "busy" => working \subseteq {lease}

LEMMA EvaluationSteps ==
    ASSUME WorkerInv, EvaluationInv, WorkerStep
    PROVE  EvaluationInv'
<1> USE DEF EvaluationInv, controller, driver
<1>0. /\ child \in [Epochs -> Stages] /\ epoch \in Nat
      /\ Epochs = 1..MaxEpoch
  BY DEF WorkerInv, WorkerShape, Epochs
<1>1. CASE LaunchStep
  <2>0. working = {}
    BY <1>1 DEF LaunchStep, StartEpoch
  <2>1. CASE StartEpoch
    <3>1. epoch' \in Epochs /\ working' = {} /\ state' = "starting"
      BY <1>0, <2>0, <2>1, WorkerAssumption DEF StartEpoch
    <3>. QED
      BY <3>1
  <2>2. CASE state = "starting" /\ epoch \in Epochs
    <3>1. working' = {} /\ epoch' = epoch
      BY <1>1, <2>0, <2>2
      DEF LaunchStep, StartEpoch, AbandonEpoch, Launch, LaunchRefused, SpawnedInTime, SpawnFails,
          SpawnAbandoned, BecomeReady, Quarantine
    <3>. QED
      BY <2>2, <3>1
  <2>. QED
    BY <1>1, <2>1, <2>2 DEF LaunchStep
<1>2. CASE LeaseStep
  <2>1. CASE state = "ready" /\ Quarantine /\ UNCHANGED driver
    BY <2>1 DEF Quarantine
  <2>2. ASSUME NEW p \in Preps, state = "ready", child[epoch] = "ready", GrantLease(p)
        PROVE  EvaluationInv'
    <3>1. working' = {p} /\ UNCHANGED <<child, epoch>> /\ state' = "busy" /\ lease' = p
      BY <2>2 DEF GrantLease
    <3>. QED
      BY <2>2, <3>1
  <2>3. ASSUME NEW p \in Preps, HoldsLease(p), ConfirmComplete(p)
        PROVE  EvaluationInv'
    <3>1. working' = {} /\ epoch' = epoch
      BY <2>3 DEF HoldsLease, ConfirmComplete
    <3>. QED
      BY <2>3, <3>1 DEF HoldsLease
  <2>4. ASSUME NEW p \in Preps, working' = working \ {p}, UNCHANGED <<controller, child>>
        PROVE  EvaluationInv'
    BY <2>4
  <2>. QED
    BY <1>2, <2>1, <2>2, <2>3, <2>4 DEF LeaseStep
<1>3. CASE StopStep
  <2>0. state # "stopped" /\ epoch \in Epochs
    BY <1>3 DEF StopStep
  <2>1. ASSUME NEW u \in Users, NEW b \in {"live", "whole"}, StopFor(u, b)
        PROVE  EvaluationInv'
    BY <2>0, <2>1 DEF StopFor
  <2>2. CASE state = "stopping" /\ (StopSignals \/ StopEscalates \/ StopExpires)
    BY <2>0, <2>2 DEF StopSignals, StopEscalates, StopExpires
  <2>3. CASE StopReaps
    <3>1. working = {} /\ working' = working /\ UNCHANGED epoch
      BY <2>3 DEF StopReaps, AcceptReceipt
    <3>. QED
      BY <2>0, <3>1
  <2>. QED
    BY <1>3, <2>1, <2>2, <2>3 DEF StopStep
<1>4. ASSUME NEW e \in Epochs, SpawnedLate(e) \/ ReapedLate(e) \/ Exits(e)
      PROVE  EvaluationInv'
  <2>1. CASE SpawnedLate(e) \/ ReapedLate(e)
    <3>1. /\ child[e] # "ready" /\ \E s \in Stages : child' = [child EXCEPT ![e] = s]
          /\ UNCHANGED <<working, state, lease, epoch>>
      BY <2>1 DEF SpawnedLate, ReapedLate, Stages
    <3>. QED
      BY <1>0, <3>1
  <2>2. CASE Exits(e)
    BY <2>2 DEF Exits
  <2>. QED
    BY <1>4, <2>1, <2>2
<1>5. CASE CloseStep
  <2>1. CASE CloseDriver \/ SweepSignals
    BY <2>1 DEF CloseDriver, SweepSignals
  <2>2. CASE SweepReaps
    <3>1. working = {} /\ working' = working /\ UNCHANGED <<state, epoch>>
      BY <2>2 DEF SweepReaps, Unreaped
    <3>. QED
      BY <3>1
  <2>. QED
    BY <1>5, <2>1, <2>2 DEF CloseStep
<1>6. CASE Untouched
  BY <1>6 DEF Untouched
<1>. QED
  BY <1>1, <1>2, <1>3, <1>4, <1>5, <1>6 DEF WorkerStep, ChildStep

\* The model never evaluates two prompts at once: the gate, the lease and the
\* stop of a broken exchange leave it one (LlamaCppProvider.generate_before,
\* ManagedLlamaWorker.acquire).
THEOREM OnePrompt == Spec => []OneEvaluation
<1>1. Init => EvaluationInv
  BY DEF Init, WorkerInit, EvaluationInv
<1>2. WorkerInv /\ EvaluationInv /\ [Next]_vars => EvaluationInv'
  BY WorkerSteps, EvaluationSteps
<1>3. EvaluationInv => OneEvaluation
  <2> SUFFICES ASSUME EvaluationInv PROVE Cardinality(working) <= 1
    BY DEF OneEvaluation
  <2>1. Cardinality({}) = 0 /\ \A q : Cardinality({q}) = 1
    BY FS_EmptySet, FS_Singleton, Zenon
  <2>2. CASE working = {}
    BY <2>1, <2>2
  <2>3. ASSUME NEW q \in working
        PROVE  Cardinality(working) <= 1
    <3>1. working = {q}
      BY <2>3 DEF EvaluationInv
    <3>2. Cardinality(working) = 1
      BY <2>1, <3>1, Zenon
    <3>. QED
      BY <3>2
  <2>. QED
    BY <2>2, <2>3
<1>. QED
  BY <1>1, <1>2, <1>3, WorkerInvariance, PTL DEF Spec
-----------------------------------------------------------------------------
(* The shutdown of the server.                                              *)

\* The driver is closed before its children are swept, and a closed driver
\* launches nothing: what is swept stays swept.
ClosingInv ==
    /\ closing \in {"closing", "sweeping", "done"} => driverClosed
    /\ CloseReaps

\* A closed driver stays closed, and its children can only end.
LEMMA ClosedStays ==
    ASSUME WorkerInv, WorkerStep, driverClosed
    PROVE  driverClosed' /\ (Unreaped = {} => Unreaped' = {})
<1> USE DEF controller, driver
<1>0. child \in [Epochs -> Stages]
  BY DEF WorkerInv, WorkerShape
<1>1. CASE LaunchStep
  <2>1. CASE UNCHANGED driver
    BY <2>1 DEF Unreaped
  <2>2. CASE epoch \in Epochs /\ (SpawnedInTime \/ SpawnFails \/ BecomeReady)
    <3>1. epoch \in Unreaped
      BY <2>2 DEF SpawnedInTime, SpawnFails, BecomeReady, Unreaped
    <3>. QED
      BY <2>2, <3>1 DEF SpawnedInTime, SpawnFails, BecomeReady
  <2>. QED
    BY <1>1, <2>1, <2>2
    DEF LaunchStep, StartEpoch, AbandonEpoch, Launch, LaunchRefused, SpawnAbandoned
<1>2. CASE LeaseStep
  BY <1>2 DEF LeaseStep, GrantLease, ConfirmComplete, Unreaped
<1>3. CASE StopStep
  <2>1. CASE StopReaps
    <3>1. /\ driverClosed' /\ child' = [child EXCEPT ![epoch] = "reaped"]
      BY <2>1 DEF StopReaps
    <3>. QED
      BY <1>0, <3>1 DEF Unreaped
  <2>2. CASE UNCHANGED <<child, driverClosed>>
    BY <2>2 DEF Unreaped
  <2>. QED
    BY <1>3, <2>1, <2>2 DEF StopStep, StopFor, StopSignals, StopEscalates, StopExpires
<1>4. ASSUME NEW e \in Epochs, SpawnedLate(e) \/ ReapedLate(e) \/ Exits(e)
      PROVE  driverClosed' /\ e \in Unreaped
  BY <1>4 DEF SpawnedLate, ReapedLate, Exits, Unreaped
<1>5. CASE CloseStep
  <2>1. CASE SweepReaps
    BY <1>0, <2>1 DEF SweepReaps, Unreaped
  <2>2. CASE CloseDriver \/ SweepSignals
    BY <2>2 DEF CloseDriver, SweepSignals, Unreaped
  <2>. QED
    BY <1>5, <2>1, <2>2 DEF CloseStep
<1>6. CASE Untouched
  BY <1>6 DEF Untouched, Unreaped
<1>. QED
  BY <1>1, <1>2, <1>3, <1>4, <1>5, <1>6 DEF WorkerStep, ChildStep

\* A shutdown that reports success leaves no child of the model behind, and
\* none is launched after it (ServerWorkerLifecycle's close, shutdown_all).
THEOREM ShutdownReaps == Spec => []CloseReaps
<1>1. Init => ClosingInv
  BY DEF Init, ClosingInv, CloseReaps
<1>2. WorkerInv /\ ClosingInv /\ [Next]_vars => ClosingInv'
  <2> SUFFICES ASSUME WorkerInv, ClosingInv, [Next]_vars
               PROVE  ClosingInv'
    OBVIOUS
  <2> USE DEF ClosingInv, CloseReaps
  <2>1. driverClosed => driverClosed' /\ (Unreaped = {} => Unreaped' = {})
    BY WorkerSteps, ClosedStays
  <2>2. CASE UNCHANGED closing
    BY <2>1, <2>2
  <2>3. CASE Close \/ CloseStopped
    BY <2>3 DEF Close, CloseStopped, CloseDriver
  <2>4. CASE Sweep \/ SweepExpires
    BY <2>1, <2>4 DEF Sweep, SweepExpires
  <2>5. CASE Swept
    <3>1. closing = "sweeping" /\ closing' = "done"
          /\ child' = [e \in Epochs |-> IF e \in Unreaped THEN "reaped" ELSE child[e]]
      BY <2>5 DEF Swept, SweepReaps
    <3>2. Unreaped' = {}
      BY <3>1 DEF Unreaped
    <3>. QED
      BY <2>1, <3>1, <3>2
  <2>6. ASSUME NEW p \in Preps, NEW id \in RequestIds,
               Begin(p, id)
        PROVE  UNCHANGED closing
    BY <2>6 DEF Begin
  <2>7. CASE \/ Supervise \/ (\E e \in Epochs : Child(e)) \/ (\E u \in Users : Elapse(u))
             \/ OpenSession \/ FinishBattle \/ DeleteProfile \/ UNCHANGED vars
    <3>1. UNCHANGED closing
      BY <2>7 DEF Supervise, Child, Elapse, others, OpenSession, FinishBattle, DeleteProfile, vars
    <3>. QED
      BY <2>2, <3>1
  <2>8. ASSUME NEW p \in Preps, Step(p) \/ CallStep(p) \/ Responds(p) \/ Cancel(p)
        PROVE  UNCHANGED closing
    BY <2>8
    DEF Step, Verified, Spawned, Readiness, StopReturns, Collect, Expire, Acknowledge,
        Fallback, CallStep, CallStarts, GateOpens, Aborts, Aborted, Responds, Cancel
  <2>. QED
    BY <2>2, <2>3, <2>4, <2>5, <2>6, <2>7, <2>8 DEF Next, Shutdown
<1>. QED
  BY <1>1, <1>2, WorkerInvariance, PTL DEF Spec, ClosingInv

-----------------------------------------------------------------------------
(* Nobody is left waiting for the worker.                                   *)

LaunchIsAttended == state = "starting" => \E p \in Preps : Launching(p)

StopIsAttended == state = "stopping" => stop.stage # "none"

LeaseIsAttended == state = "busy" => /\ lease \in Preps
                                     /\ call[lease] = "posting" \/ window[lease] = "over"

AttendedInv == /\ window \in [Users -> {"live", "fallback", "over"}]
               /\ LaunchIsAttended
               /\ StopIsAttended
               /\ LeaseIsAttended

\* A preparation leaves a launch only with a worker that is not starting.
LaunchMoves == \/ state' # "starting"
               \/ \E p \in Preps : Launching(p)'
               \/ state' = state /\ \A q \in Preps : Launching(q) => pc'[q] = pc[q]

\* A call that holds the lease gives it back, or has no time left to.
LeaseMoves ==
    \/ state' # "busy"
    \/ \E p \in Preps : lease' = p /\ call'[p] = "posting"
    \/ /\ UNCHANGED <<state, lease>>
       /\ \/ UNCHANGED call
          \/ \E p \in Preps : \E c \in Calls :
                /\ call' = [call EXCEPT ![p] = c]
                /\ \/ call[p] # "posting" \/ lease # p \/ window[p] = "over"

LEMMA AttentionKept ==
    ASSUME AttendedInv, AckInv,
           LaunchMoves, StopIsAttended', LeaseMoves,
           window' \in [Users -> {"live", "fallback", "over"}],
           \A u \in Users : window[u] = "over" => window'[u] = "over"
    PROVE  AttendedInv'
<1>1. LaunchIsAttended'
  BY DEF LaunchMoves, AttendedInv, LaunchIsAttended, Launching
<1>2. LeaseIsAttended'
  BY DEF LeaseMoves, AttendedInv, LeaseIsAttended, AckInv, Users
<1>. QED
  BY <1>1, <1>2 DEF AttendedInv

\* Only a stop puts the worker into a stop, and only its end ends it.
LEMMA StopMoves ==
    ASSUME WorkerInv, AttendedInv, WorkerStep
    PROVE  StopIsAttended'
<1> USE DEF AttendedInv, StopIsAttended, controller
<1>1. CASE LaunchStep
  BY <1>1
  DEF LaunchStep, StartEpoch, AbandonEpoch, Launch, LaunchRefused, SpawnedInTime, SpawnFails,
      SpawnAbandoned, BecomeReady, Quarantine
<1>2. CASE LeaseStep
  BY <1>2 DEF LeaseStep, Quarantine, GrantLease, ConfirmComplete
<1>3. CASE StopStep
  BY <1>3
  DEF StopStep, StopFor, StopSignals, StopEscalates, StopReaps, AcceptReceipt, StopExpires,
      WorkerInv, WorkerShape, Stops
<1>4. CASE ChildStep \/ CloseStep \/ Untouched
  BY <1>4
  DEF ChildStep, SpawnedLate, ReapedLate, Exits, CloseStep, CloseDriver, SweepSignals,
      SweepReaps, Untouched
<1>. QED
  BY <1>1, <1>2, <1>3, <1>4 DEF WorkerStep

LEMMA AttentionSteps ==
    ASSUME WorkerInv, AckInv, AttendedInv, [Next]_vars
    PROVE  AttendedInv'
<1> USE DEF orchestrator, preparation, provider, database, worker, controller, driver
<1>0. StopIsAttended'
  BY WorkerSteps, StopMoves
<1>0a. window' = window => /\ window' \in [Users -> {"live", "fallback", "over"}]
                           /\ \A u \in Users : window[u] = "over" => window'[u] = "over"
  BY DEF AttendedInv
<1>0b. pc \in [Preps -> Places] /\ call \in [Preps -> Calls]
  BY DEF AckInv
<1>1. ASSUME NEW p \in Preps, NEW id \in RequestIds, Begin(p, id)
      PROVE  AttendedInv'
  <2>0. Idle(p) /\ window' = window /\ ~Launching(p)
    BY <1>1 DEF Begin, AckInv, Places, Launching
  <2>1. LaunchMoves
    <3>1. CASE StartEpoch /\ Goto(p, "verifying")
      BY <1>0b, <3>1 DEF Goto, LaunchMoves, Launching
    <3>2. CASE UNCHANGED state /\ \E l \in Places : pc' = [pc EXCEPT ![p] = l]
      BY <1>0b, <2>0, <3>2 DEF LaunchMoves
    <3>. QED
      BY <1>1, <3>1, <3>2 DEF Begin, StartWorker, AskItem, Ask, Goto, End, Fail, Places
  <2>2. LeaseMoves
    <3>1. CASE call' = [call EXCEPT ![p] = "created"] /\ UNCHANGED worker
      BY <2>0, <3>1 DEF LeaseMoves, Idle, Calls
    <3>2. CASE UNCHANGED <<call, worker>>
      BY <3>2 DEF LeaseMoves
    <3>3. CASE StartEpoch
      BY <3>3 DEF StartEpoch, LeaseMoves
    <3>. QED
      BY <1>1, <3>1, <3>2, <3>3 DEF Begin, StartWorker, AskItem, Ask
  <2>. QED
    BY <1>0, <1>0a, <2>0, <2>1, <2>2, AttentionKept
<1>2. ASSUME NEW p \in Preps, Verified(p) \/ Spawned(p)
      PROVE  AttendedInv'
  <2>0. window' = window /\ call' = call /\ state = "starting"
    BY <1>2 DEF Verified, Spawned, WorkerInv, OneLauncher, Launching
  <2>1. LaunchMoves
    <3>1. CASE \E l \in {"spawning", "readying"} : Goto(p, l)
      BY <1>0b, <3>1 DEF Goto, LaunchMoves, Launching
    <3>2. CASE state' # "starting"
      BY <3>2 DEF LaunchMoves
    <3>. QED
      BY <1>2, <3>1, <3>2
      DEF Verified, Spawned, LaunchRefused, AbandonEpoch, SpawnFails, SpawnAbandoned, Quarantine
  <2>2. state' # "busy"
    BY <1>2, <2>0
    DEF Verified, Spawned, Launch, LaunchRefused, AbandonEpoch, SpawnedInTime, SpawnFails,
        SpawnAbandoned, Quarantine
  <2>. QED
    BY <1>0, <1>0a, <2>0, <2>1, <2>2, AttentionKept DEF LeaseMoves
<1>3. ASSUME NEW p \in Preps, Readiness(p)
      PROVE  AttendedInv'
  <2>1. window' = window /\ state' \in {"ready", "stopping"}
    BY <1>3 DEF Readiness, Answered, BecomeReady, DiedReady, NotReady, StopFor
  <2>. QED
    BY <1>0, <1>0a, <2>1, AttentionKept DEF LaunchMoves, LeaseMoves
<1>4. ASSUME NEW p \in Preps, StopReturns(p) \/ Expire(p) \/ Acknowledge(p) \/ Fallback(p)
      PROVE  AttendedInv'
  <2>1. UNCHANGED <<state, lease, window, call>> /\ ~Launching(p)
    BY <1>4 DEF StopReturns, Expire, Acknowledge, Fallback, Launching
  <2>2. \E l \in Places : pc' = [pc EXCEPT ![p] = l]
    BY <1>4
    DEF StopReturns, Expire, Acknowledge, Fallback, Save, Answer, Goto, Fail, End, Places
  <2>. QED
    BY <1>0, <1>0a, <1>0b, <2>1, <2>2, AttentionKept DEF LaunchMoves, LeaseMoves
<1>5. ASSUME NEW p \in Preps, Collect(p)
      PROVE  AttendedInv'
  <2>1. UNCHANGED <<state, lease, window>> /\ ~Launching(p) /\ call[p] = "done"
    BY <1>5 DEF Collect, Launching
  <2>2. \E l \in Places : pc' = [pc EXCEPT ![p] = l]
    BY <1>5
    DEF Collect, AskItem, Ask, NextAttempt, Save, Answer, Goto, Fail, End, Places
  <2>3. call' = call \/ call' = [call EXCEPT ![p] = "created"]
    BY <1>5 DEF Collect, AskItem, Ask, NextAttempt
  <2>. QED
    BY <1>0, <1>0a, <1>0b, <2>1, <2>2, <2>3, AttentionKept DEF LaunchMoves, LeaseMoves, Calls
<1>6. ASSUME NEW p \in Preps, CallStarts(p) \/ GateOpens(p)
      PROVE  AttendedInv'
  <2>0. UNCHANGED <<window, pc>> /\ call[p] \in {"created", "queued"}
    BY <1>6 DEF CallStarts, GateOpens
  <2>1. CASE UNCHANGED worker /\ \E c \in Calls : call' = [call EXCEPT ![p] = c]
    BY <1>0, <1>0a, <2>0, <2>1, AttentionKept DEF LaunchMoves, LeaseMoves
  <2>2. CASE Quarantine
    BY <1>0, <1>0a, <2>0, <2>2, AttentionKept DEF Quarantine, LaunchMoves, LeaseMoves
  <2>3. CASE GrantLease(p) /\ call' = [call EXCEPT ![p] = "posting"]
    BY <1>0, <1>0a, <1>0b, <2>0, <2>3, AttentionKept DEF GrantLease, LaunchMoves, LeaseMoves
  <2>. QED
    BY <1>6, <2>1, <2>2, <2>3 DEF CallStarts, GateOpens, UseWorker, NoLease, Return, Calls
<1>7. ASSUME NEW p \in Preps, Responds(p)
      PROVE  AttendedInv'
  <2>0. UNCHANGED <<window, pc>> /\ \E c \in Calls : call' = [call EXCEPT ![p] = c]
    BY <1>7 DEF Responds, Return, Calls
  <2>1. CASE ConfirmComplete(p)
    BY <1>0, <1>0a, <2>0, <2>1, AttentionKept DEF ConfirmComplete, LaunchMoves, LeaseMoves
  <2>2. CASE ~HoldsLease(p) /\ UNCHANGED controller
    BY <1>0, <1>0a, <2>0, <2>2, AttentionKept DEF HoldsLease, LaunchMoves, LeaseMoves
  <2>. QED
    BY <1>7, <2>1, <2>2 DEF Responds
<1>8. ASSUME NEW p \in Preps, Aborts(p)
      PROVE  AttendedInv'
  <2>0. UNCHANGED <<window, pc>> /\ \E c \in Calls : call' = [call EXCEPT ![p] = c]
    BY <1>8 DEF Aborts, Return, Calls
  <2>1. CASE StopFor(p, "whole")
    BY <1>0, <1>0a, <2>0, <2>1, AttentionKept DEF StopFor, LaunchMoves, LeaseMoves
  <2>2. CASE UNCHANGED worker /\ (window[p] = "over" \/ ~HoldsLease(p))
    BY <1>0, <1>0a, <2>0, <2>2, AttentionKept DEF HoldsLease, LaunchMoves, LeaseMoves
  <2>. QED
    BY <1>8, <2>1, <2>2 DEF Aborts, Elapsed, HoldsLease
<1>9. ASSUME NEW p \in Preps, Aborted(p)
      PROVE  AttendedInv'
  <2>1. /\ UNCHANGED <<state, lease, window, pc>> /\ call[p] = "aborting"
        /\ call' = [call EXCEPT ![p] = "done"]
    BY <1>9 DEF Aborted, Return
  <2>. QED
    BY <1>0, <1>0a, <2>1, AttentionKept DEF LaunchMoves, LeaseMoves, Calls
<1>10. ASSUME NEW p \in Preps, Cancel(p)
       PROVE  AttendedInv'
  <2>0. window' = window /\ call' = call
    BY <1>10 DEF Cancel, CancelAwait
  <2>1. CASE state' \in {"stopped", "quarantined", "stopping"}
    BY <1>0, <1>0a, <2>0, <2>1, AttentionKept DEF LaunchMoves, LeaseMoves
  <2>2. CASE /\ UNCHANGED worker /\ ~Launching(p)
             /\ \E l \in Places : pc' = [pc EXCEPT ![p] = l]
    BY <1>0, <1>0a, <1>0b, <2>0, <2>2, AttentionKept DEF LaunchMoves, LeaseMoves
  <2>3. CASE UNCHANGED <<worker, pc>>
    BY <1>0, <1>0a, <2>0, <2>3, AttentionKept DEF LaunchMoves, LeaseMoves
  <2>. QED
    BY <1>10, <2>1, <2>2, <2>3
    DEF Cancel, CancelAwait, AbandonEpoch, SpawnAbandoned, Quarantine, StopFor, End, Launching,
        Places
<1>11. CASE Close \/ Shutdown \/ Supervise \/ \E e \in Epochs : Child(e)
  <2>0. UNCHANGED <<window, pc, call>>
    BY <1>11
    DEF Close, Shutdown, CloseStopped, Sweep, Swept, SweepExpires, Supervise, Child, others
  <2>1. state' \in {"stopping", "stopped", "quarantined"} \/ UNCHANGED <<state, lease>>
    BY <1>11
    DEF Close, Shutdown, CloseStopped, CloseDriver, Sweep, SweepSignals, Swept, SweepReaps,
        SweepExpires, Supervise, StopFor, StopSignals, StopEscalates, StopReaps, AcceptReceipt,
        StopExpires, Child, SpawnedLate, ReapedLate, Exits
  <2>. QED
    BY <1>0, <1>0a, <2>0, <2>1, AttentionKept DEF LaunchMoves, LeaseMoves
<1>12. ASSUME NEW u \in Users, Elapse(u)
       PROVE  AttendedInv'
  <2>1. UNCHANGED <<state, lease, pc, call>>
    BY <1>12 DEF Elapse, others
  <2>2. /\ window' \in [Users -> {"live", "fallback", "over"}]
        /\ \A v \in Users : window[v] = "over" => window'[v] = "over"
    BY <1>12 DEF Elapse, AttendedInv
  <2>. QED
    BY <1>0, <2>1, <2>2, AttentionKept DEF LaunchMoves, LeaseMoves
<1>13. CASE OpenSession \/ FinishBattle \/ DeleteProfile \/ UNCHANGED vars
  <2>1. UNCHANGED <<state, lease, pc, call, window>>
    BY <1>13 DEF OpenSession, FinishBattle, DeleteProfile, vars
  <2>. QED
    BY <1>0, <1>0a, <2>1, AttentionKept DEF LaunchMoves, LeaseMoves
<1>. QED
  BY <1>1, <1>2, <1>3, <1>4, <1>5, <1>6, <1>7, <1>8, <1>9, <1>10, <1>11, <1>12, <1>13
  DEF Next, Step, CallStep

\* Whoever is inside a launch, a stop or a lease is still there to end it: no
\* cancellation, timeout or crash leaves the worker starting, stopping or busy
\* with nobody to move it on (ManagedLlamaWorker, _cancel_and_ack).
THEOREM NobodyStrandsTheWorker == Spec => []WorkerIsAttended
<1>1. Init => AttendedInv
  BY DEF Init, WorkerInit, AttendedInv, LaunchIsAttended, StopIsAttended, LeaseIsAttended
<1>2. WorkerInv /\ AckInv /\ AttendedInv /\ [Next]_vars => AttendedInv'
  BY AttentionSteps
<1>3. AttendedInv => WorkerIsAttended
  BY DEF AttendedInv, LaunchIsAttended, StopIsAttended, LeaseIsAttended, WorkerIsAttended,
     Launching
<1>. QED
  BY <1>1, <1>2, <1>3, WorkerInvariance, AckInvariance, PTL DEF Spec
=============================================================================
