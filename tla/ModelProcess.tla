---------------------------- MODULE ModelProcess ----------------------------
(***************************************************************************)
(* The exact child: MacOSWorkerProcessDriver and MacOSDriverAuthority of   *)
(* app/macos_worker_driver.py over PopenLlamaSpawner, PopenProcessAuthority*)
(* and FlockInterprocessWorkerLock of app/macos_worker_runtime.py.  Module *)
(* LlamaWorker, the supervisor, takes the driver for granted; here are its *)
(* pipeline, its threads, its signals and its shutdown.                    *)
(*                                                                         *)
(* The driver is an event loop, whose code between two awaits is one       *)
(* action, and threads that create a child, clean up after a failed spawn, *)
(* and wait for a child.  Any wait with a deadline may expire at any       *)
(* moment, a child may end by itself, and it need not obey a TERM.         *)
(*                                                                         *)
(* The loop is held by a signal between its last look at the child and the *)
(* kill: the variable aim.  Threads and children go on.                    *)
(*                                                                         *)
(* Other servers share the lock file; rival says that one of them has it,  *)
(* and with it a child.                                                    *)
(*                                                                         *)
(* Abstracted: argv, credentials, diagnostics and the shape checks of what *)
(* the spawner returns, which its one implementation always passes; the    *)
(* drains, which end with the child's pipes; the readiness exchange.       *)
(***************************************************************************)
EXTENDS Naturals

CONSTANTS
    MaxLaunches,    \* bound: calls of start
    MaxFaults,      \* bound: operating system calls that fail
    MayDie          \* the server may be killed

ASSUME ModelProcessAssumption ==
    /\ MaxLaunches \in Nat \ {0}
    /\ MaxFaults \in Nat
    /\ MayDie \in BOOLEAN

Launches == 1..MaxLaunches
Nothing == 0

VARIABLES
    \* the operating system
    up,         \* the server is alive
    rival,      \* another server has the lock file, and a child
    os,         \* the child of a launch
    told,       \* signals a running child has received
    strays,     \* signals sent to a child that was already reaped
    faults,
    \* MacOSDriverAuthority, and the driver's shutdown
    held,       \* the launch that owns the authority and the lock file
    shutdown,
    aim,        \* the signal the event loop is about to send
    \* per launch: _prepare_and_spawn and start
    pipeline, caller, artifacts,
    clean,      \* the thread of cleanup_failed_spawn
    \* per launch: who waits for the end of the child
    waiter,     \* the thread of PopenProcessAuthority.reap
    reaped,     \* launches whose record says reaped
    late,       \* _cleanup_late_spawn
    stop        \* the supervisor's stop

system == <<up, rival, os, told, strays, faults>>
authority == <<held, shutdown, aim>>
launch == <<pipeline, caller, artifacts, clean>>
ends == <<waiter, reaped, late, stop>>
vars == <<system, authority, launch, ends>>

Steps == {"none", "wait1", "wait2"}
NoAim == [launch |-> Nothing, signal |-> "none", by |-> "none"]
Aims == [launch : Launches, signal : {"TERM", "KILL"}, by : {"stop", "late", "shutdown"}]

TypeOK ==
    /\ up \in BOOLEAN /\ rival \in BOOLEAN
    /\ os \in [Launches -> {"none", "running", "zombie", "gone"}]
    /\ told \in [Launches -> SUBSET {"TERM", "KILL"}]
    /\ strays \subseteq {"TERM", "KILL"}
    /\ faults \in 0..MaxFaults
    /\ held \in Launches \cup {Nothing}
    /\ shutdown \in Steps \cup {"open", "spawns", "term", "kill", "close", "failed", "closed"}
    /\ aim \in Aims \cup {NoAim}
    /\ pipeline \in [Launches -> {"none", "checking", "creating", "binding", "cleaning",
                                  "spawned", "failed"}]
    /\ caller \in [Launches -> {"none", "waiting", "returned", "raised", "gone"}]
    /\ artifacts \subseteq Launches
    /\ clean \in [Launches -> Steps \cup {"term", "kill", "reaped", "unsafe"}]
    /\ waiter \in [Launches -> {"none", "waiting", "waited", "published"}]
    /\ reaped \subseteq Launches
    /\ late \in [Launches -> Steps \cup {"pending", "term", "kill", "done"}]
    /\ stop \in [Launches -> Steps \cup {"term", "kill", "done"}]

Init ==
    /\ up = TRUE /\ rival = FALSE
    /\ os = [e \in Launches |-> "none"]
    /\ told = [e \in Launches |-> {}]
    /\ strays = {}
    /\ faults = 0
    /\ held = Nothing
    /\ shutdown = "open"
    /\ aim = NoAim
    /\ pipeline = [e \in Launches |-> "none"]
    /\ caller = [e \in Launches |-> "none"]
    /\ artifacts = {}
    /\ clean = [e \in Launches |-> "none"]
    /\ waiter = [e \in Launches |-> "none"]
    /\ reaped = {}
    /\ late = [e \in Launches |-> "none"]
    /\ stop = [e \in Launches |-> "none"]

-----------------------------------------------------------------------------

\* A child that its server, which is alive, has not reaped.
Unreaped(e) == up /\ os[e] \in {"running", "zombie"}

LoopFree == up /\ aim = NoAim

Fault == faults < MaxFaults /\ faults' = faults + 1

\* The retained descriptors are closed and the authority is released, with
\* the lock file; either may fail, and is then kept.
LetGo(e) ==
    \E closes, frees \in BOOLEAN :
        /\ artifacts' = IF closes THEN artifacts \ {e} ELSE artifacts
        /\ held' = IF frees THEN Nothing ELSE held
        /\ faults' = faults + (IF closes THEN 0 ELSE 1) + (IF frees THEN 0 ELSE 1)
        /\ faults' <= MaxFaults

-----------------------------------------------------------------------------
(* start, and the pipeline it leaves running when it gives up.             *)

Start ==
    /\ LoopFree /\ shutdown = "open"
    /\ held = Nothing /\ ~rival
    /\ \E e \in Launches :
           /\ pipeline[e] = "none"
           /\ \A f \in 1..(e - 1) : pipeline[f] # "none"
           /\ held' = e
           /\ pipeline' = [pipeline EXCEPT ![e] = "checking"]
           /\ caller' = [caller EXCEPT ![e] = "waiting"]
    /\ UNCHANGED <<system, shutdown, aim, artifacts, clean, ends>>

Running(e) == pipeline[e] \in {"checking", "creating", "binding", "cleaning"}

\* The artifacts were revalidated and their descriptors retained.
Checked(e) ==
    /\ LoopFree /\ pipeline[e] = "checking"
    /\ pipeline' = [pipeline EXCEPT ![e] = "creating"]
    /\ artifacts' = artifacts \cup {e}
    /\ UNCHANGED <<system, authority, caller, clean, ends>>

\* No child was created: everything is given back.
NothingCreated(e) ==
    /\ LoopFree /\ pipeline[e] \in {"checking", "creating"}
    /\ pipeline' = [pipeline EXCEPT ![e] = "failed"]
    /\ LetGo(e)
    /\ UNCHANGED <<up, rival, os, told, strays, shutdown, aim, caller, clean, ends>>

\* A thread: the process exists and is claimed before anything else.
Create(e) ==
    /\ up /\ pipeline[e] = "creating"
    /\ os' = [os EXCEPT ![e] = "running"]
    /\ pipeline' = [pipeline EXCEPT ![e] = "binding"]
    /\ UNCHANGED <<up, rival, told, strays, faults, authority, caller,
                   artifacts, clean, ends>>

Bind(e) ==
    /\ LoopFree /\ pipeline[e] = "binding"
    /\ pipeline' = [pipeline EXCEPT ![e] = "spawned"]
    /\ UNCHANGED <<system, authority, caller, artifacts, clean, ends>>

\* The group of a child that has exited is not found, or a drain cannot be
\* started: the child is ended by a thread of the spawner.
BindFails(e) ==
    /\ LoopFree /\ pipeline[e] = "binding"
    /\ \/ os[e] = "zombie" /\ UNCHANGED faults
       \/ Fault
    /\ pipeline' = [pipeline EXCEPT ![e] = "cleaning"]
    /\ clean' = [clean EXCEPT ![e] = "term"]
    /\ UNCHANGED <<up, rival, os, told, strays, authority, caller, artifacts, ends>>

\* The clean-up thread; nobody else waits for this child.
CleanSignals(e) ==
    /\ up /\ clean[e] \in {"term", "kill"}
    /\ LET sig == IF clean[e] = "term" THEN "TERM" ELSE "KILL"
       IN  told' = IF os[e] = "running" THEN [told EXCEPT ![e] = @ \cup {sig}] ELSE told
    /\ clean' = [clean EXCEPT ![e] = IF @ = "term" THEN "wait1" ELSE "wait2"]
    /\ UNCHANGED <<up, rival, os, strays, faults, authority, pipeline, caller,
                   artifacts, ends>>

CleanReaps(e) ==
    /\ up /\ clean[e] \in {"wait1", "wait2"} /\ os[e] = "zombie"
    /\ os' = [os EXCEPT ![e] = "gone"]
    /\ clean' = [clean EXCEPT ![e] = "reaped"]
    /\ UNCHANGED <<up, rival, told, strays, faults, authority, pipeline, caller,
                   artifacts, ends>>

CleanExpires(e) ==
    /\ up /\ clean[e] \in {"wait1", "wait2"}
    /\ clean' = [clean EXCEPT ![e] = IF @ = "wait1" THEN "kill" ELSE "unsafe"]
    /\ UNCHANGED <<system, authority, pipeline, caller, artifacts, ends>>

\* (mutant) A failed spawn gives its ticket back whether or not there is a child.
CleanEndsAndFrees(e) ==
    /\ LoopFree /\ pipeline[e] = "cleaning" /\ clean[e] \in {"reaped", "unsafe"}
    /\ pipeline' = [pipeline EXCEPT ![e] = "failed"]
    /\ held' = Nothing
    /\ UNCHANGED <<system, shutdown, aim, caller, artifacts, clean, ends>>

\* The record keeps the child, the descriptors and the authority.
CleanEnds(e) ==
    /\ LoopFree /\ pipeline[e] = "cleaning" /\ clean[e] \in {"reaped", "unsafe"}
    /\ pipeline' = [pipeline EXCEPT ![e] = "failed"]
    /\ UNCHANGED <<system, authority, caller, artifacts, clean, ends>>

Return(e) ==
    /\ LoopFree /\ caller[e] = "waiting" /\ pipeline[e] \in {"spawned", "failed"}
    /\ caller' = [caller EXCEPT ![e] = IF pipeline[e] = "spawned" THEN "returned"
                                                                   ELSE "raised"]
    /\ UNCHANGED <<system, authority, pipeline, artifacts, clean, ends>>

\* The deadline, or a cancellation: the pipeline goes on, and whatever it
\* spawns is ended.
GiveUp(e) ==
    /\ LoopFree /\ caller[e] = "waiting"
    /\ caller' = [caller EXCEPT ![e] = "gone"]
    /\ late' = [late EXCEPT ![e] = "pending"]
    /\ UNCHANGED <<system, authority, pipeline, artifacts, clean,
                   waiter, reaped, stop>>

\* await_ready: the server answered, its descriptors are not needed any more.
Ready(e) ==
    /\ LoopFree /\ caller[e] = "returned" /\ e \in artifacts
    /\ os[e] = "running" /\ e \notin reaped
    /\ artifacts' = artifacts \ {e}
    /\ UNCHANGED <<system, authority, pipeline, caller, clean, ends>>

-----------------------------------------------------------------------------
(* TERM, a wait, KILL, a wait: the same for the supervisor's stop, for the *)
(* clean-up of a late spawn and for the shutdown of the driver.            *)

\* Only the last child can be left when the driver shuts down.
LastOf(e) == pipeline[e] # "none" /\ \A f \in Launches : pipeline[f] # "none" => f <= e

Phase(e, by) == CASE by = "stop" -> stop[e]
                  [] by = "late" -> late[e]
                  [] OTHER -> IF LastOf(e) THEN shutdown ELSE "none"

MoveTo(e, by, step) ==
    /\ stop' = IF by = "stop" THEN [stop EXCEPT ![e] = step] ELSE stop
    /\ late' = IF by = "late" THEN [late EXCEPT ![e] = step] ELSE late
    /\ shutdown' = IF by = "shutdown" THEN step ELSE shutdown

Failed(by) == IF by = "shutdown" THEN "failed" ELSE "done"

Achieved(by) == IF by = "shutdown" THEN "close" ELSE "done"

SignalOf(phase) == IF phase = "term" THEN "TERM" ELSE "KILL"

\* _wait_record_reaped starts the one thread that waits for the child; a
\* child its spawner has reaped is not waited for.
AwaitEnd(e, by) ==
    /\ MoveTo(e, by, IF Phase(e, by) = "term" THEN "wait1" ELSE "wait2")
    /\ waiter' = [waiter EXCEPT ![e] = IF @ # "none" THEN @
                                       ELSE IF clean[e] = "reaped" THEN "published"
                                       ELSE "waiting"]

\* Each signal once, to a child whose group is known and that is running.
Due(e, sig) == /\ e \notin reaped
               /\ pipeline[e] = "spawned"
               /\ sig \notin told[e]
               /\ os[e] = "running"

\* _signal_record up to the last look at the child ...
Signal(e, by) ==
    /\ LoopFree /\ Phase(e, by) \in {"term", "kill"}
    /\ LET sig == SignalOf(Phase(e, by)) IN
       IF Due(e, sig)
       THEN /\ aim' = [launch |-> e, signal |-> sig, by |-> by]
            /\ UNCHANGED <<held, shutdown, ends>>
       ELSE /\ AwaitEnd(e, by)
            /\ UNCHANGED <<held, aim, reaped>>
    /\ UNCHANGED <<system, launch>>

\* ... and signal_exact, which reaches the child,
Delivered ==
    /\ up /\ aim # NoAim
    /\ LET e == aim.launch IN
       /\ os[e] = "running"
       /\ told' = [told EXCEPT ![e] = @ \cup {aim.signal}]
       /\ AwaitEnd(e, aim.by)
    /\ aim' = NoAim
    /\ UNCHANGED <<up, rival, os, strays, faults, held, launch, reaped>>

\* refuses, because the child has ended since,
Refused ==
    /\ up /\ aim # NoAim
    /\ LET e == aim.launch IN
       /\ os[e] \in {"zombie", "gone"}
       /\ MoveTo(e, aim.by, Failed(aim.by))
    /\ aim' = NoAim
    /\ UNCHANGED <<system, held, launch, waiter, reaped>>

\* or, when the child ends between the look and the kill, hits a zombie, or
\* the number of a child that the waiting thread has already reaped.
Missed ==
    /\ up /\ aim # NoAim
    /\ LET e == aim.launch IN
       /\ os[e] \in {"zombie", "gone"}
       /\ strays' = IF os[e] = "gone" THEN strays \cup {aim.signal} ELSE strays
       /\ \/ AwaitEnd(e, aim.by)
          \/ MoveTo(e, aim.by, Failed(aim.by)) /\ UNCHANGED waiter
    /\ aim' = NoAim
    /\ UNCHANGED <<up, rival, os, told, faults, held, launch, reaped>>

WaitEnds(e, by) ==
    /\ LoopFree /\ Phase(e, by) \in {"wait1", "wait2"} /\ e \in reaped
    /\ MoveTo(e, by, Achieved(by))
    /\ UNCHANGED <<system, held, aim, launch, waiter, reaped>>

\* (mutant) A late child gets one signal.
WaitExpiresOnce(e, by) ==
    /\ LoopFree /\ Phase(e, by) \in {"wait1", "wait2"}
    /\ by = "shutdown" => e \notin reaped
    /\ MoveTo(e, by, IF Phase(e, by) = "wait1" /\ by # "late" THEN "kill" ELSE Failed(by))
    /\ UNCHANGED <<system, held, aim, launch, waiter, reaped>>

WaitExpires(e, by) ==
    /\ LoopFree /\ Phase(e, by) \in {"wait1", "wait2"}
    /\ by = "shutdown" => e \notin reaped
    /\ MoveTo(e, by, IF Phase(e, by) = "wait1" THEN "kill" ELSE Failed(by))
    /\ UNCHANGED <<system, held, aim, launch, waiter, reaped>>

\* terminate_group, of a handle that start returned.
StopBegins(e) ==
    /\ LoopFree /\ caller[e] = "returned" /\ stop[e] = "none"
    /\ stop' = [stop EXCEPT ![e] = "term"]
    /\ UNCHANGED <<system, authority, launch, waiter, reaped, late>>

LateBegins(e) ==
    /\ LoopFree /\ late[e] = "pending" /\ pipeline[e] \in {"spawned", "failed"}
    /\ late' = [late EXCEPT ![e] = IF pipeline[e] = "failed" \/ e \in reaped THEN "done"
                                                                            ELSE "term"]
    /\ UNCHANGED <<system, authority, launch, waiter, reaped, stop>>

-----------------------------------------------------------------------------
(* The end of a child.                                                     *)

Exits(e) ==
    /\ os[e] = "running"
    /\ os' = [os EXCEPT ![e] = IF up THEN "zombie" ELSE "gone"]
    /\ told' = [told EXCEPT ![e] = {}]
    /\ UNCHANGED <<up, rival, strays, faults, authority, launch, ends>>

\* Popen.wait returns in its thread, and only then is the end published.
Waited(e) ==
    /\ up /\ waiter[e] = "waiting" /\ os[e] = "zombie"
    /\ os' = [os EXCEPT ![e] = "gone"]
    /\ waiter' = [waiter EXCEPT ![e] = "waited"]
    /\ UNCHANGED <<up, rival, told, strays, faults, authority, launch, reaped, late, stop>>

Published(e) ==
    /\ up /\ waiter[e] = "waited"
    /\ waiter' = [waiter EXCEPT ![e] = "published"]
    /\ UNCHANGED <<system, authority, launch, reaped, late, stop>>

\* _reap_record
Reap(e) ==
    /\ LoopFree /\ waiter[e] = "published" /\ e \notin reaped
    /\ reaped' = reaped \cup {e}
    /\ LetGo(e)
    /\ UNCHANGED <<up, rival, os, told, strays, shutdown, aim, pipeline, caller,
                   clean, waiter, late, stop>>

-----------------------------------------------------------------------------
(* shutdown_all, again when it failed.                                     *)

Shutdown ==
    /\ LoopFree /\ shutdown \in {"open", "failed"}
    /\ shutdown' = "spawns"
    /\ UNCHANGED <<system, held, aim, launch, ends>>

\* The spawns have ended: the child that is left, if any, is told to end.
SpawnsEnd ==
    /\ LoopFree /\ shutdown = "spawns"
    /\ \A e \in Launches : ~Running(e)
    /\ shutdown' =
           IF \E e \in Launches : os[e] # "none" /\ e \notin reaped THEN "term" ELSE "close"
    /\ UNCHANGED <<system, held, aim, launch, ends>>

SpawnsExpire ==
    /\ LoopFree /\ shutdown = "spawns"
    /\ \E e \in Launches : Running(e)
    /\ shutdown' = "failed"
    /\ UNCHANGED <<system, held, aim, launch, ends>>

\* (mutant) Descriptors that could not be closed are not tried again.
CloseKeeping ==
    /\ LoopFree /\ shutdown = "close"
    /\ held' = IF held \in reaped THEN Nothing ELSE held
    /\ shutdown' = IF held' = Nothing THEN "closed" ELSE "failed"
    /\ UNCHANGED <<system, aim, pipeline, caller, artifacts, clean, ends>>

\* What could not be closed or released before is tried again; the authority
\* is closed only when nothing holds it.
Close ==
    /\ LoopFree /\ shutdown = "close"
    /\ artifacts' = {}
    /\ held' = IF held \in reaped THEN Nothing ELSE held
    /\ shutdown' = IF held' = Nothing THEN "closed" ELSE "failed"
    /\ UNCHANGED <<system, aim, pipeline, caller, clean, ends>>

CloseFails ==
    /\ LoopFree /\ shutdown = "close"
    /\ artifacts \cap Launches # {} \/ held \in reaped
    /\ Fault
    /\ shutdown' = "failed"
    /\ UNCHANGED <<up, rival, os, told, strays, held, aim, launch, ends>>

\* The server is killed: its memory, its threads and its lock are gone, its
\* child is not.
Die ==
    /\ up /\ MayDie
    /\ up' = FALSE
    /\ os' = [e \in Launches |-> IF os[e] = "zombie" THEN "gone" ELSE os[e]]
    /\ held' = Nothing /\ shutdown' = "open" /\ aim' = NoAim
    /\ pipeline' = [e \in Launches |-> "none"]
    /\ caller' = [e \in Launches |-> "none"]
    /\ artifacts' = {}
    /\ clean' = [e \in Launches |-> "none"]
    /\ waiter' = [e \in Launches |-> "none"]
    /\ reaped' = {}
    /\ late' = [e \in Launches |-> "none"]
    /\ stop' = [e \in Launches |-> "none"]
    /\ UNCHANGED <<rival, told, strays, faults>>

\* Another server over the same runtime root takes the lock file for its
\* child, and gives it back.
RivalStarts ==
    /\ held = Nothing /\ ~rival
    /\ rival' = TRUE
    /\ UNCHANGED <<up, os, told, strays, faults, authority, launch, ends>>

RivalEnds ==
    /\ rival
    /\ rival' = FALSE
    /\ UNCHANGED <<up, os, told, strays, faults, authority, launch, ends>>

-----------------------------------------------------------------------------

Users == {"stop", "late", "shutdown"}

Threads(e) == Create(e) \/ CleanSignals(e) \/ CleanReaps(e) \/ CleanExpires(e)
              \/ Waited(e) \/ Published(e)

Loop(e) == \/ Checked(e) \/ NothingCreated(e) \/ Bind(e) \/ BindFails(e) \/ CleanEnds(e)
           \/ Return(e) \/ LateBegins(e) \/ Reap(e)

ShutsDown == Shutdown \/ SpawnsEnd \/ SpawnsExpire \/ Close \/ CloseFails

Ending(e, by) == Signal(e, by) \/ WaitEnds(e, by) \/ WaitExpires(e, by)

Next ==
    \/ Start \/ Delivered \/ Refused \/ Missed \/ ShutsDown
    \/ \E e \in Launches : Loop(e) \/ Threads(e) \/ GiveUp(e) \/ Ready(e) \/ StopBegins(e)
    \/ \E e \in Launches, by \in Users : Ending(e, by)
    \/ \E e \in Launches : Exits(e)
    \/ Die \/ RivalStarts \/ RivalEnds

Spec == Init /\ [][Next]_vars

\* Threads and tasks run, waits with a deadline end, a killed child ends, and
\* a shutdown that failed is asked for again.
Fairness ==
    /\ WF_vars(\E e \in Launches : Threads(e))
    /\ WF_vars(\E e \in Launches : Loop(e))
    /\ WF_vars(\E e \in Launches : "KILL" \in told[e] /\ Exits(e))
    /\ \A by \in Users : WF_vars(\E e \in Launches : Ending(e, by))
    /\ WF_vars(Delivered \/ Refused \/ Missed)
    /\ WF_vars(shutdown # "open" /\ ShutsDown)

FairSpec == Spec /\ Fairness

-----------------------------------------------------------------------------

\* While the server lives, whatever fails or comes late, the launch that has a
\* child owns the authority and with it the lock file.
HeldWhileChild == \A e \in Launches : Unreaped(e) => held = e

\* Servers that are alive never have two children between them.
OneChild == \A e \in Launches : Unreaped(e) =>
                /\ ~rival
                /\ \A f \in Launches : Unreaped(f) => e = f

\* A shutdown that succeeds leaves no child, no open artifact and no lock.
ClosedLeavesNothing ==
    up /\ shutdown = "closed" =>
        /\ held = Nothing
        /\ \A e \in Launches : ~Unreaped(e) /\ e \notin artifacts

\* The ticket of a launch without a child could not be released: nothing
\* tries again (see NothingCreated and Close).
TicketLost == \E e \in Launches : held = e /\ pipeline[e] = "failed" /\ os[e] = "none"

\* A child that was spawned after its caller had given up.
Abandoned == \E e \in Launches : caller[e] = "gone" /\ pipeline[e] = "spawned"
                                 /\ os[e] = "running"

\* Whatever was started comes to an end: a shutdown that is repeated succeeds,
\* unless a ticket is lost; and a child nobody waits for is ended.
AllIsEnded ==
    /\ shutdown = "spawns" ~> shutdown = "closed" \/ ~up \/ TicketLost
    /\ Abandoned ~> ~Abandoned

\* It is also reaped, and its authority released (not when it exits just
\* before it is told to: the clean-up stops at the refused signal).
AbandonedIsReaped ==
    \A e \in Launches : caller[e] = "gone" /\ pipeline[e] = "spawned" ~>
        os[e] = "gone" \/ ~up

\* Every signal goes to the child it was meant for (a KILL need not, when it
\* races with the thread that waits for the child).
SignalsAreExact == strays = {}

\* One model process at a time on the machine (not after a server is killed).
OneModel == \A e \in Launches : os[e] = "running" =>
                /\ ~rival
                /\ \A f \in Launches : os[f] = "running" => e = f
=============================================================================
