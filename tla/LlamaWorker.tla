---------------------------- MODULE LlamaWorker ----------------------------
(***************************************************************************)
(* Supervision of the one model process: ManagedLlamaWorker and            *)
(* WorkerLaunchAuthority (app/llama_worker.py) over the process driver     *)
(* app/macos_worker_driver.py.  The actions are composed with their        *)
(* callers in LivePreparation.                                             *)
(*                                                                         *)
(* Everything runs in one event loop, so an action is the code between two *)
(* awaits.  Time is what a deadline distinguishes: each user of the worker *)
(* is inside its live window (8 s), between it and the end of its          *)
(* preparation window (10 s), or past both, and time passes at any moment. *)
(*                                                                         *)
(* Abstracted: ports, argv, identities and digests of the child, which the *)
(* code checks for tampering and which are always right here; the one      *)
(* controller of the process (no second owner of the launch authority).    *)
(***************************************************************************)
EXTENDS Naturals, FiniteSets

CONSTANTS
    Preps,      \* preparations that use the worker
    Closer,     \* the shutdown of the server
    NoOne,
    MaxEpoch,   \* bound: launches of the model process
    MaxCrashes  \* bound: children that die of themselves

Users == Preps \cup {Closer}

ASSUME WorkerAssumption ==
    /\ Closer \notin Preps
    /\ NoOne \notin Users
    /\ MaxEpoch \in Nat \ {0}
    /\ MaxCrashes \in Nat

VARIABLES
    \* ManagedLlamaWorker
    state,      \* WorkerState
    epoch,      \* number of the last reserved epoch
    lease,      \* who holds the active generation lease
    stop,       \* the stop in progress: for whom, how far, by which deadline
    receipt,    \* what a user's stop ended with
    \* WorkerLaunchAuthority
    authority,
    \* the driver and its children, one per epoch
    child, signalled, driverClosed, crashes,
    working,    \* prompts a child is still evaluating
    \* the clock
    window

controller == <<state, epoch, lease, stop, receipt, authority>>
driver == <<child, signalled, driverClosed, crashes, working>>

Epochs == 1..MaxEpoch
NoStop == [by |-> NoOne, stage |-> "none", bound |-> "whole"]

\* Children the operating system still knows.
Unreaped == {e \in Epochs : child[e] \in {"spawning", "running", "ready", "exited"}}

\* A deadline is a user's live window or its whole preparation window.
Elapsed(u, bound) == IF bound = "live" THEN window[u] # "live"
                                       ELSE window[u] = "over"

WorkerTypeOK ==
    /\ state \in {"stopped", "starting", "ready", "busy", "stopping", "quarantined"}
    /\ epoch \in 0..MaxEpoch
    /\ lease \in Preps \cup {NoOne}
    /\ stop \in [by : Users \cup {NoOne}, stage : {"none", "begin", "term", "kill"},
                 bound : {"live", "whole"}]
    /\ receipt \in [Users -> {"none", "reaped", "lost"}]
    /\ authority \in {"free", "reserved", "spawned", "quarantined"}
    /\ child \in [Epochs -> {"absent", "spawning", "running", "ready", "exited", "reaped"}]
    /\ signalled \subseteq Epochs
    /\ driverClosed \in BOOLEAN
    /\ crashes \in 0..MaxCrashes
    /\ working \subseteq Preps
    /\ window \in [Users -> {"live", "fallback", "over"}]

WorkerInit ==
    /\ state = "stopped"
    /\ epoch = 0
    /\ lease = NoOne
    /\ stop = NoStop
    /\ receipt = [u \in Users |-> "none"]
    /\ authority = "free"
    /\ child = [e \in Epochs |-> "absent"]
    /\ signalled = {}
    /\ driverClosed = FALSE
    /\ crashes = 0
    /\ working = {}
    /\ window = [u \in Users |-> IF u = Closer THEN "fallback" ELSE "live"]

-----------------------------------------------------------------------------
(* begin_preparation, from one await to the next.                          *)

StartEpoch == /\ state = "stopped"
              /\ epoch < MaxEpoch
              /\ state' = "starting"
              /\ authority' = "reserved"
              /\ epoch' = epoch + 1
              /\ UNCHANGED <<lease, stop, receipt, driver>>

\* (mutant) The authority is given back, the worker keeps its state.
AbandonHalfway == /\ authority' = "free"
                  /\ UNCHANGED <<state, epoch, lease, stop, receipt, driver>>

\* Nothing was launched: the authority is given back.
AbandonEpoch == /\ state' = "stopped"
                /\ authority' = "free"
                /\ UNCHANGED <<epoch, lease, stop, receipt, driver>>

Quarantine == /\ state' = "quarantined"
              /\ authority' = "quarantined"
              /\ UNCHANGED <<epoch, lease, stop, receipt>>

\* The driver reserves its ticket and begins to spawn, unless it is closed
\* or still owns another child.
Launch == /\ ~driverClosed
          /\ Unreaped = {}
          /\ child' = [child EXCEPT ![epoch] = "spawning"]
          /\ UNCHANGED <<controller, signalled, driverClosed, crashes, working>>

LaunchRefused == /\ driverClosed \/ Unreaped # {}
                 /\ Quarantine
                 /\ UNCHANGED driver

SpawnedInTime == /\ child[epoch] = "spawning"
                 /\ child' = [child EXCEPT ![epoch] = "running"]
                 /\ authority' = "spawned"
                 /\ UNCHANGED <<state, epoch, lease, stop, receipt, signalled,
                                driverClosed, crashes, working>>

\* An exception of the launcher: it proves nothing about a child.
SpawnFails == /\ child[epoch] = "spawning"
              /\ \E s \in {"absent", "running"} : child' = [child EXCEPT ![epoch] = s]
              /\ Quarantine
              /\ UNCHANGED <<signalled, driverClosed, crashes, working>>

\* The deadline, or a cancellation: the spawn goes on without its caller.
SpawnAbandoned == Quarantine /\ UNCHANGED driver

BecomeReady == /\ child[epoch] = "running"
               /\ child' = [child EXCEPT ![epoch] = "ready"]
               /\ state' = "ready"
               /\ UNCHANGED <<epoch, lease, stop, receipt, authority, signalled,
                              driverClosed, crashes, working>>

StopFor(u, bound) ==
    /\ state' = "stopping"
    /\ stop' = [by |-> u, stage |-> "begin", bound |-> bound]
    /\ UNCHANGED <<epoch, lease, receipt, authority, driver>>

-----------------------------------------------------------------------------
(* Leases.                                                                 *)

\* acquire, transport_authority_for and the start of the HTTP exchange.
GrantLease(p) == /\ state' = "busy"
                 /\ lease' = p
                 /\ working' = working \cup {p}
                 /\ UNCHANGED <<epoch, stop, receipt, authority, child, signalled,
                                driverClosed, crashes>>

HoldsLease(p) == state = "busy" /\ lease = p

ConfirmComplete(p) == /\ state' = "ready"
                      /\ lease' = NoOne
                      /\ working' = working \ {p}
                      /\ UNCHANGED <<epoch, stop, receipt, authority, child, signalled,
                                     driverClosed, crashes>>

-----------------------------------------------------------------------------
(* _stop_current: TERM, a grace period, KILL, the caller's deadline.       *)

StopSignals == /\ stop.stage = "begin"
               /\ signalled' = signalled \cup {epoch}
               /\ stop' = [stop EXCEPT !.stage = "term"]
               /\ UNCHANGED <<state, epoch, lease, receipt, authority, child,
                              driverClosed, crashes, working>>

\* The grace period is over, or the deadline is.
StopEscalates == /\ stop.stage = "term"
                 /\ stop' = [stop EXCEPT !.stage = "kill"]
                 /\ UNCHANGED <<state, epoch, lease, receipt, authority, driver>>

\* _accept_stop_receipt
AcceptReceipt == /\ state' = "stopped"
                 /\ authority' = "free"
                 /\ lease' = NoOne
                 /\ stop' = NoStop
                 /\ receipt' = [receipt EXCEPT ![stop.by] = "reaped"]
                 /\ UNCHANGED epoch

\* The exact child was waited for before the deadline.
StopReaps == /\ stop.stage \in {"term", "kill"}
             /\ ~Elapsed(stop.by, stop.bound)
             /\ child[epoch] \in {"exited", "reaped"}
             /\ child' = [child EXCEPT ![epoch] = "reaped"]
             /\ AcceptReceipt
             /\ UNCHANGED <<signalled, driverClosed, crashes, working>>

\* (mutant) A killed child counts as gone.
StopTrustsKill == /\ stop.stage = "kill"
                  /\ Elapsed(stop.by, stop.bound)
                  /\ AcceptReceipt
                  /\ UNCHANGED driver

\* (mutant) The kill is waited for without a deadline.
StopHangs == /\ stop.stage = "kill"
             /\ Elapsed(stop.by, stop.bound)
             /\ child[epoch] \in {"exited", "reaped"}
             /\ state' = "quarantined"
             /\ authority' = "quarantined"
             /\ stop' = NoStop
             /\ receipt' = [receipt EXCEPT ![stop.by] = "lost"]
             /\ UNCHANGED <<epoch, lease, driver>>

\* No proof of the child's end: nothing is ever launched again.
StopExpires == /\ stop.stage = "kill"
               /\ Elapsed(stop.by, stop.bound)
               /\ state' = "quarantined"
               /\ authority' = "quarantined"
               /\ stop' = NoStop
               /\ receipt' = [receipt EXCEPT ![stop.by] = "lost"]
               /\ UNCHANGED <<epoch, lease, driver>>

-----------------------------------------------------------------------------
(* The driver's children.                                                  *)

\* The driver's late cleanup terminates a child nobody waits for, unless the
\* spawn itself failed ...
SpawnedLate(e) == /\ state = "quarantined"
                  /\ child[e] = "spawning"
                  /\ \/ /\ child' = [child EXCEPT ![e] = "running"]
                        /\ signalled' = signalled \cup {e}
                     \/ /\ \E s \in {"absent", "running"} : child' = [child EXCEPT ![e] = s]
                        /\ UNCHANGED signalled
                  /\ UNCHANGED <<controller, driverClosed, crashes, working>>

\* ... and the reap task it or an expired stop began outlives its caller.
ReapedLate(e) == /\ state = "quarantined"
                 /\ child[e] = "exited" /\ e \in signalled
                 /\ child' = [child EXCEPT ![e] = "reaped"]
                 /\ UNCHANGED <<controller, signalled, driverClosed, crashes, working>>

\* A child ends because it was told to, or because it crashes.
Exits(e) == /\ child[e] \in {"running", "ready"}
            /\ \/ e \in signalled /\ UNCHANGED crashes
               \/ /\ e \notin signalled
                  /\ crashes < MaxCrashes
                  /\ crashes' = crashes + 1
            /\ child' = [child EXCEPT ![e] = "exited"]
            /\ working' = {}
            /\ UNCHANGED <<controller, signalled, driverClosed>>

\* shutdown_all
CloseDriver == /\ driverClosed' = TRUE
               /\ UNCHANGED <<controller, child, signalled, crashes, working>>

SweepSignals == /\ \A e \in Epochs : child[e] # "spawning"
                /\ signalled' = signalled \cup Unreaped
                /\ UNCHANGED <<controller, child, driverClosed, crashes, working>>

\* (mutant) A child told to end counts as reaped.
SweepTrustsSignals == UNCHANGED <<controller, driver>>

SweepReaps == /\ \A e \in Unreaped : child[e] = "exited"
              /\ child' = [e \in Epochs |-> IF e \in Unreaped THEN "reaped" ELSE child[e]]
              /\ UNCHANGED <<controller, signalled, driverClosed, crashes, working>>
=============================================================================
