-------------------------- MODULE LivePreparation --------------------------
(***************************************************************************)
(* Preparing a quiz batch across its awaits: _prepare of                   *)
(* app/battle_preparation.py, BatchPreparationOrchestrator.prepare of      *)
(* app/orchestrator.py, LlamaCppProvider.generate_before and the           *)
(* process-wide gate of app/providers/llama_cpp.py, over the supervised    *)
(* worker of LlamaWorker and the preparation rows of app/quiz_store.py.    *)
(*                                                                         *)
(* A preparation (pc) starts the worker, asks for one item after another   *)
(* with two attempts each, and fills what is missing from the reviewed     *)
(* cache.  Each request for an item is a task of its own (call), which     *)
(* waits for the gate, leases the worker, posts, and gives the lease back  *)
(* or has the worker stopped.  The learner meanwhile opens another         *)
(* session, finishes battles or deletes the profile; the server may cancel *)
(* requests and shut down.                                                 *)
(*                                                                         *)
(* Abstracted: which battle may be prepared (module Campaign), the content *)
(* of items and their verification, which may always fail.                 *)
(***************************************************************************)
EXTENDS LlamaWorker, Sequences

CONSTANTS
    RequestIds,
    NumSlots,
    CacheMisses,    \* whether the reviewed cache may lack an item
    MaxSession,     \* bound: sessions the learner opens
    MaxCancels,     \* bound: requests the server cancels
    MayDelete,      \* bound: whether the learner deletes the profile
    MayClose        \* bound: whether the server shuts down

ASSUME PreparationAssumption ==
    /\ NumSlots \in Nat \ {0}
    /\ CacheMisses \in BOOLEAN
    /\ MaxSession \in Nat \ {0}
    /\ MaxCancels \in Nat
    /\ MayDelete \in BOOLEAN /\ MayClose \in BOOLEAN

VARIABLES
    \* the orchestrator
    pc, request, slot, attempt, reply,
    gone,       \* preparations whose caller was cancelled while the worker stops
    \* the provider
    call, result,
    cut,        \* calls that were cancelled
    holder,     \* the owner of the gate
    queue,      \* its waiters
    \* the database
    session, profile,
    receipts,   \* requests with a stored batch
    open,       \* requests whose batch is not closed
    \* the server
    closing, cancels

preparation == <<pc, slot, attempt, reply, gone>>
orchestrator == <<preparation, request>>
provider == <<call, result, cut, holder, queue>>
database == <<session, profile, receipts, open>>
worker == <<controller, driver>>
vars == <<worker, window, orchestrator, provider, database, closing, cancels>>

Sessions == 1..MaxSession
Requests == [id : RequestIds, session : Sessions]
NoRequest == [id |-> NoOne, session |-> 0]

Idle(p) == call[p] \in {"none", "done"}

TypeOK ==
    /\ WorkerTypeOK
    /\ pc \in [Preps -> {"idle", "verifying", "spawning", "readying", "stopping",
                         "revoking", "generating", "cancelling", "waiting", "ended"}]
    /\ request \in [Preps -> Requests \cup {NoRequest}]
    /\ slot \in [Preps -> 1..NumSlots]
    /\ attempt \in [Preps -> 1..2]
    /\ reply \in [Preps -> {"none", "batch", "session_not_current", "quiz_in_progress",
                            "idempotency_conflict", "safe_content_unavailable", "cancelled"}]
    /\ gone \subseteq Preps
    /\ call \in [Preps -> {"none", "created", "queued", "posting", "aborting", "done"}]
    /\ result \in [Preps -> {"none", "response", "soft", "hard", "late", "cancelled"}]
    /\ cut \subseteq Preps
    /\ holder \in Preps \cup {NoOne}
    /\ queue \in Seq(Preps)
    /\ session \in Sessions
    /\ profile \in {"present", "deleted"}
    /\ receipts \subseteq Requests
    /\ open \subseteq receipts
    /\ closing \in {"no", "stopping", "closing", "sweeping", "done", "incomplete"}
    /\ cancels \in 0..MaxCancels

Init ==
    /\ WorkerInit
    /\ pc = [p \in Preps |-> "idle"]
    /\ request = [p \in Preps |-> NoRequest]
    /\ slot = [p \in Preps |-> 1]
    /\ attempt = [p \in Preps |-> 1]
    /\ reply = [p \in Preps |-> "none"]
    /\ gone = {}
    /\ call = [p \in Preps |-> "none"]
    /\ result = [p \in Preps |-> "none"]
    /\ cut = {}
    /\ holder = NoOne
    /\ queue = <<>>
    /\ session = 1
    /\ profile = "present"
    /\ receipts = {}
    /\ open = {}
    /\ closing = "no"
    /\ cancels = 0

-----------------------------------------------------------------------------
(* Moves of a preparation.  They leave the worker to the action that uses  *)
(* them.                                                                   *)

Goto(p, l) == /\ pc' = [pc EXCEPT ![p] = l]
              /\ UNCHANGED <<slot, attempt, reply, gone>>

End(p, r) == /\ pc' = [pc EXCEPT ![p] = "ended"]
             /\ reply' = [reply EXCEPT ![p] = r]
             /\ gone' = gone \ {p}
             /\ slot' = [slot EXCEPT ![p] = 1]
             /\ attempt' = [attempt EXCEPT ![p] = 1]

Fail(p) == End(p, "safe_content_unavailable")

\* _generate_before creates the task of the next attempt and waits for it.
Ask(p, s, a) == /\ pc' = [pc EXCEPT ![p] = "generating"]
                /\ slot' = [slot EXCEPT ![p] = s]
                /\ attempt' = [attempt EXCEPT ![p] = a]
                /\ call' = [call EXCEPT ![p] = "created"]
                /\ result' = [result EXCEPT ![p] = "none"]
                /\ UNCHANGED <<reply, gone, cut, holder, queue>>

\* The next item, unless no candidate for it can be written.
AskItem(p, s) == \/ Ask(p, s, 1)
                 \/ Goto(p, "waiting") /\ UNCHANGED provider

\* _authenticate
Current(p) == profile = "present" /\ request[p].session = session

\* A request id that was used with another payload.
Conflicts(q) == \E r \in receipts : r.id = q.id /\ r # q

Answer(p) == End(p, IF Current(p) THEN "batch" ELSE "session_not_current")

\* create_prepared, the second authentication and the answer.
Save(p) ==
    LET q == request[p] IN
    \/ /\ q \in receipts
       /\ Answer(p)
       /\ UNCHANGED database
    \/ /\ Conflicts(q)
       /\ End(p, "idempotency_conflict")
       /\ UNCHANGED database
    \/ /\ q \notin receipts /\ ~Conflicts(q) /\ open # {}
       /\ End(p, "quiz_in_progress")
       /\ UNCHANGED database
    \/ /\ q \notin receipts /\ ~Conflicts(q) /\ open = {}
       /\ receipts' = receipts \cup {q}
       /\ open' = open \cup {q}
       /\ Answer(p)
       /\ UNCHANGED <<session, profile>>

-----------------------------------------------------------------------------
(* Before generation.                                                      *)

\* _begin_provider_preparation up to the first await of the worker.
StartWorker(p) ==
    \/ /\ state = "ready"
       /\ AskItem(p, 1)
       /\ UNCHANGED worker
    \/ /\ StartEpoch
       /\ Goto(p, "verifying")
       /\ UNCHANGED provider
    \/ /\ state \notin {"ready", "stopped"}
       /\ Fail(p)
       /\ UNCHANGED <<worker, provider>>

\* The learner asks for the battle in the session then open.
Begin(p, id) ==
    LET q == [id |-> id, session |-> session] IN
    /\ pc[p] = "idle" /\ closing = "no"
    /\ request' = [request EXCEPT ![p] = q]
    /\ \/ /\ profile = "deleted"
          /\ End(p, "session_not_current")
          /\ UNCHANGED <<worker, provider>>
       \/ /\ profile = "present" /\ q \in receipts
          /\ End(p, "batch")
          /\ UNCHANGED <<worker, provider>>
       \/ /\ profile = "present" /\ Conflicts(q)
          /\ End(p, "idempotency_conflict")
          /\ UNCHANGED <<worker, provider>>
       \/ /\ profile = "present" /\ q \notin receipts /\ ~Conflicts(q) /\ open # {}
          /\ End(p, "quiz_in_progress")
          /\ UNCHANGED <<worker, provider>>
       \/ /\ profile = "present" /\ q \notin receipts /\ ~Conflicts(q) /\ open = {}
          /\ StartWorker(p)
    /\ UNCHANGED <<window, database, closing, cancels>>

\* The artifacts are hashed; a mismatch or the deadline only costs the live items.
Verified(p) ==
    /\ pc[p] = "verifying"
    /\ \/ window[p] = "live" /\ Launch /\ Goto(p, "spawning")
       \/ window[p] = "live" /\ LaunchRefused /\ Fail(p)
       \/ AbandonEpoch /\ Goto(p, "waiting")
    /\ UNCHANGED <<window, request, provider, database, closing, cancels>>

\* driver.start: a handle in time, or nothing that can be trusted.
Spawned(p) ==
    /\ pc[p] = "spawning"
    /\ \/ window[p] = "live" /\ SpawnedInTime /\ Goto(p, "readying")
       \/ window[p] = "live" /\ SpawnFails /\ Fail(p)
       \/ window[p] # "live" /\ SpawnAbandoned /\ Fail(p)
    /\ UNCHANGED <<window, request, provider, database, closing, cancels>>

Answered(p) == window[p] = "live" /\ BecomeReady /\ AskItem(p, 1)

\* The child died after its readiness proof: its authority cannot be resolved.
DiedReady(p) == /\ window[p] = "live" /\ child[epoch] = "exited"
                /\ StopFor(p, "live") /\ Goto(p, "revoking") /\ UNCHANGED provider

\* Not ready, too late, or dead.  The stop has the deadline the start had.
NotReady(p) == StopFor(p, "live") /\ Goto(p, "stopping") /\ UNCHANGED provider

Readiness(p) ==
    /\ pc[p] = "readying"
    /\ Answered(p) \/ DiedReady(p) \/ NotReady(p)
    /\ UNCHANGED <<window, request, database, closing, cancels>>

\* _await_stop returns.  A worker that was reaped is only unavailable.
StopReturns(p) ==
    /\ pc[p] \in {"stopping", "revoking"}
    /\ receipt[p] # "none"
    /\ receipt' = [receipt EXCEPT ![p] = "none"]
    /\ \/ receipt[p] = "lost" /\ Fail(p)
       \/ receipt[p] = "reaped" /\ p \in gone /\ End(p, "cancelled")
       \/ receipt[p] = "reaped" /\ p \notin gone /\ pc[p] = "revoking" /\ Fail(p)
       \/ receipt[p] = "reaped" /\ p \notin gone /\ pc[p] = "stopping" /\ Goto(p, "waiting")
    /\ UNCHANGED <<state, epoch, lease, stop, authority, driver, window, request,
                   provider, database, closing, cancels>>

-----------------------------------------------------------------------------
(* One call of the provider.                                               *)

\* The call is over and gives the gate back.
Return(p, r) == /\ call' = [call EXCEPT ![p] = "done"]
                /\ result' = [result EXCEPT ![p] = r]
                /\ cut' = cut \ {p}
                /\ holder' = IF holder = p THEN NoOne ELSE holder
                /\ queue' = SelectSeq(queue, LAMBDA q : q # p)

\* worker.acquire fails, each time with the gate held for a moment.
NoLease(p) ==
    \/ /\ window[p] # "live"
       /\ Return(p, "soft")
       /\ UNCHANGED worker
    \/ /\ window[p] = "live" /\ state = "stopped"
       /\ Return(p, "soft")
       /\ UNCHANGED worker
    \/ /\ window[p] = "live" /\ state \in {"starting", "busy", "stopping", "quarantined"}
       /\ Return(p, "hard")
       /\ UNCHANGED worker
    \/ /\ window[p] = "live" /\ state = "ready" /\ child[epoch] # "ready"
       /\ Quarantine /\ UNCHANGED driver
       /\ Return(p, "hard")

UseWorker(p) ==
    \/ NoLease(p)
    \/ /\ window[p] = "live" /\ state = "ready" /\ child[epoch] = "ready"
       /\ GrantLease(p)
       /\ call' = [call EXCEPT ![p] = "posting"]
       /\ holder' = p
       /\ queue' = SelectSeq(queue, LAMBDA q : q # p)
       /\ UNCHANGED <<result, cut>>

\* The task runs for the first time.
CallStarts(p) ==
    /\ call[p] = "created"
    /\ \/ p \in cut /\ Return(p, "cancelled") /\ UNCHANGED worker
       \/ p \notin cut /\ window[p] # "live" /\ Return(p, "late") /\ UNCHANGED worker
       \/ /\ p \notin cut /\ window[p] = "live"
          /\ IF holder = NoOne /\ queue = <<>>
             THEN UseWorker(p)
             ELSE /\ call' = [call EXCEPT ![p] = "queued"]
                  /\ queue' = Append(queue, p)
                  /\ UNCHANGED <<worker, result, cut, holder>>
    /\ UNCHANGED <<window, orchestrator, database, closing, cancels>>

\* A waiter is cancelled, or is first in line at a free gate.
GateOpens(p) ==
    /\ call[p] = "queued"
    /\ \/ p \in cut /\ Return(p, "cancelled") /\ UNCHANGED worker
       \/ p \notin cut /\ holder = NoOne /\ Head(queue) = p /\ UseWorker(p)
    /\ UNCHANGED <<window, orchestrator, database, closing, cancels>>

\* A whole response.  Its content may still be unusable.
Responds(p) ==
    /\ call[p] = "posting" /\ p \notin cut
    /\ p \in working /\ child[epoch] = "ready"
    /\ \/ /\ HoldsLease(p)
          /\ ConfirmComplete(p)
          /\ \E r \in {"response", "soft"} : Return(p, r)
       \/ /\ ~HoldsLease(p)
          /\ Return(p, IF lease = p THEN "soft" ELSE "hard")
          /\ working' = working \ {p}
          /\ UNCHANGED <<controller, child, signalled, driverClosed, crashes>>
    /\ UNCHANGED <<window, orchestrator, database, closing, cancels>>

\* (mutant) The lease of a broken exchange is confirmed like a complete one.
ConfirmsAnyway(p) ==
    /\ call[p] = "posting"
    /\ HoldsLease(p)
    /\ state' = "ready" /\ lease' = NoOne
    /\ UNCHANGED <<epoch, stop, receipt, authority, driver>>
    /\ Return(p, IF p \in cut THEN "cancelled" ELSE "soft")
    /\ UNCHANGED <<window, orchestrator, database, closing, cancels>>

\* A transport error or a cancellation: the worker is stopped, unless the
\* deadline for that is over or somebody else stops it.
Aborts(p) ==
    /\ call[p] = "posting"
    /\ \/ /\ ~Elapsed(p, "whole") /\ HoldsLease(p)
          /\ StopFor(p, "whole")
          /\ call' = [call EXCEPT ![p] = "aborting"]
          /\ UNCHANGED <<result, cut, holder, queue>>
       \/ /\ Elapsed(p, "whole") \/ (lease = p /\ ~HoldsLease(p))
          /\ Return(p, "soft") /\ UNCHANGED worker
       \/ /\ ~Elapsed(p, "whole") /\ lease # p
          /\ Return(p, "hard") /\ UNCHANGED worker
    /\ UNCHANGED <<window, orchestrator, database, closing, cancels>>

\* _abort_worker returns.
Aborted(p) ==
    /\ call[p] = "aborting"
    /\ receipt[p] # "none"
    /\ receipt' = [receipt EXCEPT ![p] = "none"]
    /\ Return(p, IF receipt[p] = "lost" THEN "hard"
                 ELSE IF p \in cut THEN "cancelled" ELSE "soft")
    /\ UNCHANGED <<state, epoch, lease, stop, authority, driver, window,
                   orchestrator, database, closing, cancels>>

-----------------------------------------------------------------------------
(* The orchestrator and the call it waits for.                             *)

NextAttempt(p) ==
    \/ attempt[p] = 1 /\ Ask(p, slot[p], 2)
    \/ Goto(p, "waiting") /\ UNCHANGED provider

\* The call ended inside the live window.
Collect(p) ==
    /\ pc[p] = "generating" /\ call[p] = "done" /\ window[p] = "live"
    /\ \/ /\ result[p] = "response" /\ slot[p] < NumSlots     \* accepted
          /\ AskItem(p, slot[p] + 1)
          /\ UNCHANGED database
       \/ /\ result[p] = "response" /\ slot[p] = NumSlots     \* the last one
          /\ Save(p)
          /\ UNCHANGED provider
       \/ /\ result[p] \in {"response", "soft"}               \* rejected
          /\ NextAttempt(p)
          /\ UNCHANGED database
       \/ /\ result[p] = "hard"
          /\ Fail(p)
          /\ UNCHANGED <<provider, database>>
    /\ UNCHANGED <<worker, window, request, closing, cancels>>

\* (mutant) The late call is cancelled but not waited for.
ExpireAtOnce(p) ==
    /\ pc[p] = "generating" /\ window[p] # "live"
    /\ Goto(p, "waiting")
    /\ cut' = IF call[p] = "done" THEN cut ELSE cut \cup {p}
    /\ UNCHANGED <<worker, window, request, call, result, holder, queue, database,
                   closing, cancels>>

\* The live window is over: a late result is dropped, a late call cancelled.
Expire(p) ==
    /\ pc[p] = "generating" /\ window[p] # "live"
    /\ \/ call[p] = "done" /\ Goto(p, "waiting") /\ UNCHANGED cut
       \/ call[p] # "done" /\ Goto(p, "cancelling") /\ cut' = cut \cup {p}
    /\ UNCHANGED <<worker, window, request, call, result, holder, queue, database,
                   closing, cancels>>

\* _cancel_and_ack: the call must end, as cancelled, before the deadline.
Acknowledge(p) ==
    /\ pc[p] = "cancelling"
    /\ \/ call[p] = "done" /\ result[p] = "cancelled" /\ Goto(p, "waiting")
       \/ call[p] = "done" /\ result[p] # "cancelled" /\ Fail(p)
       \/ call[p] # "done" /\ window[p] = "over" /\ Fail(p)
    /\ UNCHANGED <<worker, window, request, provider, database, closing, cancels>>

\* What is missing comes from the reviewed cache, once the live window is over.
Fallback(p) ==
    /\ pc[p] = "waiting" /\ window[p] # "live"
    /\ \/ window[p] = "over" /\ Fail(p) /\ UNCHANGED database
       \/ window[p] = "fallback" /\ CacheMisses /\ Fail(p) /\ UNCHANGED database
       \/ window[p] = "fallback" /\ Save(p)
    /\ UNCHANGED <<worker, window, request, provider, closing, cancels>>

\* The server cancels the request.  Each await answers in its own way.
CancelAwait(p) ==
    \/ /\ pc[p] = "verifying"                   \* swallowed
       /\ AbandonEpoch /\ Goto(p, "waiting") /\ UNCHANGED provider
    \/ /\ pc[p] = "spawning"
       /\ SpawnAbandoned /\ Fail(p) /\ UNCHANGED provider
    \/ /\ pc[p] = "readying"
       /\ StopFor(p, "live")
       /\ pc' = [pc EXCEPT ![p] = "stopping"] /\ gone' = gone \cup {p}
       /\ UNCHANGED <<slot, attempt, reply, provider>>
    \/ /\ pc[p] \in {"stopping", "revoking"}    \* shielded
       /\ gone' = gone \cup {p}
       /\ UNCHANGED <<worker, pc, slot, attempt, reply, provider>>
    \/ /\ pc[p] \in {"generating", "cancelling"}
       /\ End(p, "cancelled")
       /\ cut' = IF call[p] = "done" THEN cut ELSE cut \cup {p}
       /\ UNCHANGED <<worker, call, result, holder, queue>>
    \/ /\ pc[p] = "waiting"
       /\ End(p, "cancelled")
       /\ UNCHANGED <<worker, provider>>

Cancel(p) ==
    /\ cancels < MaxCancels
    /\ cancels' = cancels + 1
    /\ CancelAwait(p)
    /\ UNCHANGED <<window, request, database, closing>>

-----------------------------------------------------------------------------
(* The server's shutdown: _close_worker.                                   *)

Close ==
    /\ MayClose /\ closing = "no"
    /\ \/ /\ state \in {"ready", "busy"}
          /\ StopFor(Closer, "whole")
          /\ closing' = "stopping"
       \/ /\ state \notin {"ready", "busy"}
          /\ CloseDriver
          /\ closing' = "closing"
    /\ UNCHANGED <<window, orchestrator, provider, database, cancels>>

CloseStopped ==
    /\ closing = "stopping" /\ receipt[Closer] # "none"
    /\ CloseDriver
    /\ closing' = "closing"
    /\ UNCHANGED <<window, orchestrator, provider, database, cancels>>

Sweep ==
    /\ closing = "closing"
    /\ SweepSignals
    /\ closing' = "sweeping"
    /\ UNCHANGED <<window, orchestrator, provider, database, cancels>>

Swept ==
    /\ closing = "sweeping"
    /\ SweepReaps
    /\ closing' = "done"
    /\ UNCHANGED <<window, orchestrator, provider, database, cancels>>

SweepExpires ==
    /\ closing \in {"closing", "sweeping"} /\ window[Closer] = "over"
    /\ closing' = "incomplete"
    /\ UNCHANGED <<worker, window, orchestrator, provider, database, cancels>>

-----------------------------------------------------------------------------
(* The worker, the learner and time.                                       *)

others == <<orchestrator, provider, database, closing, cancels>>

Supervise == /\ StopSignals \/ StopEscalates \/ StopReaps \/ StopExpires
             /\ UNCHANGED <<window, others>>

\* A child nobody waits for: driver tasks are retained, with their cleanup.
Child(e) == /\ SpawnedLate(e) \/ ReapedLate(e) \/ Exits(e)
            /\ UNCHANGED <<window, others>>

Waiting(u) == IF u = Closer THEN closing \notin {"no", "done", "incomplete"}
              ELSE pc[u] # "idle" /\ ~(pc[u] = "ended" /\ Idle(u))

Elapse(u) == /\ Waiting(u)
             /\ window[u] # "over"
             /\ window' = [window EXCEPT ![u] = IF @ = "live" THEN "fallback" ELSE "over"]
             /\ UNCHANGED <<worker, others>>

OpenSession == /\ profile = "present" /\ session < MaxSession
               /\ session' = session + 1
               /\ UNCHANGED <<worker, window, orchestrator, provider, profile, receipts,
                              open, closing, cancels>>

\* The learner finishes a battle and its batch is closed.
FinishBattle == \E q \in open :
    /\ open' = open \ {q}
    /\ UNCHANGED <<worker, window, orchestrator, provider, session, profile, receipts,
                   closing, cancels>>

\* delete_profile removes every row of the profile.
DeleteProfile == /\ MayDelete /\ profile = "present"
                 /\ profile' = "deleted"
                 /\ receipts' = {} /\ open' = {}
                 /\ UNCHANGED <<worker, window, orchestrator, provider, session,
                                closing, cancels>>

Step(p) == \/ Verified(p) \/ Spawned(p) \/ Readiness(p) \/ StopReturns(p)
           \/ Collect(p) \/ Expire(p) \/ Acknowledge(p) \/ Fallback(p)

CallStep(p) == CallStarts(p) \/ GateOpens(p) \/ Aborts(p) \/ Aborted(p)

Shutdown == CloseStopped \/ Sweep \/ Swept \/ SweepExpires

Next == \/ \E p \in Preps : \/ \E id \in RequestIds : Begin(p, id)
                            \/ Step(p) \/ CallStep(p) \/ Responds(p) \/ Cancel(p)
        \/ Supervise
        \/ \E e \in Epochs : Child(e)
        \/ \E u \in Users : Elapse(u)
        \/ Close \/ Shutdown
        \/ OpenSession \/ FinishBattle \/ DeleteProfile

Spec == Init /\ [][Next]_vars

\* The event loop runs what can run, and time passes.
LiveSpec == /\ Spec
            /\ \A p \in Preps : WF_vars(Step(p)) /\ WF_vars(CallStep(p)) /\ WF_vars(Elapse(p))
            /\ WF_vars(Elapse(Closer))
            /\ WF_vars(Supervise)
            /\ WF_vars(Shutdown)

-----------------------------------------------------------------------------
(* Properties.                                                             *)

\* A worker that may be launched again has no child left: its authority is
\* given back for an epoch that never spawned or whose child was waited for.
StoppedIsReaped == state = "stopped" => Unreaped = {}

\* The model never evaluates two prompts at once: a lease ends with a whole
\* response or with the child.
OneEvaluation == Cardinality(working) <= 1

\* No path leaves the worker in a state that only somebody else can end: a
\* start has a preparation inside it, a stop is running, a lease belongs to a
\* call that will give it back.  (A call that fails after its whole window
\* may not stop the worker any more and leaves it busy.)
WorkerIsAttended ==
    /\ state = "starting" => \E p \in Preps : pc[p] \in {"verifying", "spawning", "readying"}
    /\ state = "stopping" => stop.stage # "none"
    /\ state = "busy" => /\ lease \in Preps
                         /\ call[lease] = "posting" \/ window[lease] = "over"

\* The reviewed cache is used, and a batch answered, only when no generation
\* of the same preparation can still be running.
FallbackAfterAck ==
    \A p \in Preps : pc[p] = "waiting" \/ reply[p] = "batch" => Idle(p)

\* Preparations that overlap leave the profile with one live batch.
OneLiveBatch == Cardinality(open) <= 1

\* A shutdown that reports success leaves no child of the model behind.
CloseReaps == closing = "done" => Unreaped = {}

\* Whatever the model process does, a preparation ends, and so does its call.
EverythingEnds ==
    \A p \in Preps : pc[p] # "idle" ~> pc[p] = "ended" /\ Idle(p)

\* A model that is slow to start costs the live items, not the preparation: when
\* its process was launched and told to end again, there is a failure for lack of
\* content only once the ten seconds are over.
SlowStartFallsBack ==
    \A p \in Preps :
        reply[p] = "safe_content_unavailable" /\ epoch \in signalled => window[p] = "over"

\* Deletion removes all rows of the profile, and none comes back, although
\* create_prepared runs long after its command was authenticated.
DeletedStaysDeleted == profile = "deleted" => receipts = {}
=============================================================================
