# Wayline Forge in TLA+

Wayline is a mathematics game in two programs. **Wayline Forge**
(`services/wayline_forge/app/`, Python) is a local server that owns a learner's
profile, prepares quiz batches, scores them and decides what is won.
**Wayline** (`unity/Wayline/`, C#) is the game, which starts the server, asks it for batches
and tells it what was fought. This directory models the parts of both in which
steps of several actors, crashes, retries or long histories decide whether the
learner is told the truth and loses nothing.

## 1. The system

| part | state it keeps | operations | talks to |
|---|---|---|---|
| Two-pass quiz (`quiz_machine.py`, `quiz_submissions.py`, `quiz_store.py`, `quiz_observations.py`) | one row per batch: state, version, the two submissions; receipts; the observation outbox | submit the first pass, submit the revision, drain the outbox, close | profile store (drain), session service (authentication before and after) |
| Profile store (`profile_store.py`, `events.py`) | profiles, sessions, the append-only event log with consecutive ordinals, projections | append an event, open a session, replay and semantic-key checks, history check | called by everything |
| Progression (`progression.py`) | nothing of its own: it appends events | complete a battle, prepare/complete a Seal Trial, start/complete a Second Wind, complete revived combat, activate a world | quiz store, profile store, gates |
| Evidence (`evidence_reducer.py`, `boss_gate.py`, `adaptive_planner.py`, `campaign_catalog.py`) | none; derived from the log at every command | reduce, evaluate the boss gate and the world clear, plan slots | read by preparation and progression |
| Preparation (`battle_preparation.py`, `batch_material.py`, `gate_query.py`) | the prepared batch | prepare a battle | evidence, orchestrator, quiz store |
| Assisted route (`assisted_route_store.py`, `assisted_route_machine.py`; in the game `AssistedRouteController.cs`) | one route row per world, receipts | prepare, answer two supported items, complete | quiz store (exclusion), gates |
| Orchestrator and providers (`orchestrator.py`, `providers/`, `slot_materializer.py`, ...) | deadlines of one preparation | generate, verify, fall back to the reviewed cache | model worker, reviewed cache |
| Model worker (`llama_worker.py`, `production_runtime.py`) | its state, epoch and lease | launch, lease a generation, confirm, preempt, stop, quarantine | the driver |
| Exact-child driver (`macos_worker_driver.py`, `macos_worker_runtime.py`) | the launch that owns the authority and the lock file; one record per child | spawn, signal exactly this child, reap, clean up late spawns, shut down | operating system, other servers through the lock file |
| Reviewed cache release (`scripts/build_reviewed_cache.py`, `scripts/publish_reviewed_cache.py`, `app/reviewed_cache.py`) | generations, each under the digest of its manifest; `current.json` | build, publish, open | the disk, other publishers through `.publish.lock` |
| Identity (`identity_lifecycle.py`, `current_session.py`, `runtime_state.py`, `profile_deletion.py`, `profile_export.py`) | profiles, sessions and their boundaries in the log | create, rotate, authenticate, delete, export | profile store |
| Server process (`launcher.py`, `production_runtime.py`; in the game `WaylineForgeProcessHost.cs`) | the process, its receipt, what it opened | start, wait for receipt and health, terminate, clean up | everything |
| HTTP surface (`api.py`, `application.py`, `loopback_security.py`) and its contracts (`contracts.py`, `StrictQuizValidator.cs`) | none | parse, authenticate, validate, map errors | everything |
| Unity client (`Flow/`, `Save/`, `Campaign/`, `Learning/`) | the flow state, its checkpoint, pending ids; the session file with its backup; one controller per trial | enter map, start/resolve combat, complete a trial, take a reward, restore | server, disk |
| Research pipeline, prototype, JSON schemas | files | batch scripts | nothing at run time |

### What is hard here

* **The server is single-threaded per process only.** `_command_lock` keeps
  one command at a time in one process; the database is shared, every store call is a
  transaction of its own, and a command makes up to a dozen. Whatever it read
  may be stale when it writes.
* **Two stores, no common transaction.** The reveal of a quiz and its evidence are
  stored in the quiz store; the evidence then moves to the profile log row by row.
  In between stand crashes, other drains and competing appends that want the same ordinal.
* **Everything is re-derived.** Gate, verdicts, attempt numbers, the next battle and the slot
  plan are recomputed from the whole log at every command. A later event can therefore
  change an earlier decision, and the history check can condemn the
  whole profile.
* **Everything is said several times.** A quiz row repeats itself, its receipts and observations repeat it
  again, and every read, the wire contract and the game recompute all of it: one disagreement makes a quiz unreadable for good.
* **Sessions rotate.** A learner opens a new session at any time; what the old one
  prepared is still there.
* **A preparation takes ten seconds and awaits all along.** It starts a model process, leases it for one
  generation after the other and falls back to reviewed items. Meanwhile deadlines expire, requests are cancelled, the
  child crashes, the learner opens another session or deletes the profile, the server shuts down. Only
  one model process may exist, and it may be launched again only once the last one was waited for.
* **Processes end badly.** The game ends the server by signals, the server its model process; a wait
  may expire, a system call fail and either side die between any two steps.
* **Disks forget.** A rename is seen before it is durable; what a power loss leaves must still open.
* **Clients repeat.** A command that got no answer is sent again, maybe to another process,
  maybe in another session; the screen and the checkpoint of the game must agree with what the server recorded.

## 2. The modules

| module | what it is | code |
|---|---|---|
| `QuizMachine` | the pure functions from one quiz snapshot to the next | `quiz_machine.py` |
| `TwoPassQuiz` | abstract: what the two-pass quiz promises a learner | - |
| `QuizSubmissions` | the service: every read and every transaction of `submit_initial`, `submit_revision`, the drain and `complete_battle`, for any number of processes | `quiz_submissions.py`, `quiz_store.py`, `profile_store.py`, `progression.py` |
| `QuizContract` | the whole row of a quiz, what a read recomputes of it, the snapshot that goes out and the two validators that may refuse it | `quiz_machine.py`, `quiz_store.py`, `contracts.py`, `StrictQuizValidator.cs` |
| `QuizSubmissionsProofs` | theorems about `QuizSubmissions` and `QuizContract` | |
| `Evidence` | what is derived from the log: wins, active procedures, repairs, fragility, the gate, verdicts, the slot plan | `evidence_reducer.py`, `boss_gate.py`, `adaptive_planner.py` |
| `Campaign` | the whole campaign, one step per command: preparation, answers, progression, Second Winds, Seal Trials, assisted route | `progression.py`, `battle_preparation.py`, `assisted_route_store.py` |
| `CampaignContract` | what each command answers, at once or repeated later, whether the contracts accept it and where the game goes from there | `progression.py`, `gate_query.py`, `contracts.py`, `AuthoritativeProgressionMapper.cs` |
| `CampaignProofs` | theorems about `Campaign` and `CampaignContract` | |
| `LlamaWorker` | supervision of the one model process: states, lease, stop and quarantine | `llama_worker.py` |
| `LivePreparation` | one preparation, await by await, over that worker: orchestrator, provider call, gate, the one write; with cancellation, deletion, session rotation and shutdown | `battle_preparation.py`, `orchestrator.py`, `providers/llama_cpp.py`, `quiz_store.py`, `production_runtime.py` |
| `LivePreparationProofs` | theorems about `LivePreparation` | |
| `ModelProcess` | the driver under the worker: spawn pipeline, threads, exact signals, reaping, lock file, repeated shutdown, another server | `macos_worker_driver.py`, `macos_worker_runtime.py` |
| `CacheBuild` | one build of the cache database in a directory of its own, with its removal after a failure | `build_reviewed_cache.py` |
| `CacheRelease` | publishers, readers, deaths and power losses over one release root | `publish_reviewed_cache.py`, `reviewed_cache.py` |
| `CacheReleaseProofs` | theorems about `CacheRelease` | |
| `ProfileIdentity` | who owns what in the database: several processes, each command read by read, any clock | `identity_lifecycle.py`, `current_session.py`, `profile_store.py`, `profile_deletion.py`, `profile_export.py`, `runtime_state.py` |
| `ProfileIdentityProofs` | theorems about `ProfileIdentity` | |
| `QuizClient` | a route trial through the game's controller and panel, the wire and the quiz endpoints | `QuizController.cs`, `AtlasTrialPanel.cs`, the HTTP client |
| `ClientFlow` | the game from the title to the last reward over the two files it keeps | `VerticalSliceFlowController.cs`, `VerticalSliceRuntimeBootstrap.cs`, `RuntimeSessionStore.cs` |
| `AssistedRoute` | the assisted route of one world, from controller to store | `AssistedRouteController.cs`, `assisted_route_store.py`, `progression.py` |
| `AssistedRouteProofs` | theorems about `AssistedRoute` | |
| `Sidecar` | the server as a process of the game, with what it opens and closes | `WaylineForgeProcessHost.cs`, `launcher.py`, `production_runtime.py` |
| `ProcessProofs` | theorems about `ModelProcess` and `Sidecar` | |
| `ClientProofs` | theorems about `ClientFlow` and `QuizClient` | |
| `MC...` | the instances for TLC: `MCQuizSubmissions` (of `QuizContract`), `MCCampaign` (of `CampaignContract`), `MCLivePreparation`, `MCModelProcess`, `MCCacheRelease`, `MCProfileIdentity`, `MCQuizClient`, `MCClientFlow`, `MCAssistedRoute`, `MCSidecar` | |

How they compose. `QuizSubmissions` EXTENDS `QuizMachine` and instantiates `TwoPassQuiz`; `QuizContract` EXTENDS
`QuizSubmissions` and adds only definitions, so its runs are runs of the service. `QuizClient` EXTENDS `QuizMachine` too: it has
the endpoints whole and the game in detail, and instantiates the same `TwoPassQuiz`. `Campaign` EXTENDS `Evidence`, `CampaignContract` EXTENDS `Campaign`.
`LivePreparation` EXTENDS `LlamaWorker`: a worker action changes the worker's variables and a preparation's
action conjoins it with what the caller does in the same stretch between two awaits; `ModelProcess` is the driver that
`LlamaWorker` takes for granted. `CacheRelease` EXTENDS `CacheBuild`: a publisher's build is one of its phases.

The quiz and the campaign meet at the event log: what `QuizSubmissions`
splits into a dozen steps (the two passes, the drain, the completion) is the two steps
`Answer` and `CompleteBattle` of `Campaign`. That the ordinals reserved with a reveal stay free until its drain is over
(part of what `DrainNeverFails` rests on) makes that reading legitimate: between the reveal and the
end of the drain nothing else enters the log.

### QuizSubmissions and QuizContract

| variable | code |
|---|---|
| `quiz` | the row of `quiz_machines`; a receipt row says no more than the two submissions |
| `outbox`, `delivered` | `quiz_observation_outbox` and its delivered mark |
| `log` | `event_log`; the ordinal of an event is its position |
| `session` | the one open row of `sessions` |
| `pc`, `cmd`, `snap`, `pend`, `rows` | the local variables of a running command |
| `acked`, `failed`, `crashes` | bookkeeping: what was ever answered, whether a drain answered `integrity_failure`, how often a command was abandoned |

A command goes `authenticate -> drain -> load -> lock -> resolve -> (stamp -> reauthenticate) -> save -> (drain) -> reply`;
a revision goes from `load` to `stamp`; a completion goes
`authenticate -> replay -> drain -> load -> complete -> close`. Each label is one
read or one transaction of the code and the action of that name is the whole of it. `Abandon` is a
crash, or `storage_busy`, at any label. `OpenSession` and `OtherProgression` are what other
commands do to the same rows.

Two deliberate mergers: `complete_battle` drains twice in a row (once itself and once in
`_finalized_quiz`), which is one drain here; and `append` allocates the ordinal of a
progression event inside its own transaction (`profile_store.py:2770`), so the value
planned before it plays no part.

A sheet of answers is the set of items it answers correctly. Two submissions of one
set with one request id are one submission; the code compares canonical payloads.

`QuizContract` gives the row all its redundant fields back: `Row(m)` is what the functions of `quiz_machine.py` have made of
a quiz by the time its snapshot is `m`, `Loads` what `quiz_store.py` recomputes of a row and its observations, `ServerAccepts` and
`ClientAccepts` the two validators. Identities, texts, hashes, confidences and the 3 to 10 items of a batch
are left out; a wrong answer is one option.

### Campaign and CampaignContract

`log` is the event log, `batch` the one quiz row that is not closed, `route` the world whose assisted route is
active. Every action is one command. What a learner does is one of a few `Styles`: a sequence of
marks repeated over the slots of a batch. Marks say how an item was answered on both passes and are what
the reducer tells apart. `Evidence` lists the abstractions in its header. In `CampaignContract` every event of the log stands for an
answer that may still be given, because a command whose answer was lost is sent again: `Upto(n)` is the log the code replays it from.

### LivePreparation

| variable | code |
|---|---|
| `state`, `lease`, `epoch` | `ManagedLlamaWorker._state`, `_active_lease`, the number of the current `_epoch` |
| `stop`, `receipt` | the task of `_await_stop`: for whom, how far, by which deadline; and what it returned (`reaped`) or raised (`lost`) |
| `authority` | `WorkerLaunchAuthority` |
| `child`, `signalled`, `driverClosed` | the driver's records and the operating system's processes, one per epoch |
| `working` | the prompts the child is evaluating; no variable of the code, but what the lease protects |
| `pc`, `request`, `slot`, `attempt`, `reply` | where `_prepare` stands, its locals and its answer |
| `call`, `result`, `cut` | the task of `_generate_before`, how it ended, whether it was cancelled |
| `holder`, `queue` | the process-wide gate |
| `session`, `profile`, `receipts`, `open` | the open session, the profile row, `quiz_preparation_receipts`, batches that are not closed |
| `closing` | `_close_worker` |
| `window` | the clock, see below |

A preparation goes `verifying -> spawning -> readying (-> stopping | revoking) -> generating (-> cancelling) -> waiting -> ended`;
a call goes `created (-> queued) -> posting (-> aborting) -> done`. Everything runs in one event loop, so an action is
the code from one await to the next.

*Time.* Every deadline is one of two per preparation: the end of its live window
(8 s) and of its preparation window (10 s). `window` says which have passed; it moves at any moment, which is every timing there is.
A stop remembers the deadline it was given: a stop after a failed readiness has the live
one, a stop of a generation and the shutdown have the whole one. A guard on `window`
stands where the code compares the clock.

*Content* is reduced to what may happen: a response may be accepted, rejected or unusable, a candidate may be impossible to write, the
cache may lack an item (`CacheMisses`).

### ModelProcess

`os` is the child of each launch (running, zombie, gone), `held` the launch that owns the authority and with it the lock file,
`pipeline`, `caller`, `artifacts`, `clean` the thread of `_prepare_and_spawn` and what `start` still expects of it,
`waiter`, `reaped`, `late`, `stop` who waits for a child's end, `shutdown` the stages of `shutdown_all`, `rival` another server.
`aim` is the gap between the driver's last look at a child and its `killpg`: the event loop is held in it, threads and
children go on. argv, credentials, diagnostics, drains and the readiness exchange are abstracted; `LivePreparation` has readiness.

### CacheBuild and CacheRelease

A directory is what a process sees in it (`entries`) and what the disk would give back (`synced`, `flushed`). `stage` and `build` are a publisher's
private directory and its call of the builder; `generations`, `syncedNames`, `current` and `survivors` the release as seen and as a power loss may leave it; `lock`
the holder of `.publish.lock`; `job` the call of each publisher, phase by phase, with the flags its failure paths consult; `reader` the open of each reader
with the inodes that changed under it. A fault is any failed call, failed check or interrupt at that point. Generations and manifests are one, since a generation
is named by the digest of its manifest. Nobody but these programs touches the directories.

### ProfileIdentity

`created`, `sessions`, `receipts`, `log`, `projection`, `material` are the tables; `call` the command a process is busy with, whose `step` runs through `Plan(kind)`: the
SELECTs of an authentication, one action each, and then the one transaction or the reads of the command. `clock` may be set back, readings are any instant; no two sessions of a
profile open in the same microsecond. Legacy profiles, schema migration and event contents are left out.

### QuizClient, ClientFlow, AssistedRoute, Sidecar

* `QuizClient`: `trial` is the `QuizController`, `panel` and `shown` the flags and the last drawing of the `AtlasTrialPanel` (which buttons it left
  enabled), `net` and `replies` the calls under way, `quiz`, `prepared`, `serving` the service. Calls may be lost, late or overtaken.
* `ClientFlow`: `primary` and `backup` are the files, `saving` the save in progress, one file operation per action; the rest is the running client. `RestartCombat` is
  the R key and RESTART DUEL, which work as long as a result is on the screen, so also while its save fails and is tried again every frame; `restarted` is a history
  variable, the battles begun again with their victory in the profile already. It is
  the development build's bootstrap: release builds suspend for want of authority. A primary file is damaged only while a backup can be loaded; `AtomicProfileStore` is composed by nothing.
* `AssistedRoute`: `trial` is the controller, `route`, `receipts`, `completion` the store, `calls` what was sent and not served to the end, `head` the log
  that other commands extend. Both answers are given in one step; a timeout and a broken connection are one fault.
* `Sidecar`: `host`, `awaiting`, `answer`, `ending` are the process host on the game's main thread, `phase`, `web`, `opened`, `closed`, `unclosed`, `caught`
  the server's main task, uvicorn (external) and what `build_production_runtime` opened, `models` the model processes, sessions of their own that no signal to the
  server's group reaches. One INT at most, one request in flight stands for any number, process numbers are not reused; only tests compose the host.

## 3. The runs

| run | question | bounds |
|---|---|---|
| `quiz` | do two processes that interleave any commands keep the quiz readable and showable, every write legal, the log consistent, and do they implement `TwoPassQuiz`? | 2 processes, 2 items, 2 request ids, 2 sheets (one wrong, all right), 2 sessions, 1 competing campaign event |
| `quiz_recovery` | does everything stored reach the log, can a locked first pass always be scored, a revealed batch closed, if commands are abandoned at any step? | 1 process, 2 abandoned commands |
| `campaign` | is the learner shut out, or the history broken, only in the known ways; one activity at a time; does every answer lead on? | 2 worlds of 1 skill, lead-ins of 1 and 3 items, 3 required items, 2 styles, 1 Second Wind, 3 trials |
| `live` | do two preparations that share the worker keep one child and one prompt, and is nobody left waiting for the worker? | 2 preparations, 2 request ids, 1 item each, 2 launches, 1 crash, 1 cancelled request |
| `live_close` | does a successful shutdown leave no child, and does every preparation end? | 1 preparation of 2 items, 2 sessions, 2 launches, 1 crash, 1 cancellation, deletion and shutdown |
| `cache` | does the pointer outrun its target, are the codes true, is what opens current? | 2 publishers, 1 reader, 3 manifests of 2 runtimes, 2 faults, 1 power loss |
| `identity` | do the rows always pass their audit, does the next session open, is corruption reported only of a torn read? | 2 processes, 1 profile, 2 sessions, 2 events, 3 instants |
| `quiz_client` | does the screen show what is recorded, and does every trial end? | 2 items, 5 request ids, 3 faults |
| `client_flow` | does a restart resume, is a battle that is won fought again only after a restart, does the campaign end? | 3 worlds, 3 deaths, 3 failing file operations, 2 damaged files |
| `model_process` | is there ever a second child, does a close leave something, does every ending end? | 2 launches, 2 failing calls, a death of the server |
| `assisted_route` | is the route shown the one stored, its feedback recorded, and does it end? | 3 faults, 1 event of another command, 8 request ids |
| `sidecar` | is a server left, does one failure leave a model process, does what begins to end do so? | 2 starts, 2 faults, 1 INT, a death of the game |

*Why the bounds are enough.* Two processes give every pair of steps in every order: each guard compares
one stored row with one local snapshot, and a third process would only repeat what the second
does to the row. Two items let a drain stop between them. Two request ids and two
sheets give an exact repetition, a reused id with another sheet, and another id. With two sessions
every command is begun in the open session, begun in the closed one, or overtaken. The
sheets are {1} and {1,2}: perfect and imperfect first passes take different paths. In
`campaign` the second lead-in is longer than the number of skills so that review slots of an
earlier world appear beside the current ones; the thresholds are low (the finale's is 0, it only ends the campaign) so that all outcomes of gate, boss, and
trial occur within the bound. `MaxTrials` = 3 lets the assisted route be unlocked by two misses and a third trial follow.

In `live` a second preparation can begin at every stage of the first, wait
at the gate behind it, find the worker busy or stopping or quarantined, or win the one write; two launches let the worker be
stopped and started again; one crash hits any child at any moment. A second cancellation meets the shielded stop of the first,
which ignores it. `live_close` has two items so that a call follows another at the gate.

In `cache` two faults let a publisher fail and its cleanup fail too, or one leave something for the next to meet; the three manifests give the same, another and another runtime's generation.
In `identity` two instants are needed to tell before from after and the third to set the clock back between them; one profile, because rows name their profile and nothing compares profiles.
In `model_process` the second launch is the one that may begin too early; `AllIsEnded` needs two faults because a shutdown that fails is repeated.
In `quiz_client` and `assisted_route` a fault may strand a call, its retry and the retry's retry; ids suffice for every fault to be followed by a fresh one. In `client_flow`
the middle world has one before and one after it. In `sidecar` the second start is the one that might meet the first server.

*Symmetry.* Processes and request ids are interchangeable in `quiz`, preparations and request ids in `live`, publishers and manifests of one
runtime in `cache`, processes in `identity`. None of these checks liveness.

*Deadlock.* `quiz`, `quiz_recovery`, `cache` check it: a process can always begin a command. The others switch it off because the system
may stop: a finished campaign, preparations that ended and are not begun anew, a trial or route that is over, a server and a game that are gone, or an instance whose bounds
(sessions, events, instants) are used up. `LockedOutKnownWays` asks the sharper question of the campaign, `EverythingEnds`, `TrialEnds`, `RouteEnds`, `CampaignEnds`, `AllIsEnded` and `EndsAreReached` of the others.

*Fairness.* Crashes and faults are bounded everywhere, so fairness is never asked of a process that keeps dying.

* `QuizSubmissions!LiveSpec`: `WF(Step(p))`: a server process finishes what it runs; there is nothing in a
  command that waits for anybody. `SF(BeginCurrent(p))`: the game keeps sending commands in the session then open; strong,
  because a process that is busy with another command is not enabled for a moment. Two properties carry a
  stronger assumption of their own, written in the property: the client that received no answer keeps
  repeating exactly that first pass (`LockIsScored`), or that completion and no session opens (`ClosedUnlessRotated`).
* `LivePreparation!LiveSpec`: `WF` of a preparation's steps, of its call's steps (`CallStep`: start, gate,
  cancellation and abort, but not the response), of the
  stop, of the shutdown, and of time. The event loop runs what is ready, and clocks advance. Nothing is asked of the model process: it may
  never become ready, never answer and never die, which is why `EverythingEnds` says something about
  the deadlines. Sessions, deletion, cancellation and the start of the shutdown are never forced.
* `ModelProcess!FairSpec`: `WF` of the threads, of the event loop, of the end of a child that was killed, of each user's waits (they have deadlines), of a signal
  about to be sent, and of the shutdown, which its caller repeats until it succeeds. A child need not obey a TERM.
* `QuizClient!LiveSpec`: `WF` of serving, receiving, pressing an enabled button, answering. `ClientFlow!LiveFlowSpec`: `WF` of file operations and of the player's moves, `SF` of winning a combat
  and of answering a trial, which deaths and failures interrupt for a while, and of resolving a combat that is won: the bootstrap tries in every frame, so only a player who
  restarts each won combat in the very frame it ended in could prevent it for good. `AssistedRoute!LiveSpec`: `WF` of serving, pressing and committing.
* `Sidecar`'s `EndsAreReached` states its own: `WF` of the host's threads, of time, of picking up an answer, of the end of the grace period, of the server's
  closing. A server may hang before it serves.

### What the code does otherwise than its documents say

Each has a configuration beside the runs, which TLC finds violated; `-continue` reports every property of a `Known` one. PROJECT.json, `findings`, quotes the sentence each contradicts.

| configuration | property | what happens |
|---|---|---|
| `MCQuizRotation` | `RevealedIsClosed` | `complete_battle` takes only batches prepared in the open session (`progression.py:1192`), while submissions are taken in any. A batch revealed when the session rotates is never closed and keeps every other preparation out. |
| `MCCampaignBoss` | `BossVictoryCounts` | the boss gate is evaluated again when the boss battle is completed, from a log that holds the boss quiz itself; a weak first pass closes it. |
| `MCCampaignKnown` | `HistoryStaysValid` | a revived combat reported after the world was left is logged for the old world, and the history check refuses everything from then on. |
| | `NeverLockedOut` | below the threshold of the boss gate four won battles leave nothing to do. Even an always-right learner gets there in the second world, since review slots count for the first. |
| `MCLiveKnown` | `SlowStartFallsBack` | a launch that outlasts the live window fails the preparation two seconds early and quarantines the worker for good: the stop of a worker that was not ready in time has the deadline that has just passed (`llama_worker.py:706`). |
| | `DeletedStaysDeleted` | `create_prepared` looks at no profile, so a deletion during generation is followed by new rows of the deleted profile. |
| `MCProfileDeletion` | `DeletedLeavesNothing` | so do `append` and `load_state`, which write the learner projection after their reads. |
| `MCCacheDurability` | `SurvivorsAreDurable` | a generation found in place is not synced before the pointer is switched to it. |
| `MCModelProcessKnown` | `SignalsAreExact` | a child may be reaped between the driver's last look and its `killpg`. |
| | `OneModel` | a model process outlives a killed server, whose lock the kernel frees: the next server starts another. |
| | `AbandonedIsReaped` | a late child whose TERM is refused because it just ended is waited for by nobody until the shutdown. |
| `MCQuizClientStuck` | `AlwaysAWayOn` | after a first pass that was locked and not scored the panel offers no button that works. |
| `MCClientFlowKnown` | `WonIsNotRefought` | a won combat whose save failed can be restarted and lost; the loss is saved with the victory, and the map offers the battle again. `RefoughtOnlyIfRestarted` says that this is the only way. |
| `MCAssistedRouteKnown` | `CompletionIsReached` | leaving for the map after the completion was recorded and before it was committed forgets its request id; the route cannot be reached again. |
| | `FeedbackIsRead` | the bootstrap commits the result in the first frame that sees it, and the feedback is not shown. |
| `MCSidecarKnown` | `ModelEndsWithServer` | the signals that end the server skip its cleanups, and the model process stays. |
| | `ServerEndsWithGame` | a killed game leaves its server. |
| | `DisposedIsStopped` | a host disposed while it starts becomes failed, or ready. |

## 4. What is proved

Every theorem holds for all values of the constants that satisfy the named assumptions of its module. There is no other hypothesis.
Hardly one of the properties is inductive as it stands. Each proof has the same form: an invariant of named parts that implies the
property and was first checked by TLC on the run's instance, one lemma per action (under it one step per part that the
action disturbs), and a theorem that composes them.

**`QuizSubmissionsProofs`** (`NumItemsAssumption`, `SheetsAssumption`, `NoSubmissionAssumption`, `BoundsAssumption`, and for `QuizContract`
`NoneAssumption`: `None` is no result, receipt or action).

* `Invariance` is the induction of `IInv`; `TypeCorrect`, `ReadsCorrect`, `PlansCorrect`, `SessionsCorrect` and `OneAnswer` take their invariants from it.
  `ReadsHold` says what a process may rely on at each label: the snapshot it will store follows the stored first pass, the snapshot it will
  answer from is the outcome that was stored, the rows it read as pending are still there. It survives the steps of the others
  because the stored row only moves forward (`Coherent` fixes the version of each state, so a compare-and-swap on the version is one on
  the state), and because the first pass never changes once it is there. `PlansInsideTheirSession` carries the session of a
  planned observation from the clock reading to the reveal.
* `DrainsSucceed`: no drain answers `integrity_failure`. `DrainInv` adds that the observations planned or stored are those of the
  reveal in the row (`PlansReveal`), that a pending row's ordinal is either the next one or already holds that very
  observation (`OutboxLeads`), and that rows are taken in the order of their ordinals (`DrainsInOrder`).
* `Refinement`: `Spec => ImplementsTwoPass`. The mapping is `Phase`, `LockedSheet`, `ScoredSheet`, `Told`, `Recorded`. The two compare-and-swaps, the
  close, the replies and the append of an observation are steps of `TwoPassQuiz`; everything else is a stutter.
* `SnapshotsFit`, `QuizCanBeRead` and `WritesFollow` (`SnapshotsAreAccepted`, `QuizLoads`, `WritesAreLegal` of `QuizContract`), for any number of items.
  `RowIs` says field by field what the functions of `quiz_machine.py` make of a coherent snapshot; `Judges` is what a
  final result says of its two submissions, and `Counting` turns every count over items, by whichever program, into the size of a sheet or of its complement.
  From these `RowHolds` (what a read recomputes), `SnapshotIsAccepted` (both validators) and `MovesAreLegal` (the store's check of a transition) follow
  for every coherent snapshot, and `IInv` has that the stored one is. That the observations tell the same needs a second invariant, `TellInv`: a plan tells the reveal it
  is stored with (`PlansTell`), the outbox the stored one, from one session (`OutboxTells`), and an observation is in the log at its ordinal (`LoggedInPlace`).

**`CampaignProofs`** (`CampaignAssumption`, `LearnerAssumption`) has every invariant that the run `campaign` checks, for any number of worlds, skills, lead-ins, Second Winds and
trials, any thresholds and any way to answer: `CampaignTypes`, `ActivitiesExclude` (`OneActivity`), `OnlyLateWindsBreakHistory`, `LockedOutOnlyKnownWays` and `RepliesAlwaysLeadOn`.

* The operators first. `Evidence` sorts by rank and counts positions, so what it derives from a whole log needs no induction: `Ranks` says that in a finite ordered set each
  rank belongs to one element, `SortedByUrgency`, `SortedByAge`, `SortedByCount` and `SortedByNumber` that the four orders of `plan_slots` are such orders, `PlanServes` that
  whatever is planned for a world asks about it, or is a transfer to a world before.
* `IInv` says how the log may look: worlds are activated one after the other (`InOrder`), nothing is of a world to come (`NoneAhead`), the battles of the active world are won in order
  (`WonSoFar`), a Second Wind is started, quizzed and fought in this order (`WindsInOrder`), and what is not of the world it was logged in is of one that was left with a Second Wind unfinished
  (`Past`). The named properties are not inductive without the rest of it: `Serves` says what the slots of a live batch ask about and that what the batch is for is still to come,
  `RouteServes` the same of a route. It holds through every other command because a Seal Trial, a boss and a route exclude each other and only a Second Wind's batch outlives its world.
* `Grows` is how commands extend the log. Lemmas on it say what each derived fact keeps when only events of certain types are appended (`InPlaceGrows`, `WonGrows`, `NoNewWin`, `SameBosses`);
  one lemma per command follows, and `Inductive` composes them.
* For `RepliesLeadOn`, `Answered` says that every event's answer, computed from the log up to it, passes the contracts; it stays true since that part of the log never changes (`SameReply`).
  `GateHolds` and `LeadOn` compare what `gate_query.py` and the mapper recompute with what the next preparation asks.

**`LivePreparationProofs`** (`WorkerAssumption`, `PreparationAssumption`) has all the safety invariants that its two runs check.

* `WorkerSafe` (`StoppedIsReaped`). A worker becomes stopped at the end of a stop, of a refused launch or of a failed readiness, and each of these
  is right only because no other launch is under way. `WorkerInv` adds that only the last epoch may have a child (`LastChildOnly`), that a stop is in
  progress only while the worker is stopping (`StopIsStopping`), that at most one preparation is inside a launch and the worker
  is then starting (`OneLauncher`), and that nothing is launched before the verification ends (`NothingLaunched`).
* `AcknowledgedFirst` (`FallbackAfterAck`) from `AckInv`: outside the states that generate or cancel, a preparation has no call, and an answered
  one stays at its end.
* `OnePrompt` (`OneEvaluation`) from `EvaluationInv`: a prompt is evaluated only for the holder of the lease, or for a call cut off
  while the worker is being stopped for it.
* `ShutdownReaps` (`CloseReaps`) from `ClosingInv`, and `NobodyStrandsTheWorker` (`WorkerIsAttended`) from `AttendedInv`, which names for
  each passing state of the worker who will move it on.
* `OneBatch` (`OneLiveBatch`): the write looks again for a live batch in its own transaction.

**`ProcessProofs`**. Of `ModelProcess`: `ChildIsHeld`, `AtMostOneChild` and `ClosedIsEmpty`. `Shape` fixes who may be where in the spawn pipeline, `Exclusive` that a launch
past the lock is the one that holds it, `HeldBefore` and `HeldUntilReaped` that the lock is held from before the spawn until the child was waited for,
`ReapedIsGone` and `NoChildYet` what the operating system then has, `Finality` that a finished shutdown is not undone.
Of `Sidecar`: `HostLeavesNoServer` from `HInv` (the host owns what it started until it was told of its exit, and an idle host owns nothing), and
`ModelOutlivesTwoFailures` from `MInv` (a model process belongs to a server that composed its runtime, whose cleanup it escapes only by two failures).

**`AssistedRouteProofs`**: `OneRouteIsShown` and `RecordedIsShown`. `Sound(t)` relates what the controller holds to the stored route in each of its
states, `OneWaited` and `Waits` say that it waits for one call and for which, `ReceiptsHaveRoute` that a receipt is never older than its route. That late
answers to abandoned calls change nothing is the content of the lemmas on `Receive`.

**`CacheReleaseProofs`** (`NamesAssumption`): `GenerationsAreWhole`, `PointerOutrunsNothing`, `CodesTellTheTruth` and `OpensAreCurrent`, for any number of publishers, readers, manifests,
faults and power losses. `BuildInv` says phase by phase what the build's own directory holds, as seen and as synced. `Released` says that a directory gets a
generation's name only whole, and that the pointer outruns the disk only when the generation was adopted. `Owned`, `Staged`, `Targeted`, `Pointed` and `CodeHolds` relate
a publication's flags to stage, generation and pointer; only the holder of `.publish.lock` is past them (`OthersAreIdle`), which is why another's step disturbs none. `ReaderInv` says that an inode that
changed under a reader was noticed by it. `FailureKeeps` covers every failure at once.

**`ProfileIdentityProofs`** (`BoundsAssumption`): `RowsAgree`, `AuditsPass`, `SessionsFollow` and `AlarmsHaveACause`, for any number of processes, profiles,
sessions, events and instants. `RowsAgree` is the induction. `Belongs` says whose a session is and that nothing but a late write outlives its profile. `Sound(p)`
is what the audits of a living profile ask for, in a form that a step disturbs only locally: `Receipted`, `Followed` (each session was closed by the next one to open) and
`Opens` (the events that a session was opened after lie in earlier ones). `Past` says that until the clock goes back everything recorded lies before it, each event inside its
session. `Trusted` is what a command may rely on: what it will append was stamped in its session (`Delivers`), and what it read is what there
is as long as nothing was committed beside it (`Reads`). `SoundIsAudited`, `NothingInTheWay` and `HistoryIsExported` then derive what the audits,
the next session and the export ask, one lemma per step shows that each kind of step keeps `IInv`, and `Onward` says what a step does to the sessions that other commands hold.

**`ClientProofs`** (`FlowBounds`, `FilesAssumption`, `ClientBounds`, and those of the contract) has the safety invariants of both client models, for any number of worlds,
items, requests, crashes, failed file operations and late or lost calls.

* `RestartsResume` and `OnlyRestartsAreRefought` (`RestartResumes`, `RefoughtOnlyIfRestarted`) and `FlowTypes` from one invariant of `ClientFlow`. `Good` is a session that a campaign
  can have been saved with: for some `k` the first `k` battles are completed and rewarded (`Reached`) and the checkpoint is one of those between them and the next
  (`At`), where the victory of the next battle may precede its trial only if it is one of those restarted (`Fought`; `GoodStays`: a further restart spoils no session).
  `InMemory` says the same of the running game, except that a save that failed leaves the profile one victory or completion `Ahead` of the checkpoint. `DiskInv` and
  `UpInv` follow the two files through a save: one of them is always good, and while the client is up what it would load is the session saved last, with
  `rejected` telling whether the primary was found damaged (so that the backup is not overwritten by it). `SaveInv` is what a save in progress will make true.
* `ShownStays` (`ShownIsRecorded`) from `TrialInv` of `QuizClient`. The claim is about a screen that hears of the quiz only through answers that may be
  old. `RepliesHold` says that what an answer under way tells of the quiz was sound and still `Holds`, because the stored quiz only moves forward
  (`QuizMoves`); `Identified` that a call or answer with the awaited request id is that very call, or the answer of a quiz that has taken it (`HasTaken`);
  `ServesStored` that the pass about to be scored is the stored one, even if its client gave it up. The steps then fall into kinds by what they do to calls and answers
  (`Quiet`, `Sends`, `Replied`, `Forgets`, `Loses`), and only the acceptance of an answer changes what the screen says.
* `TrialIsTwoPass`: `Spec => ImplementsTwoPass` of `QuizClient`, with the learner's screen in the place of the service's replies. `ServingRefines` maps the lock, the score and the
  revision, for which `Unrevised` (no revision before the reveal) is added to `TrialInv`; every other step leaves the stored quiz alone (`ToldElsewhere`) and shows at most what the
  controller holds, which `TrialInv` says is recorded (`TellingRefines`).

### Only model-checked

* Liveness: `RevealIsRecorded`, `LockIsScored`, `ClosedUnlessRotated`, `EverythingEnds`, `TrialEnds`, `RouteEnds`, `CampaignEnds`, `AllIsEnded`, `EndsAreReached`. The
  fairness they rest on speaks of ENABLED, which the installed provers cannot expand. Everything else that a run checks is a theorem.
* That the code breaks what its documents say (the configurations of section 3 beside the runs) is shown by TLC's counterexamples alone.

## 5. Not modelled, and the plan

1. *Content at preparation* (`batch_material.py`, `slot_materializer.py`, the lookups of `reviewed_cache.py`): how slots become items, a pure
   construction with many refusals; `LivePreparation` has only whether it succeeds.
2. *Schema migrations* of the three stores, and legacy profiles.
3. *Progression step by step*: the transactions inside Second Wind, Seal Trial and assisted-route commands, which `Campaign` takes as one.
4. *Request parsing and error mapping* (`api.py`).

Left out for good: question kernels, verifiers and prompts (pure functions over content), rendering and combat, the offline
research pipeline, the browser prototype, notebooks and review material. PROJECT.json lists each with its reason.
