---------------------------- MODULE AssistedRoute ----------------------------
(***************************************************************************)
(* The assisted route of one world, offered after two missed Seal Trials:  *)
(* one fresh batch, one submission, and the world is cleared whatever the  *)
(* score.  The Unity controller, its panel and the bootstrap that commits  *)
(* the result are the learner's side; AssistedRouteStore, the preparation  *)
(* service and the progression commands are the other.                     *)
(*                                                                         *)
(* The controller repeats a call that failed with the request it already   *)
(* made, while an earlier copy may still be served: preparing waits for    *)
(* the model, and the client does not.  Leaving for the map, or starting   *)
(* the client again, begins over with another request.                     *)
(*                                                                         *)
(* The learner answers both questions in one step.  No observation is      *)
(* recorded while the route is offered, so its plan does not change; other *)
(* commands of the profile only move the head of the event log.            *)
(***************************************************************************)
EXTENDS Integers, FiniteSets

CONSTANTS
    Ids,            \* bound: request ids
    Sheets,         \* answers to the two supported questions
    MaxFaults,      \* bound: calls given up, deaths, failures, departures
    MaxMoves,       \* bound: events that other commands append
    None            \* no route, no submission, no result, no completion

ASSUME RouteBounds == /\ Ids # {} /\ MaxFaults \in Nat /\ MaxMoves \in Nat

VARIABLES
    \* the client
    trial,      \* AssistedRouteController
    flow,       \* whether the flow is still at the route or at its reward
    unsaved,    \* committing the result has failed at least once
    \* the service
    calls,      \* calls sent and not served to the end
    route,      \* the stored route
    receipts,   \* the preparation requests that have a receipt
    completion, \* the completion event
    head,       \* how many events the other commands have appended
    current,    \* whether the client's session is the current one
    leftOpen,   \* the batch of the missed Seal Trial was never closed
    \* bookkeeping
    suffered, faults

client == <<trial, flow, unsaved>>
store == <<route, receipts, completion>>
rest == <<head, current, leftOpen>>
history == <<suffered, faults>>
vars == <<client, calls, store, rest, history>>

\* A route is named for the request and the head it was built from.
Routes == [id : Ids, head : 0..MaxMoves]

Submissions == [id : Ids, sheet : Sheets]

Completions == [id : Ids, sheet : Sheets, route : Routes]

Calls == [kind : {"prepare"}, id : Ids, live : BOOLEAN,
          step : {"sent", "building"}, head : 0..MaxMoves]
             \cup [kind : {"complete"}, id : Ids, live : BOOLEAN,
                   sheet : Sheets, route : Routes]

NumPages == 2

-----------------------------------------------------------------------------
(* The controller.                                                          *)

\* ResetForPreparation.
Preparing(id) == [state |-> "Preparing", request |-> id, batch |-> None,
                  submission |-> None, final |-> None, retry |-> "nothing",
                  page |-> 0]

\* SetFailure: what may be tried again is one thing or the other.
SetFailure(t, retry) == [t EXCEPT !.state = "Failed", !.retry = retry]

\* A failed preparation may always be recovered.
RetryOf(kind, retryable) == IF kind = "prepare" \/ retryable THEN kind ELSE "nothing"

\* A request id nobody has used.
Fresh == Ids \ ({c.id : c \in calls} \cup receipts \cup {trial.request}
                  \cup {x.id : x \in {route, completion, trial.submission} \ {None}})

NewId == CHOOSE id \in Fresh : TRUE

PrepareCall(id) == [kind |-> "prepare", id |-> id, live |-> TRUE,
                    step |-> "sent", head |-> 0]

CompleteCall(t) == [kind |-> "complete", id |-> t.submission.id, live |-> TRUE,
                    sheet |-> t.submission.sheet, route |-> t.batch]

\* The calls whose answer nobody waits for any more.
Abandoned == {[c EXCEPT !.live = FALSE] : c \in calls}

Suffer(kinds) == /\ faults < MaxFaults
                 /\ faults' = faults + 1
                 /\ suffered' = suffered \cup kinds

Unhurt == UNCHANGED history

Init == \E id \in {CHOOSE i \in Ids : TRUE} :
        /\ trial = Preparing(id)
        /\ flow = "Route"
        /\ unsaved = FALSE
        /\ calls = {PrepareCall(id)}
        /\ route = None
        /\ receipts = {}
        /\ completion = None
        /\ head = 0
        /\ current = TRUE
        /\ leftOpen \in BOOLEAN
        /\ suffered = IF leftOpen THEN {"left open"} ELSE {}
        /\ faults = 0

-----------------------------------------------------------------------------
(* What the learner does.                                                   *)

AtRoute == flow = "Route"

Acts(t) == /\ trial' = t
           /\ UNCHANGED <<flow, unsaved, store, rest>>

AcknowledgeWorkedExample ==
    /\ AtRoute
    /\ trial.state = "WorkedExample"
    /\ Acts([trial EXCEPT !.state = "Answering"])
    /\ UNCHANGED calls /\ Unhurt

\* SelectOption, SelectConfidence and SubmitAsync.
Submit(sheet) ==
    LET t == [trial EXCEPT !.state = "Submitting", !.retry = "nothing",
                           !.submission = [id |-> NewId, sheet |-> sheet]]
    IN  /\ AtRoute
        /\ trial.state = "Answering"
        /\ trial.submission = None
        /\ Fresh # {}
        /\ Acts(t)
        /\ calls' = calls \cup {CompleteCall(t)}
        /\ Unhurt

RecoverPreparation ==
    /\ AtRoute
    /\ trial.retry = "prepare"
    /\ Acts(Preparing(trial.request))
    /\ calls' = calls \cup {PrepareCall(trial.request)}
    /\ Unhurt

\* (mutant) The submission is made again, with a request id of its own.
RetryAfresh ==
    LET t == [trial EXCEPT !.state = "Submitting", !.retry = "nothing",
                           !.submission.id = NewId]
    IN  /\ AtRoute
        /\ trial.retry = "complete"
        /\ Acts(t)
        /\ calls' = calls \cup {CompleteCall(t)}
        /\ Unhurt

RetryCompletion ==
    LET t == [trial EXCEPT !.state = "Submitting", !.retry = "nothing"] IN
    /\ AtRoute
    /\ trial.retry = "complete"
    /\ Acts(t)
    /\ calls' = calls \cup {CompleteCall(t)}
    /\ Unhurt

\* The panel is in transition until the next frame, which commits the result:
\* only a commit that fails leaves the learner time to read on.
AdvanceFeedback ==
    /\ AtRoute
    /\ unsaved
    /\ trial.state = "Revealed"
    /\ Acts([trial EXCEPT !.page = @ + 1,
                          !.state = IF trial.page + 1 = NumPages THEN "Complete" ELSE @])
    /\ UNCHANGED calls /\ Unhurt

\* A submission is forgotten with its controller, and so is its result.
Forgotten == IF trial.submission # None THEN {"submission forgotten"} ELSE {}

BeginOver == /\ Suffer(Forgotten)
             /\ Fresh # {}
             /\ trial' = Preparing(NewId)
             /\ calls' = Abandoned \cup {PrepareCall(NewId)}

\* To the map and back: ReturnFromUnavailable, then ResumePending.
ReturnToMap == /\ AtRoute
               /\ trial.state = "Failed"
               /\ BeginOver
               /\ UNCHANGED <<flow, unsaved, store, rest>>

\* The client dies, and its checkpoint presents the route again.
Restart == /\ AtRoute
           /\ unsaved' = FALSE
           /\ BeginOver
           /\ UNCHANGED <<flow, store, rest>>

\* CompleteAssistedAuthority, once a frame while there is a result.
Commit == /\ AtRoute
          /\ trial.final # None
          /\ flow' = "Reward"
          /\ UNCHANGED <<trial, unsaved, calls, store, rest>> /\ Unhurt

CommitFails == /\ AtRoute
               /\ trial.final # None
               /\ unsaved' = TRUE
               /\ UNCHANGED <<trial, flow, calls, store, rest>>
               /\ Suffer({})

-----------------------------------------------------------------------------
(* The end of a call.  Only the controller that waits for it learns of it.  *)

Ends(c, t) == /\ calls' = calls \ {c}
              /\ trial' = IF c.live THEN t ELSE trial
              /\ UNCHANGED <<flow, unsaved>>

Refuse(c, retryable) == /\ Ends(c, SetFailure(trial, RetryOf(c.kind, retryable)))
                        /\ UNCHANGED store

\* InitializeBatch.
Serves(c, r) == Ends(c, [trial EXCEPT !.state = "WorkedExample", !.batch = r])

\* ValidateCompletion compares the result with what was submitted.
Reveals(c, result) ==
    Ends(c, IF result.id = c.id /\ result.sheet = c.sheet /\ result.route = c.route
            THEN [trial EXCEPT !.state = "Revealed", !.final = result]
            ELSE SetFailure(trial, "nothing"))

-----------------------------------------------------------------------------
(* Preparing.                                                               *)

Cleared == completion # None

\* load_preparation: the request has a receipt, with the same payload.
Replays(c) == c.id \in receipts

\* load_active: the route of a world that is not cleared.
Active == IF Cleared THEN None ELSE route

NormalQuizIsActive == leftOpen

StaleHead(c) == head # c.head

Alias(c) == /\ receipts' = receipts \cup {c.id}
            /\ UNCHANGED <<route, completion>>
            /\ Serves(c, route)

Create(c) == LET r == [id |-> c.id, head |-> c.head] IN
             /\ route' = r
             /\ receipts' = receipts \cup {c.id}
             /\ UNCHANGED completion
             /\ Serves(c, r)

\* (mutant) The transaction does not look for a route that is already there.
CreateAnew(c) == CASE NormalQuizIsActive \/ StaleHead(c) -> Refuse(c, FALSE)
                   [] OTHER -> Create(c)

\* One transaction: whatever happened since, there is one route.
CreatePrepared(c) ==
    CASE Replays(c) -> Serves(c, route) /\ UNCHANGED store
      [] ~Replays(c) /\ Active # None -> Alias(c)
      [] ~Replays(c) /\ Active = None /\ (NormalQuizIsActive \/ StaleHead(c)) ->
             Refuse(c, FALSE)
      [] OTHER -> Create(c)

\* prepare_assisted_route up to its wait for the model.
Start(c) ==
    /\ c.kind = "prepare" /\ c.step = "sent"
    /\ CASE ~current -> Refuse(c, FALSE)
         [] current /\ ~Replays(c) /\ Cleared -> Refuse(c, FALSE)
         [] current /\ (Replays(c) \/ Active # None) -> CreatePrepared(c)
         [] OTHER -> /\ calls' = (calls \ {c})
                                    \cup {[c EXCEPT !.step = "building", !.head = head]}
                     /\ UNCHANGED <<client, store>>
    /\ UNCHANGED rest /\ Unhurt

\* What follows the wait, all of it in one go.
Finish(c) ==
    /\ c.kind = "prepare" /\ c.step = "building"
    /\ IF ~current \/ StaleHead(c) \/ Cleared THEN Refuse(c, FALSE)
                                              ELSE CreatePrepared(c)
    /\ UNCHANGED rest /\ Unhurt

\* No verified material: safe_content_unavailable.
BuildFails(c) == /\ c.kind = "prepare" /\ c.step = "building"
                 /\ Refuse(c, FALSE)
                 /\ UNCHANGED rest
                 /\ Suffer({})

-----------------------------------------------------------------------------
(* Completing, which waits for nothing.                                     *)

Answers(c) == [id |-> c.id, sheet |-> c.sheet, route |-> c.route]

\* _assisted_replay: the recorded result, for the request that recorded it.
Recorded(c) == /\ completion.id = c.id
               /\ completion.route = c.route /\ completion.sheet = c.sheet

\* (mutant) The result is given before the event is appended.
CompleteUnrecorded(c) ==
    /\ c.kind = "complete"
    /\ current /\ ~Cleared /\ route = c.route
    /\ Reveals(c, Answers(c)) /\ UNCHANGED store
    /\ UNCHANGED rest /\ Unhurt

Complete(c) ==
    /\ c.kind = "complete"
    /\ CASE ~current -> Refuse(c, FALSE)
         [] current /\ Cleared -> IF Recorded(c)
                                  THEN Reveals(c, completion) /\ UNCHANGED store
                                  ELSE Refuse(c, FALSE)
         [] current /\ ~Cleared /\ route # c.route -> Refuse(c, FALSE)
         [] OTHER -> /\ completion' = Answers(c)
                     /\ UNCHANGED <<route, receipts>>
                     /\ Reveals(c, Answers(c))
    /\ UNCHANGED rest /\ Unhurt

\* The database is locked: storage_busy.
StorageBusy(c) == /\ c.kind = "complete"
                  /\ current
                  /\ Refuse(c, TRUE)
                  /\ UNCHANGED rest
                  /\ Suffer({})

-----------------------------------------------------------------------------
(* What else happens.                                                       *)

\* The connection breaks, or the 15 seconds are over.  The call goes on.
GiveUp(c) == /\ c.live
             /\ trial' = SetFailure(trial, RetryOf(c.kind, TRUE))
             /\ calls' = (calls \ {c}) \cup {[c EXCEPT !.live = FALSE]}
             /\ UNCHANGED <<flow, unsaved, store, rest>>
             /\ Suffer({})

\* The service dies and is started again.
Die == /\ calls # {}
       /\ calls' = {}
       /\ trial' = IF \E c \in calls : c.live
                   THEN LET c == CHOOSE c \in calls : c.live IN
                        SetFailure(trial, RetryOf(c.kind, TRUE))
                   ELSE trial
       /\ UNCHANGED <<flow, unsaved, store, rest>>
       /\ Suffer({})

\* Another command of the profile appends an event, a late report of a
\* revived combat say.
HeadMoves == /\ head < MaxMoves
             /\ head' = head + 1
             /\ UNCHANGED <<client, calls, store, current, leftOpen>> /\ Unhurt

\* Somebody else begins a session of the profile.
Rotate == /\ current
          /\ current' = FALSE
          /\ UNCHANGED <<client, calls, store, head, leftOpen>>
          /\ Suffer({"rotation"})

-----------------------------------------------------------------------------
Serve == \E c \in calls : Start(c) \/ Finish(c) \/ Complete(c)

Press == \/ AcknowledgeWorkedExample
         \/ RecoverPreparation
         \/ RetryCompletion
         \/ \E sheet \in Sheets : Submit(sheet)

Next == \/ Serve
        \/ Press
        \/ AdvanceFeedback
        \/ Commit
        \/ CommitFails
        \/ ReturnToMap
        \/ Restart
        \/ \E c \in calls : BuildFails(c) \/ StorageBusy(c) \/ GiveUp(c)
        \/ Die
        \/ HeadMoves
        \/ Rotate

Spec == Init /\ [][Next]_vars

-----------------------------------------------------------------------------
\* Every variable keeps its shape, and at most one call is waited for.
TypeOK ==
    /\ trial \in [state : {"Preparing", "WorkedExample", "Answering", "Submitting",
                           "Revealed", "Complete", "Failed"},
                  request : Ids, batch : Routes \cup {None},
                  submission : Submissions \cup {None},
                  final : Completions \cup {None},
                  retry : {"nothing", "prepare", "complete"}, page : 0..NumPages]
    /\ flow \in {"Route", "Reward"}
    /\ unsaved \in BOOLEAN
    /\ calls \subseteq Calls
    /\ Cardinality({c \in calls : c.live}) <= 1
    /\ route \in Routes \cup {None}
    /\ receipts \subseteq Ids
    /\ completion \in Completions \cup {None}
    /\ head \in 0..MaxMoves
    /\ current \in BOOLEAN /\ leftOpen \in BOOLEAN
    /\ suffered \subseteq {"left open", "rotation", "submission forgotten"}
    /\ faults \in 0..MaxFaults

\* The batch on the screen is the stored route, whichever of several copies
\* of its preparation made it and whatever the client asked for in between.
ShownIsStored == trial.batch \in {None, route}

\* The feedback on the screen is the recorded completion, with the answers
\* the learner gave: it is never shown before, or beside, the event.
FeedbackIsRecorded ==
    trial.final # None => /\ completion = trial.final
                          /\ trial.submission = [id |-> completion.id,
                                                 sheet |-> completion.sheet]

\* What the code does not recover from.
Stranding == {"left open", "rotation", "submission forgotten"}

\* A learner who goes on reaches the reward of the route.
Fairness == WF_vars(Serve) /\ WF_vars(Press) /\ WF_vars(Commit)

LiveSpec == Spec /\ Fairness

RouteEnds == <>(flow = "Reward" \/ suffered \cap Stranding # {})

\* A route that was completed is never lost: the client that begins over can
\* still have the result, for which it needs the submission's request.
CompletionIsReached ==
    completion # None => /\ trial.submission # None
                         /\ trial.submission.id = completion.id

\* The reward comes after the feedback to both questions.
FeedbackIsRead == flow = "Reward" => trial.page = NumPages
=============================================================================
