----------------------------- MODULE QuizClient -----------------------------
(***************************************************************************)
(* One route trial as the learner meets it: the Unity QuizController and   *)
(* AtlasTrialPanel, the HTTP client between, and the quiz endpoints of the *)
(* service, whose snapshots are those of QuizMachine.                      *)
(*                                                                         *)
(* Every call carries a fresh request id.  A call may be lost, be answered *)
(* after its caller gave up on it, or reach the service after a later one; *)
(* the service may die, or fail between locking a first pass and scoring   *)
(* it.  The panel draws itself only when it is told to: what it shows and  *)
(* which buttons it left enabled is state of its own.                      *)
(*                                                                         *)
(* The session stays open and the battle is completed elsewhere, so no     *)
(* batch is closed here.  The learner answers a pass as a whole and leaves *)
(* the final feedback in one step.                                         *)
(***************************************************************************)
EXTENDS QuizMachine

CONSTANTS
    MaxFaults,      \* bound: lost or abandoned calls, deaths and storage errors
    TimesOut,       \* whether the transport gives a call up after 15 seconds
    NoSheet,        \* a pass with an item not answered yet
    NoCall          \* nothing is awaited, or served

ASSUME ClientBounds == /\ MaxFaults \in Nat /\ Requests # {} /\ 0 \notin Requests
                       /\ TimesOut \in BOOLEAN
ASSUME NoSheetAssumption == NoSheet \notin Sheets

VARIABLES
    \* the learner's side
    trial,      \* the QuizController
    panel,      \* the flags of the AtlasTrialPanel
    shown,      \* what the panel last drew: a view and the buttons it enabled
    awaiting,   \* the call the controller is waiting for
    purpose,    \* why the trial is held
    \* the wire
    net,        \* calls the service has not taken up yet
    replies,    \* replies under way
    \* the service
    quiz,       \* the stored quiz
    prepared,   \* the request the batch was prepared for, 0 if there is none
    serving,    \* the first pass that is locked and about to be scored
    \* bookkeeping
    told,       \* what the learner was ever shown
    suffered,   \* the kinds of fault there have been
    faults      \* and how many

client == <<trial, panel, shown, awaiting, purpose>>
wire == <<net, replies>>
service == <<quiz, prepared, serving>>
history == <<told, suffered, faults>>
vars == <<client, wire, service, history>>

Calls == [kind : {"prepare", "snapshot"}, id : Requests]
             \cup [kind : {"initial", "revision"}, id : Requests, sheet : Sheets]

\* A reply carries the stored quiz as it was, or refuses.
Replies == [to : Requests, ok : BOOLEAN, quiz : Machines]

Submitted(c) == [request |-> c.id, sheet |-> c.sheet]

\* What the final result of a revealed quiz says.
Result(m) == [first |-> m.initial.sheet, final |-> FinalSheet(m)]

NoResult == [first |-> NoSheet, final |-> NoSheet]

-----------------------------------------------------------------------------
(* The controller and the panel.                                            *)

\* ResetForLoading, and the state of a new controller.
Blank == [state |-> "Loading", batch |-> FALSE, failure |-> FALSE,
          canRecover |-> FALSE, sheet |-> NoSheet, initial |-> NoSubmission,
          revision |-> NoSubmission, wrong |-> -1, count |-> FALSE,
          final |-> NoResult, previous |-> "Loading"]

\* What PrepareAsync makes of the batch it gets.
Opened == [Blank EXCEPT !.batch = TRUE, !.state = "Answering"]

Editable(t) == t.state \in {"Answering", "Reviewing"} /\ ~t.count

NewPanel == [action |-> FALSE, retry |-> FALSE, unavailable |-> FALSE]

View(t, p) ==
    CASE p.unavailable \/ t.failure -> "Unavailable"
      [] ~p.unavailable /\ ~t.failure /\ ~t.batch -> "Loading"
      [] ~p.unavailable /\ ~t.failure /\ t.batch /\ t.count -> "WrongCount"
      [] OTHER -> CASE t.state \in {"Answering", "SubmittingInitial"} -> "Answering"
                    [] t.state \in {"Reviewing", "SubmittingRevision"} -> "Reviewing"
                    [] OTHER -> t.state

\* RequiresCompletionBeforeMap: the trial of a lost combat cannot be left.
MayLeave == purpose # "defeat recovery"

Enabled(button, t, p) ==
    LET view == View(t, p) IN
    CASE button = "primary" -> /\ ~p.action
                               /\ \/ view \in {"WrongCount", "Revealed"}
                                  \/ /\ view \in {"Answering", "Reviewing"}
                                     /\ t.sheet # NoSheet
      [] button = "options" -> view \in {"Answering", "Reviewing"}
      [] button = "retry"   -> view = "Unavailable" /\ ~p.retry
      [] button = "back"    -> view = "Unavailable" /\ MayLeave

\* RenderFromController.
Render(t, p) ==
    [view |-> View(t, p),
     buttons |-> {b \in {"primary", "options", "retry", "back"} : Enabled(b, t, p)}]

Disclosed(t) == (IF t.wrong >= 0 THEN {"count"} ELSE {})
                    \cup (IF t.final # NoResult THEN {"truth"} ELSE {})

\* The controller becomes t and the panel p; it was last drawn with the flags q.
Becomes(t, p, q) == /\ trial' = t
                    /\ panel' = p
                    /\ shown' = Render(t, q)
                    /\ told' = told \cup Disclosed(t)
                    /\ UNCHANGED purpose

\* A request id nobody uses.
Fresh == Requests \ ({c.id : c \in net} \cup {r.to : r \in replies} \cup {prepared}
                       \cup {c.id : c \in {serving, awaiting} \ {NoCall}}
                       \cup {s.request : s \in {quiz.initial, quiz.revision}
                                                  \ {NoSubmission}})

Send(c) == /\ Fresh # {}
           /\ awaiting' = c
           /\ net' = net \cup {c}
           /\ UNCHANGED <<replies, service>>

NewId == CHOOSE id \in Fresh : TRUE

Call(k) == [kind |-> k, id |-> NewId]

Submit(k) == [kind |-> k, id |-> NewId, sheet |-> trial.sheet]

Suffer(kinds) == /\ faults < MaxFaults
                 /\ faults' = faults + 1
                 /\ suffered' = suffered \cup kinds

Unhurt == UNCHANGED <<suffered, faults>>

Init == /\ trial = Blank
        /\ panel = NewPanel
        /\ shown = [view |-> "Loading", buttons |-> {}]
        /\ purpose \in {"route trial", "defeat recovery"}
        /\ awaiting = [kind |-> "prepare", id |-> CHOOSE id \in Requests : TRUE]
        /\ net = {awaiting}
        /\ replies = {}
        /\ quiz = ReadyMachine
        /\ prepared = 0
        /\ serving = NoCall
        /\ told = {}
        /\ suffered = {}
        /\ faults = 0

-----------------------------------------------------------------------------
(* What the learner does.                                                   *)

\* SelectOption and SelectConfidence, for a whole pass.
Choose(s) == /\ "options" \in shown.buttons
             /\ ~panel.action
             /\ Editable(trial)
             /\ Becomes([trial EXCEPT !.sheet = s], panel, panel)
             /\ UNCHANGED <<awaiting, wire, service>> /\ Unhurt

Primary == "primary" \in shown.buttons /\ ~panel.action /\ ~panel.unavailable

AcknowledgeWrongCount ==
    /\ Primary
    /\ trial.count
    /\ Becomes([trial EXCEPT !.count = FALSE], panel, panel)
    /\ UNCHANGED <<awaiting, wire, service>> /\ Unhurt

AdvanceFinalFeedback ==
    /\ Primary
    /\ ~trial.count /\ trial.state = "Revealed"
    /\ Becomes([trial EXCEPT !.state = "Complete"], panel, panel)
    /\ UNCHANGED <<awaiting, wire, service>> /\ Unhurt

CanSubmit(state) == trial.state = state /\ ~trial.count /\ trial.sheet # NoSheet

SubmitPass(from, to, kind) ==
    LET p == [panel EXCEPT !.action = TRUE] IN
    /\ Primary
    /\ CanSubmit(from)
    /\ Becomes([trial EXCEPT !.state = to, !.failure = FALSE, !.canRecover = FALSE],
               p, p)
    /\ Send(Submit(kind)) /\ Unhurt

SubmitInitialAsync == SubmitPass("Answering", "SubmittingInitial", "initial")

SubmitRevisionAsync == SubmitPass("Reviewing", "SubmittingRevision", "revision")

Recovers == ~panel.unavailable /\ trial.canRecover /\ trial.batch

Retry == "retry" \in shown.buttons /\ ~panel.retry

\* RecoverAsync: the failure stays on the screen until the answer is there.
RecoverAsync ==
    LET p == [panel EXCEPT !.retry = TRUE] IN
    /\ Retry
    /\ Recovers
    /\ Becomes([trial EXCEPT !.state = "Loading", !.previous = trial.state], p, p)
    /\ Send(Call("snapshot")) /\ Unhurt

\* RetryStandardTrial prepares again, under another request id.
RetryPreparation ==
    LET p == [panel EXCEPT !.retry = TRUE] IN
    /\ Retry
    /\ ~Recovers
    /\ Becomes(Blank, p, p)
    /\ Send(Call("prepare")) /\ Unhurt

\* Back to the map, from where the pending trial is begun anew.
ReturnToMap == /\ "back" \in shown.buttons
               /\ Becomes(Blank, NewPanel, NewPanel)
               /\ Send(Call("prepare"))
               /\ Suffer({"lost preparation"})

-----------------------------------------------------------------------------
(* What the service does.  It runs one command at a time.                   *)

Reply(c, ok, m) == /\ net' = net \ {c}
                   /\ replies' = replies \cup {[to |-> c.id, ok |-> ok, quiz |-> m]}

Takes(c, kind) == serving = NoCall /\ c.kind = kind

\* The profile has no batch in progress.
NothingInProgress == prepared = 0

PrepareBatch(c) ==
    /\ Takes(c, "prepare")
    /\ Reply(c, NothingInProgress, quiz)
    /\ prepared' = IF NothingInProgress THEN c.id ELSE prepared
    /\ UNCHANGED <<client, quiz, serving, history>>

GetQuizSnapshot(c) == /\ Takes(c, "snapshot")
                      /\ Reply(c, TRUE, quiz)
                      /\ UNCHANGED <<client, service, history>>

\* The first pass is durable before it is scored.  No request id is sent
\* twice, so there is no recorded outcome to replay.
LockFirstPass(c) ==
    /\ Takes(c, "initial")
    /\ \/ /\ LockAccepts(quiz)
          /\ quiz' = LockInitial(quiz, Submitted(c))
          /\ serving' = c
          /\ net' = net \ {c}
          /\ UNCHANGED replies
       \/ /\ ~LockAccepts(quiz)
          /\ Reply(c, FALSE, quiz)
          /\ UNCHANGED <<quiz, serving>>
    /\ UNCHANGED <<client, prepared, history>>

Score == /\ serving # NoCall
         /\ quiz' = ResolveInitial(quiz)
         /\ Reply(serving, TRUE, ResolveInitial(quiz))
         /\ serving' = NoCall
         /\ UNCHANGED <<client, prepared, history>>

ReviseOnce(c) ==
    LET m == IF RevisionAccepts(quiz) THEN SubmitRevision(quiz, Submitted(c))
                                      ELSE quiz
    IN  /\ Takes(c, "revision")
        /\ quiz' = m
        /\ Reply(c, RevisionAccepts(quiz), m)
        /\ UNCHANGED <<client, prepared, serving, history>>

-----------------------------------------------------------------------------
(* What the controller makes of an answer.                                  *)

\* The panel when the awaited call is over.
Idle == [panel EXCEPT !.action = FALSE, !.retry = FALSE]

Continue(t, p) == /\ Becomes(t, p, p)
                  /\ awaiting' = NoCall
                  /\ UNCHANGED service

\* (mutant) A failed snapshot is not asked for again.
SetFailureForGood(state) ==
    [trial EXCEPT !.state = state, !.failure = TRUE,
                  !.canRecover = awaiting.kind # "snapshot"]

SetFailure(state) ==
    [trial EXCEPT !.state = state, !.failure = TRUE, !.canRecover = TRUE]

\* Where a call that fails leaves the controller.
Back == CASE awaiting.kind = "prepare"  -> "Loading"
          [] awaiting.kind = "snapshot" -> trial.previous
          [] awaiting.kind = "initial"  -> "Answering"
          [] awaiting.kind = "revision" -> "Reviewing"

\* CompleteRuntimeRetry: a retried preparation that fails keeps failing.
Failed == Continue(SetFailure(Back),
                   [Idle EXCEPT !.unavailable = awaiting.kind = "prepare" /\ panel.retry])

InitialResult(m) ==
    [trial EXCEPT !.initial = Submitted(awaiting), !.wrong = WrongCount(m),
                  !.count = TRUE,
                  !.final = IF ZeroWrong(m) THEN Result(m) ELSE @,
                  !.state = IF ZeroWrong(m) THEN "Revealed" ELSE "Reviewing"]

FinalResult(m) == [trial EXCEPT !.revision = Submitted(awaiting),
                                !.final = Result(m), !.state = "Revealed"]

\* ValidateFinalAgainstSubmissions.
Validated(m) ==
    CASE awaiting.kind = "initial"  ->
             ZeroWrong(m) => Result(m) = [first |-> awaiting.sheet,
                                          final |-> awaiting.sheet]
      [] awaiting.kind = "revision" -> Result(m) = [first |-> trial.initial.sheet,
                                                    final |-> awaiting.sheet]
      [] OTHER -> TRUE

\* ApplySnapshot, after which RecoverAsync takes the failure back.
Recovered(m) ==
    [Opened EXCEPT
        !.initial = m.initial, !.revision = m.revision,
        !.sheet = IF m.initial = NoSubmission THEN NoSheet ELSE FinalSheet(m),
        !.wrong = IF Resolved(m) THEN WrongCount(m) ELSE -1,
        !.final = IF Revealed(m) THEN Result(m) ELSE NoResult,
        !.count = m.state = "revision_open",
        !.state = CASE m.state = "ready"          -> "Answering"
                    [] m.state = "initial_locked" -> "SubmittingInitial"
                    [] m.state = "revision_open"  -> "Reviewing"
                    [] m.state = "revealed"       -> "Revealed"
                    [] m.state = "closed"         -> "Complete"]

\* (mutant) The answers on the screen are kept as the recovered first pass.
AcceptedOnScreen(m) ==
    CASE awaiting.kind = "prepare"  -> Opened
      [] awaiting.kind = "snapshot" ->
             [Recovered(m) EXCEPT !.initial =
                 IF @ = NoSubmission THEN @ ELSE [@ EXCEPT !.sheet = trial.sheet]]
      [] awaiting.kind = "initial"  -> InitialResult(m)
      [] awaiting.kind = "revision" -> FinalResult(m)

Accepted(m) == CASE awaiting.kind = "prepare"  -> Opened
                 [] awaiting.kind = "snapshot" -> Recovered(m)
                 [] awaiting.kind = "initial"  -> InitialResult(m)
                 [] awaiting.kind = "revision" -> FinalResult(m)

Awaits(r) == awaiting # NoCall /\ r.to = awaiting.id

Answered(r) == /\ Awaits(r)
               /\ IF r.ok /\ Validated(r.quiz)
                  THEN Continue(Accepted(r.quiz), [Idle EXCEPT !.unavailable = FALSE])
                  ELSE Failed
               /\ replies' = replies \ {r}
               /\ UNCHANGED net /\ Unhurt

\* The answer to a call given up long ago.
Ignored(r) == /\ ~Awaits(r)
              /\ replies' = replies \ {r}
              /\ UNCHANGED <<client, net, service, history>>

-----------------------------------------------------------------------------
(* What can go wrong.                                                       *)

IsPreparation == awaiting # NoCall /\ awaiting.kind = "prepare"

PreparationLost == IF IsPreparation THEN {"lost preparation"} ELSE {}

\* The connection breaks: runtime_unavailable.  The call may still arrive.
Disconnect(c) == /\ awaiting # NoCall
                 /\ Failed
                 /\ net' = net \ {c}
                 /\ replies' = {r \in replies : ~Awaits(r)}
                 /\ Suffer(PreparationLost \cup {"disconnect"})

\* The 15 seconds are over and HttpClient raises a TaskCanceledException,
\* which is passed on as a cancellation: nothing has failed.  The panel is
\* told while its flags are still up, and not told again.
TimeOut ==
    /\ TimesOut
    /\ awaiting # NoCall
    /\ awaiting' = NoCall
    /\ IF IsPreparation
       THEN UNCHANGED <<trial, panel, shown, purpose, told>>
       ELSE Becomes([trial EXCEPT !.state = Back], Idle, panel)
    /\ UNCHANGED <<wire, service>>
    /\ Suffer({"timeout"})

HalfServed == IF serving = NoCall THEN {} ELSE {"half served"}

\* The service dies and is started again.
Die == /\ serving' = NoCall
       /\ net' = {} /\ replies' = {}
       /\ Suffer(PreparationLost \cup HalfServed \cup {"death"})
       /\ UNCHANGED <<client, quiz, prepared, told>>

\* Scoring finds the database locked: storage_busy.
StorageBusy == /\ serving # NoCall
               /\ Reply(serving, FALSE, quiz)
               /\ serving' = NoCall
               /\ Suffer(HalfServed)
               /\ UNCHANGED <<client, quiz, prepared, told>>

\* Nothing will answer the awaited call any more.
NoAnswer == /\ awaiting # NoCall
            /\ \A c \in net \cup {serving} : c # awaiting
            /\ \A r \in replies : ~Awaits(r)
            /\ Failed
            /\ UNCHANGED wire /\ Unhurt

-----------------------------------------------------------------------------
Serve == \/ \E c \in net : \/ PrepareBatch(c)
                           \/ GetQuizSnapshot(c)
                           \/ LockFirstPass(c)
                           \/ ReviseOnce(c)
         \/ Score

Receive == (\E r \in replies : Answered(r) \/ Ignored(r)) \/ NoAnswer

Press == \/ AcknowledgeWrongCount
         \/ AdvanceFinalFeedback
         \/ SubmitInitialAsync
         \/ SubmitRevisionAsync
         \/ RecoverAsync
         \/ RetryPreparation

Next == \/ Serve
        \/ Receive
        \/ Press
        \/ \E s \in Sheets : Choose(s)
        \/ ReturnToMap
        \/ \E c \in net \cup {NoCall} : Disconnect(c)
        \/ TimeOut
        \/ Die
        \/ StorageBusy

Spec == Init /\ [][Next]_vars

-----------------------------------------------------------------------------
TrialStates == {"Loading", "Answering", "SubmittingInitial", "Reviewing",
                "SubmittingRevision", "Revealed", "Complete"}

Kinds == {"lost preparation", "disconnect", "timeout", "half served", "death"}

\* Every variable keeps its shape.
TypeOK ==
    /\ trial \in [state : TrialStates, batch : BOOLEAN, failure : BOOLEAN,
                  canRecover : BOOLEAN, sheet : Sheets \cup {NoSheet},
                  initial : Submissions \cup {NoSubmission},
                  revision : Submissions \cup {NoSubmission},
                  wrong : -1..NumItems, count : BOOLEAN,
                  final : [first : Sheets \cup {NoSheet},
                           final : Sheets \cup {NoSheet}],
                  previous : TrialStates]
    /\ panel \in [action : BOOLEAN, retry : BOOLEAN, unavailable : BOOLEAN]
    /\ shown \in [view : {"Unavailable", "WrongCount"} \cup TrialStates,
                  buttons : SUBSET {"primary", "options", "retry", "back"}]
    /\ awaiting \in Calls \cup {NoCall}
    /\ purpose \in {"route trial", "defeat recovery"}
    /\ net \subseteq Calls
    /\ replies \subseteq Replies
    /\ quiz \in Machines
    /\ prepared \in Requests \cup {0}
    /\ serving \in Calls \cup {NoCall}
    /\ told \subseteq {"count", "truth"}
    /\ suffered \subseteq Kinds
    /\ faults \in 0..MaxFaults

\* What the learner sees is what the service recorded, however calls were
\* lost, late or overtaken: the first pass and the revision the controller
\* holds are the stored ones, the count and the truth it shows are theirs.
ShownIsRecorded ==
    /\ trial.initial \in {NoSubmission, quiz.initial}
    /\ trial.revision \in {NoSubmission, quiz.revision}
    /\ trial.wrong >= 0 => Resolved(quiz) /\ trial.wrong = WrongCount(quiz)
    /\ trial.final # NoResult => Revealed(quiz) /\ trial.final = Result(quiz)

\* The faults that strand a trial: an answer to the preparation that did not
\* come, a call that timed out, a first pass locked and not scored.
Stranding == {"lost preparation", "timeout", "half served"}

\* A way on: the panel shows a button that does something.
WayOn == \/ Primary /\ (trial.count \/ trial.state = "Revealed"
                           \/ CanSubmit("Answering") \/ CanSubmit("Reviewing"))
         \/ "options" \in shown.buttons /\ ~panel.action /\ Editable(trial)
         \/ Retry
         \/ "back" \in shown.buttons

\* Failure never leaves the learner in front of a dead screen.
AlwaysAWayOn == awaiting = NoCall /\ trial.state # "Complete" => WayOn

\* The trial the learner meets is the two-pass quiz: every count and truth
\* shown comes after the score and the reveal.
TwoPass == INSTANCE TwoPassQuiz WITH
    NoSheet <- NoSubmission,
    phase <- CASE quiz.state = "ready" -> "open"
               [] quiz.state = "initial_locked" -> "locked"
               [] quiz.state = "revision_open" -> "revising"
               [] OTHER -> quiz.state,
    first <- IF quiz.initial = NoSubmission THEN NoSubmission ELSE quiz.initial.sheet,
    final <- IF Revealed(quiz) THEN FinalSheet(quiz) ELSE NoSubmission,
    recorded <- {}

ImplementsTwoPass == TwoPass!Spec

-----------------------------------------------------------------------------
(* Liveness.  The service serves, answers arrive, and a learner who wants   *)
(* to get on fills in what is missing and presses what there is.            *)

Answer == \E s \in Sheets : "primary" \notin shown.buttons /\ Choose(s)

Fairness == /\ WF_vars(Serve)
            /\ WF_vars(Receive)
            /\ WF_vars(Press)
            /\ WF_vars(Answer)

LiveSpec == Spec /\ Fairness

\* Every trial is completed, unless one of those faults strands it.
TrialEnds == <>(trial.state = "Complete" \/ suffered \cap Stranding # {})
=============================================================================
