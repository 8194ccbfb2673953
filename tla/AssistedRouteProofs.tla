------------------------- MODULE AssistedRouteProofs -------------------------
(* Theorems of AssistedRoute: for any number of requests, faults and events *)
(* of other commands, the batch on the screen is the stored route and its   *)
(* feedback is the recorded completion.                                     *)
EXTENDS AssistedRoute, TLAPS

-----------------------------------------------------------------------------
(* Type correctness: the data the argument is about.                        *)

Trials == [state : {"Preparing", "WorkedExample", "Answering", "Submitting",
                    "Revealed", "Complete", "Failed"},
           request : Ids, batch : Routes \cup {None},
           submission : Submissions \cup {None},
           final : Completions \cup {None},
           retry : {"nothing", "prepare", "complete"}, page : Nat]

Shape == /\ trial \in Trials
         /\ calls \subseteq Calls
         /\ route \in Routes \cup {None}
         /\ receipts \subseteq Ids
         /\ completion \in Completions \cup {None}
         /\ head \in 0..MaxMoves

LEMMA NewIdIsAnId == Fresh # {} => NewId \in Ids
  BY DEF Fresh, NewId

Preparations == [kind : {"prepare"}, id : Ids, live : BOOLEAN,
                 step : {"sent", "building"}, head : 0..MaxMoves]

Completings == [kind : {"complete"}, id : Ids, live : BOOLEAN,
                sheet : Sheets, route : Routes]

\* A call is one or the other, and its kind tells.
LEMMA Kinds ==
    /\ Calls = Preparations \cup Completings
    /\ \A c \in Calls : c.kind = "prepare" => c \in Preparations
    /\ \A c \in Calls : c.kind = "complete" => c \in Completings
  BY DEF Calls, Preparations, Completings

LEMMA Prepares ==
    ASSUME NEW id \in Ids
    PROVE  PrepareCall(id) \in Calls /\ PrepareCall(id).live
  BY RouteBounds, Kinds DEF PrepareCall, Preparations

\* A call that is abandoned goes on.
LEMMA Abandons ==
    ASSUME NEW c \in Calls
    PROVE  [c EXCEPT !.live = FALSE] \in Calls
<1>1. CASE c \in Preparations
  BY <1>1, Kinds DEF Preparations
<1>2. CASE c \in Completings
  BY <1>2, Kinds DEF Completings
<1>. QED
  BY <1>1, <1>2, Kinds

LEMMA PreparingShape == \A id \in Ids : Preparing(id) \in Trials
  BY DEF Preparing, Trials

-----------------------------------------------------------------------------
(* The inductive invariant.                                                 *)

\* What the controller shows and offers fits its state.
Sound(t) ==
    /\ t.retry # "nothing" => t.state = "Failed"
    /\ t.retry = "complete" => t.submission \in Submissions /\ t.batch \in Routes
    /\ t.state \in {"WorkedExample", "Answering"} => t.batch \in Routes
    /\ t.final # None => t.state \in {"Revealed", "Complete"}

\* One call at most is waited for,
OneWaited == \A c, d \in calls : c.live /\ d.live => c = d

\* by a controller that is in the state of that call and remembers what it
\* submitted; copies nobody waits for are free to do as they like.
Waits ==
    \A c \in calls : c.live =>
        /\ c.kind = "prepare" => trial.state = "Preparing"
        /\ c.kind = "complete" =>
               /\ trial.state = "Submitting"
               /\ trial.submission = [id |-> c.id, sheet |-> c.sheet]
               /\ trial.batch = c.route

\* A request has a receipt only for a route that was stored.
ReceiptsHaveRoute == receipts # {} => route \in Routes

IInv == /\ Shape /\ Sound(trial) /\ OneWaited /\ Waits /\ ReceiptsHaveRoute
        /\ ShownIsStored /\ FeedbackIsRecorded

LEMMA Begins == Init => IInv
<1> SUFFICES ASSUME Init PROVE IInv
  OBVIOUS
<1>1. PICK id \in Ids : /\ trial = Preparing(id) /\ calls = {PrepareCall(id)}
                        /\ route = None /\ receipts = {} /\ completion = None /\ head = 0
  BY RouteBounds DEF Init
<1>2. Shape
  BY <1>1, RouteBounds, Prepares, PreparingShape DEF Shape
<1>3. Sound(trial) /\ OneWaited /\ Waits
  BY <1>1 DEF Sound, OneWaited, Waits, Preparing, PrepareCall
<1>. QED
  BY <1>1, <1>2, <1>3 DEF IInv, ReceiptsHaveRoute, ShownIsStored, FeedbackIsRecorded, Preparing

\* A step that leaves the screen and the store alone.
LEMMA Aside ==
    ASSUME IInv, UNCHANGED <<trial, calls, store>>, head' \in 0..MaxMoves
    PROVE  IInv'
  BY DEF IInv, Shape, Sound, OneWaited, Waits, ReceiptsHaveRoute, ShownIsStored,
     FeedbackIsRecorded, store

-----------------------------------------------------------------------------
(* The end of a call.                                                       *)

\* The controller gets t if it waited, and waits for nothing then.
LEMMA CallEnds ==
    ASSUME IInv, NEW c \in calls, NEW t, Ends(c, t),
           c.live => t \in Trials /\ Sound(t)
    PROVE  /\ trial' \in Trials /\ calls' \subseteq Calls
           /\ Sound(trial') /\ OneWaited' /\ Waits'
           /\ trial' = IF c.live THEN t ELSE trial
<1>1. /\ calls' = calls \ {c}
      /\ trial' = IF c.live THEN t ELSE trial
  BY DEF Ends
<1>2. OneWaited'
  BY <1>1 DEF IInv, OneWaited
<1>3. Waits'
  <2>1. CASE c.live
    BY <1>1, <2>1 DEF IInv, OneWaited, Waits
  <2>2. CASE ~c.live
    BY <1>1, <2>2 DEF IInv, Waits
  <2>. QED
    BY <2>1, <2>2
<1>. QED
  BY <1>1, <1>2, <1>3 DEF IInv, Shape

\* A refusal changes nothing but the controller that waited for the call; of
\* a completion it knows what it submitted.
LEMMA Refusals ==
    ASSUME IInv, NEW c \in calls, NEW retryable \in BOOLEAN, Refuse(c, retryable),
           head' \in 0..MaxMoves
    PROVE  IInv'
<1> DEFINE t == SetFailure(trial, RetryOf(c.kind, retryable))
<1>1. Ends(c, t) /\ UNCHANGED store
  BY DEF Refuse
<1>2. c \in Calls /\ trial \in Trials
  BY DEF IInv, Shape
<1>3. RetryOf(c.kind, retryable) \in {"nothing", "prepare", "complete"}
      /\ (RetryOf(c.kind, retryable) = "complete" => c.kind = "complete")
  BY <1>2 DEF RetryOf, Calls
<1>4. t \in Trials /\ t = [trial EXCEPT !.state = "Failed", !.retry = RetryOf(c.kind, retryable)]
  BY <1>2, <1>3 DEF SetFailure, Trials
<1>5. c.live => trial.final = None
  BY <1>2 DEF IInv, Waits, Sound, Calls
<1>6. c.live /\ c.kind = "complete" => trial.submission \in Submissions /\ trial.batch \in Routes
  <2> SUFFICES ASSUME c.live, c.kind = "complete"
               PROVE  trial.submission \in Submissions /\ trial.batch \in Routes
    OBVIOUS
  <2>1. c \in Completings
    BY <1>2, Kinds
  <2>2. trial.submission = [id |-> c.id, sheet |-> c.sheet] /\ trial.batch = c.route
    BY DEF IInv, Waits
  <2>. QED
    BY <2>1, <2>2 DEF Completings, Submissions
<1>7. c.live => Sound(t)
  BY <1>2, <1>3, <1>4, <1>5, <1>6 DEF Sound, Trials
<1> HIDE DEF t
<1>8. /\ trial' \in Trials /\ calls' \subseteq Calls
      /\ Sound(trial') /\ OneWaited' /\ Waits'
      /\ trial' = IF c.live THEN t ELSE trial
  BY <1>1, <1>4, <1>7, CallEnds
<1>9. trial'.batch = trial.batch /\ trial'.final = trial.final
      /\ trial'.submission = trial.submission
  BY <1>2, <1>4, <1>8 DEF Trials
<1>. QED
  BY <1>1, <1>8, <1>9 DEF IInv, Shape, store, ReceiptsHaveRoute, ShownIsStored,
     FeedbackIsRecorded

\* A preparation that is served shows a route; nothing is submitted then.
LEMMA Served ==
    ASSUME IInv, NEW c \in calls, c.kind = "prepare", NEW r \in Routes, Serves(c, r)
    PROVE  /\ trial' \in Trials /\ calls' \subseteq Calls
           /\ Sound(trial') /\ OneWaited' /\ Waits'
           /\ trial'.batch \in {trial.batch, r}
           /\ UNCHANGED <<trial.final, trial.submission>>
<1> DEFINE t == [trial EXCEPT !.state = "WorkedExample", !.batch = r]
<1>1. Ends(c, t)
  BY DEF Serves
<1>2. c.live => trial.state = "Preparing" /\ trial.final = None /\ trial.retry = "nothing"
  BY DEF IInv, Waits, Sound, Shape, Trials
<1>3. t \in Trials /\ (c.live => Sound(t))
  BY <1>2 DEF IInv, Shape, Trials, Sound
<1>4. t.batch = r /\ t.final = trial.final /\ t.submission = trial.submission
  BY DEF IInv, Shape, Trials
<1> HIDE DEF t
<1>. QED
  BY <1>1, <1>3, <1>4, CallEnds

-----------------------------------------------------------------------------
(* Preparing.                                                               *)

\* Whoever prepares, there is one route: the one that is stored, or a new one
\* when there is none, and then nothing was shown before.
LEMMA Transaction ==
    ASSUME IInv, NEW c \in calls, c.kind = "prepare", CreatePrepared(c),
           Replays(c) \/ ~Cleared, head' \in 0..MaxMoves
    PROVE  IInv'
<1>0. c \in Calls /\ c.id \in Ids
  BY DEF IInv, Shape, Calls
<1>1. CASE Replays(c)
  <2>1. route \in Routes
    BY <1>1 DEF Replays, IInv, ReceiptsHaveRoute
  <2>2. Serves(c, route) /\ UNCHANGED store
    BY <1>1 DEF CreatePrepared
  <2>. QED
    BY <2>1, <2>2, Served DEF IInv, Shape, store, ReceiptsHaveRoute, ShownIsStored,
       FeedbackIsRecorded
<1>2. CASE ~Replays(c) /\ route # None
  <2>1. Active = route
    BY <1>2 DEF Active
  <2>2. Alias(c) /\ route \in Routes
    BY <1>2, <2>1 DEF CreatePrepared, IInv, Shape
  <2>. QED
    BY <1>0, <2>2, Served DEF Alias, IInv, Shape, ReceiptsHaveRoute, ShownIsStored,
       FeedbackIsRecorded
<1>3. CASE ~Replays(c) /\ route = None
  <2>1. Active = None
    BY <1>3 DEF Active
  <2>2. CASE NormalQuizIsActive \/ StaleHead(c)
    BY <1>3, <2>1, <2>2, Refusals DEF CreatePrepared
  <2>3. CASE ~(NormalQuizIsActive \/ StaleHead(c))
    <3> DEFINE r == [id |-> c.id, head |-> c.head]
    <3>1. Create(c)
      BY <1>3, <2>1, <2>3 DEF CreatePrepared
    <3>2. /\ Serves(c, r) /\ route' = r /\ receipts' = receipts \cup {c.id}
          /\ UNCHANGED completion
      BY <3>1 DEF Create
    <3>3. r \in Routes
      BY <1>0 DEF Calls, Routes
    <3>4. trial.batch = None
      BY <1>3 DEF IInv, ShownIsStored
    <3> HIDE DEF r
    <3>. QED
      BY <1>0, <3>2, <3>3, <3>4, Served DEF IInv, Shape, ReceiptsHaveRoute, ShownIsStored,
         FeedbackIsRecorded
  <2>. QED
    BY <2>2, <2>3
<1>. QED
  BY <1>1, <1>2, <1>3

-----------------------------------------------------------------------------
(* Completing.                                                              *)

\* A controller that waits for a completion submitted what it answers, so it
\* shows it.
LEMMA Revealed ==
    ASSUME IInv, NEW c \in calls, c.kind = "complete", NEW result \in Completions,
           Reveals(c, result)
    PROVE  /\ trial' \in Trials /\ calls' \subseteq Calls
           /\ Sound(trial') /\ OneWaited' /\ Waits'
           /\ trial'.batch = trial.batch
           /\ trial'.submission = trial.submission
           /\ trial'.final = trial.final
                  \/ /\ trial'.final = result
                     /\ trial.submission = [id |-> result.id, sheet |-> result.sheet]
<1>1. c \in Completings /\ trial \in Trials
  BY Kinds DEF IInv, Shape
<1>2. c.live => /\ trial.state = "Submitting"
                /\ trial.submission = [id |-> c.id, sheet |-> c.sheet]
                /\ trial.final = None /\ trial.retry = "nothing"
  BY <1>1 DEF IInv, Waits, Sound, Trials
<1>3. CASE result.id = c.id /\ result.sheet = c.sheet /\ result.route = c.route
  <2> DEFINE t == [trial EXCEPT !.state = "Revealed", !.final = result]
  <2>1. Ends(c, t)
    BY <1>3 DEF Reveals
  <2>2. t \in Trials /\ (c.live => Sound(t))
    BY <1>1, <1>2 DEF Trials, Sound
  <2>3. t.batch = trial.batch /\ t.final = result /\ t.submission = trial.submission
    BY <1>1 DEF Trials
  <2> HIDE DEF t
  <2>. QED
    BY <1>2, <1>3, <2>1, <2>2, <2>3, CallEnds
<1>4. CASE ~(result.id = c.id /\ result.sheet = c.sheet /\ result.route = c.route)
  <2> DEFINE t == [trial EXCEPT !.state = "Failed", !.retry = "nothing"]
  <2>1. Ends(c, t)
    BY <1>4 DEF Reveals, SetFailure
  <2>2. t \in Trials /\ (c.live => Sound(t))
    BY <1>1, <1>2 DEF Trials, Sound
  <2>3. t.batch = trial.batch /\ t.final = trial.final /\ t.submission = trial.submission
    BY <1>1 DEF Trials
  <2> HIDE DEF t
  <2>. QED
    BY <2>1, <2>2, <2>3, CallEnds
<1>. QED
  BY <1>3, <1>4

\* A completion is recorded once; what was shown before, nothing, and what is
\* shown now are both the recorded one.
LEMMA Completed ==
    ASSUME IInv, NEW c \in calls, Complete(c)
    PROVE  IInv'
<1>0. c \in Completings /\ c.kind = "complete" /\ head' \in 0..MaxMoves
  BY Kinds DEF Complete, IInv, Shape, rest
<1>1. Answers(c) \in Completions
      /\ Answers(c).id = c.id /\ Answers(c).sheet = c.sheet /\ Answers(c).route = c.route
  BY <1>0 DEF Answers, Completions, Completings
<1>2. CASE Refuse(c, FALSE)
  BY <1>0, <1>2, Refusals
<1>3. CASE Cleared /\ Reveals(c, completion) /\ UNCHANGED store
  <2>1. completion \in Completions
    BY <1>3 DEF Cleared, IInv, Shape
  <2>. QED
    BY <1>0, <1>3, <2>1, Revealed DEF IInv, Shape, store, ReceiptsHaveRoute, ShownIsStored,
       FeedbackIsRecorded, Complete, rest
<1>4. CASE /\ ~Cleared /\ completion' = Answers(c) /\ UNCHANGED <<route, receipts>>
           /\ Reveals(c, Answers(c))
  <2>1. trial.final = None
    BY <1>4 DEF Cleared, IInv, FeedbackIsRecorded
  <2>. QED
    BY <1>0, <1>1, <1>4, <2>1, Revealed DEF IInv, Shape, ReceiptsHaveRoute, ShownIsStored,
       FeedbackIsRecorded
<1>. QED
  BY <1>2, <1>3, <1>4 DEF Complete, Cleared

-----------------------------------------------------------------------------
(* The learner.                                                             *)

\* A step of a controller that waits for nothing.
LEMMA Idle ==
    ASSUME IInv, NEW t \in Trials, trial' = t, Sound(t),
           \A c \in calls : ~c.live,
           UNCHANGED <<calls, store, head>>,
           t.batch \in {trial.batch, None},
           t.final = None \/ (t.final = trial.final /\ t.submission = trial.submission)
    PROVE  IInv'
  BY DEF IInv, Shape, OneWaited, Waits, ReceiptsHaveRoute, ShownIsStored, FeedbackIsRecorded,
     store

\* A controller that begins to wait, for the only call that is waited for.
LEMMA Asks ==
    ASSUME IInv, NEW t \in Trials, trial' = t, Sound(t), t.final = None,
           NEW c \in Calls, NEW others, others \subseteq Calls, calls' = others \cup {c},
           \A d \in others : ~d.live,
           c.kind = "prepare" => t.state = "Preparing",
           c.kind = "complete" => /\ t.state = "Submitting"
                                  /\ t.submission = [id |-> c.id, sheet |-> c.sheet]
                                  /\ t.batch = c.route,
           t.batch \in {trial.batch, None},
           UNCHANGED <<store, head>>
    PROVE  IInv'
<1>1. OneWaited' /\ Waits'
  BY DEF OneWaited, Waits
<1>. QED
  BY <1>1 DEF IInv, Shape, ReceiptsHaveRoute, ShownIsStored, FeedbackIsRecorded, store

LEMMA BeginsOver ==
    ASSUME IInv, BeginOver, UNCHANGED <<store, head>>
    PROVE  IInv'
<1>1. /\ NewId \in Ids
      /\ trial' = Preparing(NewId) /\ calls' = Abandoned \cup {PrepareCall(NewId)}
  BY NewIdIsAnId DEF BeginOver
<1>2. Abandoned \subseteq Calls /\ \A d \in Abandoned : ~d.live
  <2> SUFFICES ASSUME NEW c \in calls
               PROVE  [c EXCEPT !.live = FALSE] \in Calls /\ ~[c EXCEPT !.live = FALSE].live
    BY DEF Abandoned
  <2>. QED
    BY Abandons, Kinds DEF IInv, Shape, Preparations, Completings
<1> DEFINE t == Preparing(NewId)
<1>3. t \in Trials /\ Sound(t) /\ t.final = None /\ t.batch = None /\ t.state = "Preparing"
  BY <1>1, PreparingShape DEF Preparing, Sound
<1>4. PrepareCall(NewId) \in Calls /\ PrepareCall(NewId).kind = "prepare"
  BY <1>1, Prepares DEF PrepareCall
<1> HIDE DEF t
<1>5. trial' = t
  BY <1>1 DEF t
<1>. QED
  BY <1>1, <1>2, <1>3, <1>4, <1>5, Asks

\* A controller that waits is in one of two states.
LEMMA NobodyWaits ==
    ASSUME IInv, trial.state \notin {"Preparing", "Submitting"}
    PROVE  \A c \in calls : ~c.live
  BY Kinds DEF IInv, Shape, Waits, Calls

LEMMA Presses ==
    ASSUME IInv, Press
    PROVE  IInv'
<1>0. trial \in Trials /\ calls \subseteq Calls
  BY DEF IInv, Shape
<1>1. CASE AcknowledgeWorkedExample
  <2> DEFINE t == [trial EXCEPT !.state = "Answering"]
  <2>1. trial.state = "WorkedExample" /\ trial' = t /\ UNCHANGED <<calls, store, head>>
    BY <1>1 DEF AcknowledgeWorkedExample, Acts, rest
  <2>2. /\ t \in Trials /\ Sound(t)
        /\ t.batch = trial.batch /\ t.final = trial.final /\ t.submission = trial.submission
    BY <1>0, <2>1 DEF Trials, Sound, IInv
  <2> HIDE DEF t
  <2>. QED
    BY <2>1, <2>2, Idle, NobodyWaits
<1>2. CASE RecoverPreparation
  <2> DEFINE t == Preparing(trial.request)
  <2>1. /\ trial.state = "Failed"
        /\ trial' = t /\ UNCHANGED <<store, head>>
        /\ calls' = calls \cup {PrepareCall(trial.request)}
    BY <1>2 DEF RecoverPreparation, Acts, rest, IInv, Sound
  <2>2. trial.request \in Ids
    BY <1>0 DEF Trials
  <2>3. t \in Trials /\ Sound(t) /\ t.final = None /\ t.batch = None /\ t.state = "Preparing"
    BY <2>2, PreparingShape DEF Preparing, Sound
  <2>4. /\ PrepareCall(trial.request) \in Calls
        /\ PrepareCall(trial.request).kind = "prepare"
    BY <2>2, Prepares DEF PrepareCall
  <2> HIDE DEF t
  <2>5. \A c \in calls : ~c.live
    BY <2>1, NobodyWaits
  <2>. QED
    BY <1>0, <2>1, <2>3, <2>4, <2>5, Asks
<1>3. ASSUME NEW t, trial' = t, t \in Trials,
             t.state = "Submitting", t.retry = "nothing", t.final = None,
             t.submission \in Submissions, t.batch = trial.batch, t.batch \in Routes,
             trial.state \notin {"Preparing", "Submitting"},
             calls' = calls \cup {CompleteCall(t)}, UNCHANGED <<store, head>>
      PROVE  IInv'
  <2>1. CompleteCall(t) \in Completings
    BY <1>3 DEF CompleteCall, Completings, Submissions
  <2>2. /\ CompleteCall(t) \in Calls
        /\ CompleteCall(t).kind = "complete" /\ CompleteCall(t).route = t.batch
        /\ t.submission = [id |-> CompleteCall(t).id, sheet |-> CompleteCall(t).sheet]
    BY <1>3, <2>1, Kinds DEF CompleteCall, Submissions
  <2>3. Sound(t) /\ \A c \in calls : ~c.live
    BY <1>3, NobodyWaits DEF Sound
  <2>. QED
    BY <1>0, <1>3, <2>2, <2>3, Asks
<1>4. CASE RetryCompletion
  <2> DEFINE t == [trial EXCEPT !.state = "Submitting", !.retry = "nothing"]
  <2>1. /\ trial.state = "Failed" /\ trial.submission \in Submissions /\ trial.batch \in Routes
        /\ trial.final = None
        /\ trial' = t /\ calls' = calls \cup {CompleteCall(t)} /\ UNCHANGED <<store, head>>
    BY <1>4 DEF RetryCompletion, Acts, rest, IInv, Sound
  <2>2. /\ t \in Trials /\ t.state = "Submitting" /\ t.retry = "nothing"
        /\ t.final = trial.final /\ t.submission = trial.submission /\ t.batch = trial.batch
    BY <1>0 DEF Trials
  <2> HIDE DEF t
  <2>. QED
    BY <1>3, <2>1, <2>2
<1>5. ASSUME NEW sheet \in Sheets, Submit(sheet)
      PROVE  IInv'
  <2> DEFINE t == [trial EXCEPT !.state = "Submitting", !.retry = "nothing",
                                !.submission = [id |-> NewId, sheet |-> sheet]]
  <2>1. /\ trial.state = "Answering" /\ trial.batch \in Routes /\ trial.final = None
        /\ NewId \in Ids
        /\ trial' = t /\ calls' = calls \cup {CompleteCall(t)} /\ UNCHANGED <<store, head>>
    BY <1>5, NewIdIsAnId DEF Submit, Acts, rest, IInv, Sound
  <2>2. /\ t \in Trials /\ t.state = "Submitting" /\ t.retry = "nothing"
        /\ t.final = trial.final /\ t.submission \in Submissions /\ t.batch = trial.batch
    BY <1>0, <2>1 DEF Trials, Submissions
  <2> HIDE DEF t
  <2>. QED
    BY <1>3, <2>1, <2>2
<1>. QED
  BY <1>1, <1>2, <1>4, <1>5 DEF Press

-----------------------------------------------------------------------------
(* Everything else, and the theorems.                                       *)

\* A broken connection, or the death of the service, fails the controller
\* that waited for a call, which may try the same again.
LEMMA Loses ==
    ASSUME IInv, NEW c \in calls, c.live,
           trial' = SetFailure(trial, RetryOf(c.kind, TRUE)),
           calls' \subseteq Calls, \A d \in calls' : ~d.live,
           UNCHANGED <<store, head>>
    PROVE  IInv'
<1>1. c \in Calls /\ trial \in Trials
  BY DEF IInv, Shape
<1>2. /\ c.kind \in {"prepare", "complete"}
      /\ trial' = [trial EXCEPT !.state = "Failed", !.retry = c.kind]
  BY <1>1, Kinds DEF SetFailure, RetryOf, Calls
<1>3. /\ trial' \in Trials /\ trial'.batch = trial.batch /\ trial'.final = trial.final
      /\ trial'.submission = trial.submission
      /\ trial'.state = "Failed" /\ trial'.retry = c.kind
  BY <1>1, <1>2 DEF Trials
<1>4. trial.final = None
  BY <1>2 DEF IInv, Waits, Sound
<1>5. ASSUME c.kind = "complete"
      PROVE  trial.submission \in Submissions /\ trial.batch \in Routes
  <2>1. c \in Completings
    BY <1>1, <1>5, Kinds
  <2>2. trial.submission = [id |-> c.id, sheet |-> c.sheet] /\ trial.batch = c.route
    BY <1>5 DEF IInv, Waits
  <2>. QED
    BY <2>1, <2>2 DEF Completings, Submissions
<1>6. Sound(trial')
  BY <1>3, <1>4, <1>5 DEF Sound
<1>7. OneWaited' /\ Waits'
  BY DEF OneWaited, Waits
<1>. QED
  BY <1>3, <1>4, <1>6, <1>7 DEF IInv, Shape, ReceiptsHaveRoute, ShownIsStored,
     FeedbackIsRecorded, store

LEMMA Step == IInv /\ [Next]_vars => IInv'
<1> SUFFICES ASSUME IInv, [Next]_vars
             PROVE  IInv'
  OBVIOUS
<1>0. trial \in Trials /\ calls \subseteq Calls /\ head \in 0..MaxMoves
  BY DEF IInv, Shape
<1>1. ASSUME NEW c \in calls, Start(c)
      PROVE  IInv'
  <2>1. c.kind = "prepare" /\ head' \in 0..MaxMoves
    BY <1>0, <1>1 DEF Start, rest
  <2>2. CASE Refuse(c, FALSE)
    BY <2>1, <2>2, Refusals
  <2>3. CASE CreatePrepared(c) /\ (Replays(c) \/ Active # None)
    BY <2>1, <2>3, Transaction DEF Active
  <2>4. CASE /\ calls' = (calls \ {c}) \cup {[c EXCEPT !.step = "building", !.head = head]}
             /\ UNCHANGED <<client, store>>
    <3> DEFINE d == [c EXCEPT !.step = "building", !.head = head]
    <3>1. c \in Preparations
      BY <1>0, <2>1, Kinds
    <3>2. d \in Calls /\ d.kind = "prepare" /\ d.live = c.live
      BY <1>0, <3>1, Kinds DEF Preparations
    <3> HIDE DEF d
    <3>3. calls' = (calls \ {c}) \cup {d} /\ UNCHANGED <<trial, store, head>>
      BY <1>1, <2>4 DEF d, client, Start, rest
    <3>4. OneWaited'
      BY <3>2, <3>3 DEF IInv, OneWaited
    <3>5. Waits'
      BY <2>1, <3>2, <3>3 DEF IInv, Waits
    <3>. QED
      BY <1>0, <3>2, <3>3, <3>4, <3>5 DEF IInv, Shape, ReceiptsHaveRoute, ShownIsStored,
         FeedbackIsRecorded, store
  <2>. QED
    BY <1>1, <2>2, <2>3, <2>4 DEF Start, Active
<1>2. ASSUME NEW c \in calls, Finish(c)
      PROVE  IInv'
  <2>1. c.kind = "prepare" /\ head' \in 0..MaxMoves
    BY <1>0, <1>2 DEF Finish, rest
  <2>. QED
    BY <1>2, <2>1, Refusals, Transaction DEF Finish
<1>3. ASSUME NEW c \in calls, BuildFails(c) \/ StorageBusy(c)
      PROVE  IInv'
  BY <1>0, <1>3, Refusals DEF BuildFails, StorageBusy, rest
<1>4. ASSUME NEW c \in calls, GiveUp(c)
      PROVE  IInv'
  <2> DEFINE d == [c EXCEPT !.live = FALSE]
  <2>1. d \in Calls /\ ~d.live
    BY <1>0, Abandons, Kinds DEF Preparations, Completings
  <2> HIDE DEF d
  <2>2. /\ c.live /\ trial' = SetFailure(trial, RetryOf(c.kind, TRUE))
        /\ calls' = (calls \ {c}) \cup {d} /\ UNCHANGED <<store, head>>
    BY <1>4 DEF GiveUp, rest, d
  <2>3. \A e \in calls' : ~e.live
    BY <2>1, <2>2 DEF IInv, OneWaited
  <2>. QED
    BY <1>0, <2>1, <2>2, <2>3, Loses
<1>5. CASE Die
  <2>1. calls' = {} /\ UNCHANGED <<store, head>>
    BY <1>5 DEF Die, rest
  <2>2. CASE \E c \in calls : c.live
    <3>1. PICK c \in calls : c.live /\ trial' = SetFailure(trial, RetryOf(c.kind, TRUE))
      BY <1>5, <2>2 DEF Die
    <3>. QED
      BY <2>1, <3>1, Loses
  <2>3. CASE ~\E c \in calls : c.live
    BY <1>5, <2>1, <2>3 DEF Die, IInv, Shape, OneWaited, Waits, ReceiptsHaveRoute,
       ShownIsStored, FeedbackIsRecorded, store
  <2>. QED
    BY <2>2, <2>3
<1>6. CASE AdvanceFeedback
  <2> DEFINE t == [trial EXCEPT !.page = @ + 1,
                      !.state = IF trial.page + 1 = NumPages THEN "Complete" ELSE @]
  <2>1. trial.state = "Revealed" /\ trial' = t /\ UNCHANGED <<calls, store, head>>
    BY <1>6 DEF AdvanceFeedback, Acts, rest
  <2>2. trial.page + 1 \in Nat
    BY <1>0 DEF Trials
  <2>3. /\ t \in Trials /\ t.state \in {"Revealed", "Complete"} /\ t.retry = trial.retry
        /\ t.batch = trial.batch /\ t.final = trial.final /\ t.submission = trial.submission
    BY <1>0, <2>1, <2>2 DEF Trials
  <2> HIDE DEF t
  <2>4. Sound(t)
    BY <2>1, <2>3 DEF Sound, IInv
  <2>. QED
    BY <2>1, <2>3, <2>4, Idle, NobodyWaits
<1>7. CASE ReturnToMap \/ Restart
  BY <1>7, BeginsOver DEF ReturnToMap, Restart, rest
<1>8. CASE Commit \/ CommitFails \/ HeadMoves \/ Rotate
  BY <1>0, <1>8, RouteBounds, Aside DEF Commit, CommitFails, HeadMoves, Rotate, client, rest
<1>9. CASE UNCHANGED vars
  BY <1>0, <1>9, Aside DEF vars, client, rest
<1>. QED
  BY <1>1, <1>2, <1>3, <1>4, <1>5, <1>6, <1>7, <1>8, <1>9, Presses, Completed DEF Next, Serve

LEMMA Invariance == Spec => []IInv
  BY Begins, Step, PTL DEF Spec

\* The batch on the screen is the stored route, whichever of several copies of
\* its preparation made it and whatever the client asked for in between
\* (prepare_assisted_route, create_prepared and the controller).
THEOREM OneRouteIsShown == Spec => []ShownIsStored
  BY Invariance, PTL DEF IInv

\* The feedback on the screen is the recorded completion, with the answers the
\* learner gave, however often its call was given up, repeated or answered late
\* (complete_assisted_route, _assisted_replay, ValidateCompletion).
THEOREM RecordedIsShown == Spec => []FeedbackIsRecorded
  BY Invariance, PTL DEF IInv
=============================================================================
