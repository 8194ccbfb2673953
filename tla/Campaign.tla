------------------------------ MODULE Campaign ------------------------------
(***************************************************************************)
(* A learner's way through the campaign: the preparation of quiz batches   *)
(* (app/battle_preparation.py, app/assisted_route_store.py) and the        *)
(* progression commands (app/progression.py) over the event log.           *)
(*                                                                         *)
(* One command is one step: what happens between the transactions of a     *)
(* command is the subject of module QuizSubmissions.  A batch's two passes *)
(* and the delivery of its observations are the one step Answer; exact     *)
(* repetitions of a command, which change nothing, are stutters; all of it *)
(* happens in one session.                                                 *)
(***************************************************************************)
EXTENDS Evidence

CONSTANTS
    Styles,         \* ways to answer a batch: sequences of marks, repeated
    NoBatch,        \* no live batch
    MaxSecondWinds, \* bound: Second Winds started
    MaxTrials       \* bound: Seal Trials of one world

ASSUME LearnerAssumption ==
    /\ Styles \subseteq Seq(Marks) \ {<<>>}
    /\ {MaxSecondWinds, MaxTrials} \subseteq Nat

VARIABLES
    log,    \* event_log
    batch,  \* the quiz_machines row that is not closed
    route   \* the world whose assisted route is active, or 0

vars == <<log, batch, route>>

Attempts == 1..MaxSecondWinds

Activation(w) == [type |-> "activation", world |-> w]

Init == /\ log = <<Activation(1)>>
        /\ batch = NoBatch
        /\ route = 0

w0 == ActiveWorld(log)

CurrentBattle == Len(Wins(log, w0)) + 1

Finished == w0 = NumWorlds /\ Cleared(log, w0)

-----------------------------------------------------------------------------
(* Histories the server accepts: _validate_campaign_history, repeated by    *)
(* _validated_active_world and by the export.                               *)

\* An event belongs to the world active when it was logged; an observation
\* may also be a transfer to an earlier world.
InItsWorld(L, activations, n) ==
    LET w == Cardinality({k \in activations : k <= n})
    IN L[n].world \in IF L[n].type = "observation" /\ L[n].kind \in TransferKinds
                       THEN 1..w ELSE {w}

HistoryValid(L) ==
    LET activations == Positions(L, "activation")
    IN \A n \in DOMAIN L : InItsWorld(L, activations, n)

-----------------------------------------------------------------------------
(* Preparation                                                              *)

\* Neither a quiz batch nor an assisted route is live.
SlotFree == batch = NoBatch /\ route = 0

\* A fresh batch of n items, named by the log it was planned from.
Prepare(purpose, b, n) ==
    batch' = [purpose |-> purpose, world |-> w0, number |-> b,
              id |-> Len(log), slots |-> Plan(log, n),
              revealed |-> FALSE, score |-> 0]

\* The wins are a prefix of the authored battles.
WonInOrder(w) == \A i \in DOMAIN Wins(log, w) : Wins(log, w)[i] = i

CanPrepareBattle ==
    /\ HistoryValid(log)
    /\ WonInOrder(w0)
    /\ BossEvents(log, w0) = {}
    /\ CurrentBattle = Boss => GateOpen(log, w0)
    /\ SlotFree

PrepareBattle ==
    /\ CanPrepareBattle
    /\ Prepare("battle", CurrentBattle, ItemCount(w0, CurrentBattle))
    /\ UNCHANGED <<log, route>>

CanPrepareTrial ==
    /\ HistoryValid(log)
    /\ TrialRequired(log, w0)
    /\ SlotFree

SealHere(e) == e.type = "seal" /\ e.world = w0

PrepareTrial ==
    /\ CanPrepareTrial
    /\ CountIf(log, SealHere) < MaxTrials
    /\ Prepare("seal", Missed(log, w0) + 1, TrialItems)
    /\ UNCHANGED <<log, route>>

\* (mutant) A live quiz batch does not stop the route.
AnyTime == route = 0

\* _normal_quiz_is_active, and the route that is active already.
RouteFree == batch = NoBatch /\ route = 0

CanPrepareRoute ==
    /\ HistoryValid(log)
    /\ RouteUnlocked(log, w0)
    /\ RouteFree

PrepareRoute ==
    /\ CanPrepareRoute
    /\ route' = w0
    /\ UNCHANGED <<log, batch>>

-----------------------------------------------------------------------------
(* The quiz                                                                 *)

ObservationOf(slot, mark) ==
    [type |-> "observation", world |-> slot.skill[1], skill |-> slot.skill,
     kind |-> slot.kind, targets |-> slot.targets, batch |-> batch.id,
     mark |-> mark]

\* Both passes are submitted: the reveal logs one observation per slot.
Answer ==
    /\ batch # NoBatch
    /\ ~batch.revealed
    /\ \E style \in Styles :
          LET MarkAt(i) == style[((i - 1) % Len(style)) + 1]
              items == [i \in DOMAIN batch.slots |->
                            ObservationOf(batch.slots[i], MarkAt(i))]
              RightFinally(o) == FinalCorrect(o.mark)
          IN /\ log' = log \o items
             /\ batch' = [batch EXCEPT !.revealed = TRUE,
                                       !.score = CountIf(items, RightFinally)]
    /\ UNCHANGED route

\* The live batch is revealed, and was prepared for this.
RevealedFor(purpose, w, b) ==
    /\ batch # NoBatch
    /\ batch.revealed
    /\ <<batch.purpose, batch.world, batch.number>> = <<purpose, w, b>>

\* _append, then _close_consumed_quiz.
Consume(event) == log' = Append(log, event) /\ batch' = NoBatch

-----------------------------------------------------------------------------
(* Progression commands                                                     *)

\* _current_battle and the replay check: b is the battle to be won next.
IsCurrentBattle(b) ==
    /\ b = CurrentBattle
    /\ b = Boss => GateOpen(log, w0) /\ BossEvents(log, w0) = {}

CanCompleteBattle ==
    \E b \in 1..Boss : RevealedFor("battle", w0, b) /\ IsCurrentBattle(b)

CompleteBattle ==
    /\ CanCompleteBattle
    /\ Consume(IF CurrentBattle = Boss
               THEN [type |-> "boss", world |-> w0, score |-> batch.score]
               ELSE [type |-> "completion", world |-> w0,
                     battle |-> CurrentBattle])
    /\ UNCHANGED route

CanCompleteTrial ==
    /\ TrialRequired(log, w0)
    /\ RevealedFor("seal", w0, Missed(log, w0) + 1)

CompleteTrial ==
    /\ CanCompleteTrial
    /\ Consume([type |-> "seal", world |-> w0,
                attempt |-> Missed(log, w0) + 1,
                passed |-> batch.score >= TrialPass])
    /\ UNCHANGED route

CanCompleteRoute == route # 0 /\ RouteUnlocked(log, route)

CompleteRoute ==
    /\ CanCompleteRoute
    /\ log' = Append(log, [type |-> "assisted", world |-> route])
    /\ route' = 0
    /\ UNCHANGED batch

ClearedToLeave(w) == Cleared(log, w)

CanActivate == w0 < NumWorlds /\ ClearedToLeave(w0)

ActivateWorld ==
    /\ CanActivate
    /\ log' = Append(log, Activation(w0 + 1))
    /\ UNCHANGED <<batch, route>>

-----------------------------------------------------------------------------
(* Second Wind: a knocked-out learner answers three items and fights on.    *)

Logged(type, a) == {n \in Positions(log, type) : log[n].attempt = a}

StartOf(a) == log[Max(Logged("started", a))]

WindStarted(a) == Logged("started", a) # {}

WindOver(a) == Logged("revived", a) # {}

WindEvent(type, a) ==
    [type |-> type, world |-> StartOf(a).world, battle |-> StartOf(a).battle,
     attempt |-> a]

\* Only a lead-in battle has a Second Wind.
LeadInNow(b) == b = CurrentBattle /\ b < Boss

CanStartWind == \E b \in 1..Boss : LeadInNow(b)

\* The start is durable; the preparation after it may fail.
StartSecondWind(a) ==
    /\ ~WindStarted(a)
    /\ \A c \in 1..(a - 1) : WindStarted(c)
    /\ \E b \in 1..Boss :
          /\ LeadInNow(b)
          /\ log' = Append(log, [type |-> "started", world |-> w0,
                                 battle |-> b, attempt |-> a])
    /\ UNCHANGED <<batch, route>>

\* The rest of the command, and its repetition after a failure.
CanPrepareWind(a) ==
    /\ WindStarted(a)
    /\ ~WindOver(a)
    /\ Logged("wind_quiz", a) = {}
    /\ HistoryValid(log)
    /\ StartOf(a).world = w0
    /\ SlotFree

PrepareSecondWind(a) ==
    /\ CanPrepareWind(a)
    /\ Prepare("wind", a, TrialItems)
    /\ UNCHANGED <<log, route>>

CanCompleteWind(a) ==
    /\ WindStarted(a)
    /\ Logged("wind_quiz", a) = {}
    /\ RevealedFor("wind", StartOf(a).world, a)

CompleteSecondWind(a) ==
    /\ CanCompleteWind(a)
    /\ Consume(WindEvent("wind_quiz", a))
    /\ UNCHANGED route

\* complete_revived_combat: nothing asks whether the battle is still current.
CanReportCombat(a) == Logged("wind_quiz", a) # {} /\ ~WindOver(a)

CompleteRevivedCombat(a) ==
    /\ CanReportCombat(a)
    /\ \E won \in BOOLEAN :
          log' = Append(log, [type |-> "revived", world |-> StartOf(a).world,
                              battle |-> StartOf(a).battle, attempt |-> a,
                              won |-> won])
    /\ UNCHANGED <<batch, route>>

Next == \/ PrepareBattle \/ PrepareTrial \/ PrepareRoute
        \/ Answer
        \/ CompleteBattle \/ CompleteTrial \/ CompleteRoute
        \/ ActivateWorld
        \/ \E a \in Attempts : \/ StartSecondWind(a) \/ PrepareSecondWind(a)
                               \/ CompleteSecondWind(a)
                               \/ CompleteRevivedCombat(a)

Spec == Init /\ [][Next]_vars

-----------------------------------------------------------------------------
(* Properties                                                               *)

Batches ==
    [purpose : {"battle", "seal", "wind"}, world : Worlds,
     number : 1..Max({Boss, MaxTrials, MaxSecondWinds}), id : 1..Len(log),
     slots : Seq([kind : TransferKinds \cup {"under_sampled_core_skill",
                                             "novel_current_skill"},
                  skill : Skills, targets : SUBSET Procedures]),
     revealed : BOOLEAN, score : Nat]

\* The shapes of the variables: a live batch serves its own world, is as long
\* as what it is for, and scores no more than it asks.
TypeOK ==
    /\ route \in 0..NumWorlds
    /\ batch # NoBatch =>
          /\ batch \in Batches
          /\ Len(batch.slots) = IF batch.purpose = "battle"
                                THEN ItemCount(batch.world, batch.number)
                                ELSE TrialItems
          /\ batch.score <= Len(batch.slots)
    /\ \A n \in DOMAIN log : log[n].world \in Worlds

\* The learner is never in a quiz batch and an assisted route at once: the
\* two stores keep separate tables and look at each other's before a write.
OneActivity == batch = NoBatch \/ route = 0

\* "progression event is outside the active campaign world": the history
\* check every preparation and every new session makes never fails.
HistoryStaysValid == HistoryValid(log)

\* A boss battle that was fought and whose quiz is revealed can be completed,
\* whatever its score: short of the threshold the victory is preserved and a
\* Seal Trial follows.
BossVictoryCounts ==
    batch # NoBatch /\ RevealedFor("battle", w0, Boss) => CanCompleteBattle

\* There is something the learner may do.
SomethingOpen ==
    \/ batch # NoBatch /\ ~batch.revealed
    \/ CanCompleteBattle \/ CanCompleteTrial \/ CanCompleteRoute
    \/ CanStartWind
    \/ \E a \in Attempts : CanPrepareWind(a) \/ CanCompleteWind(a) \/ CanReportCombat(a)
    \/ CanPrepareBattle \/ CanPrepareTrial \/ CanPrepareRoute
    \/ CanActivate

\* Until the campaign is finished, some activity is open to the learner.
NeverLockedOut == Finished \/ SomethingOpen

\* The learner has won every lead-in battle and is short of what the gate
\* asks, because review slots took its items, or because the boss quiz itself
\* closed the gate again.
ShutAtTheGate == /\ Len(Wins(log, w0)) = Len(LeadInItems)
                 /\ BossEvents(log, w0) = {}
                 /\ ~GateOpen(log, w0)

\* A battle was won by a revived combat while its own batch was live: no
\* command completes that batch any more, and it keeps the slot.
Orphaned == /\ batch # NoBatch
            /\ batch.purpose = "battle"
            /\ Contains(Wins(log, batch.world), batch.number)

\* A learner who can do nothing is shut out at the boss gate, or holds an
\* orphaned batch, or has reported a revived combat of a world left behind:
\* nothing else the learner does, in whatever order, ends the campaign early.
LockedOutKnownWays ==
    ~NeverLockedOut => ShutAtTheGate \/ Orphaned \/ ~HistoryValid(log)

\* A Second Wind of world w is not over when the next world is activated.
LeftUnfinished(w) ==
    \E a \in Attempts :
        /\ WindStarted(a)
        /\ StartOf(a).world = w
        /\ \A n \in Positions(log, "activation"), r \in Logged("revived", a) :
               log[n].world = w + 1 => r > n

\* The history check fails only over events of a world that was left with a
\* Second Wind unfinished: answers to its quiz, the quiz, or the combat.
HistoryBrokenByLateWinds ==
    LET activations == Positions(log, "activation")
    IN \A n \in DOMAIN log : \/ InItsWorld(log, activations, n)
                             \/ LeftUnfinished(log[n].world)
=============================================================================
