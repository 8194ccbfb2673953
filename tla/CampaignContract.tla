-------------------------- MODULE CampaignContract --------------------------
(***************************************************************************)
(* What the server answers to the progression commands of Campaign and to  *)
(* the query for the boss gate, whether its own contracts (contracts.py)    *)
(* and the game (StrictQuizValidator.cs) let the answer pass, and where the *)
(* game goes from there (AuthoritativeProgressionMapper.cs).                *)
(*                                                                         *)
(* A command whose answer was lost is sent again, perhaps much later: its   *)
(* answer is computed again, from the log as it was.  So every event of the *)
(* log stands for an answer that may still be given.  Identities and the    *)
(* bounds on sizes and scores are left out.                                 *)
(***************************************************************************)
EXTENDS Campaign

\* (mutant) A repeated command is answered from what is known by now.
UptoNow(n) == log

\* replay_state: the log up to the event of the command.
Upto(n) == SubSeq(log, 1, n)

-----------------------------------------------------------------------------
(* progression.py: the answers.                                             *)

\* complete_battle, _battle_replay.
BattleReply(n) ==
    LET w == log[n].world
        state == Upto(n) IN
    [boss |-> log[n].type = "boss", cleared |-> Cleared(state, w),
     sealRequired |-> TrialRequired(state, w)]

\* complete_seal_trial, _seal_replay.
SealReply(n) ==
    LET w == log[n].world IN
    [attempt |-> log[n].attempt, passed |-> log[n].passed,
     cleared |-> Cleared(Upto(n), w), routeUnlocked |-> RouteUnlocked(Upto(n), w)]

\* complete_assisted_route checks what the world has become by then.
AssistedReply(n) ==
    LET w == log[n].world IN
    [cleared |-> TRUE,
     sound |-> Cleared(Upto(n), w) /\ ~RouteUnlocked(Upto(n), w)]

\* complete_revived_combat, _revived_result.
RevivedReply(n) ==
    [won |-> log[n].won, completed |-> log[n].won, closed |-> TRUE]

\* activate_world; the first world is activated with the profile.
ActivationReply(n) ==
    [completed |-> ActiveWorld(Upto(n - 1)), active |-> log[n].world,
     sequence |-> log[n].world]

-----------------------------------------------------------------------------
(* gate_query.py, boss_gate.py                                              *)

\* _require_current_catalog_world: event after event, world after world.
CatalogAgrees ==
    LET activations == Positions(log, "activation") IN
    \A n \in DOMAIN log :
        LET active == Cardinality({k \in activations : k <= n}) IN
        /\ log[n].type = "activation" => log[n].world = active
        /\ \/ log[n].world = active
           \/ /\ log[n].type = "observation" /\ log[n].kind \in TransferKinds
              /\ log[n].world \in 1..active

Unmet(gate) ==
    LET If(failed, name) == IF failed THEN <<name>> ELSE <<>> IN
    If(gate.wins < Len(LeadInItems), "lead_in_wins")
    \o If(gate.items < RequiredItems, "valid_world_items")
    \o If(gate.latest < Window \/ gate.latestRight < WindowCorrect,
          "latest_ten_accuracy")
    \o If(gate.ready < gate.skills, "core_subskill_coverage")

\* evaluate_boss_gate: the counts, and what they fall short of.
BossGate(w) ==
    LET latest == Latest(log, w)
        counts == [wins |-> Min({Len(Wins(log, w)), Len(LeadInItems)}),
                   items |-> Cardinality(WorldItems(log, w)),
                   latest |-> Cardinality(latest),
                   latestRight |-> Cardinality(RightAtFirst(log, latest)),
                   skills |-> CoreSkills[w],
                   ready |-> Cardinality({s \in ToSet(Core(w)) : ReadySkill(log, s)})]
    IN [counts |-> counts, unmet |-> Unmet(counts), unlocked |-> Unmet(counts) = <<>>]

-----------------------------------------------------------------------------
(* contracts.py, and StrictQuizValidator.cs which says the same again.      *)

BattleCompletedHolds(r) ==
    /\ r.cleared \/ r.sealRequired => r.boss
    /\ ~(r.cleared /\ r.sealRequired)

SealTrialCompletedHolds(r) ==
    /\ r.attempt >= 1
    /\ r.cleared = r.passed
    /\ ~(r.routeUnlocked /\ r.passed)

AssistedRouteCompletedHolds(r) == r.cleared /\ r.sound

RevivedCombatCompletedHolds(r) == r.completed = r.won /\ r.closed

WorldActivatedHolds(r) ==
    /\ r.sequence \in 2..NumWorlds
    /\ r.active # r.completed

BossGateResultHolds(gate) ==
    LET c == gate.counts IN
    /\ c.wins \in 0..Len(LeadInItems)
    /\ c.latest \in 0..Window
    /\ c.latestRight <= c.latest
    /\ c.ready <= c.skills
    /\ gate.unmet = Unmet(c)
    /\ gate.unlocked = (gate.unmet = <<>>)

-----------------------------------------------------------------------------
(* AuthoritativeProgressionMapper.cs: where the game goes.                  *)

\* FromBattle refuses a boss that settles nothing.
BattleMaps(r) == IF r.boss THEN r.cleared # r.sealRequired
                           ELSE ~r.cleared /\ ~r.sealRequired

AfterBattle(r) == IF r.sealRequired THEN "SealTrial" ELSE "Reward"

AfterSeal(r) ==
    IF r.cleared THEN "Reward"
    ELSE IF r.routeUnlocked THEN "AssistedRoute" ELSE "SealTrial"

\* The answer to the command of the n-th event passes all of them.
ReplyAccepted(n) ==
    CASE log[n].type \in {"completion", "boss"} ->
             LET r == BattleReply(n) IN BattleCompletedHolds(r) /\ BattleMaps(r)
      [] log[n].type = "seal" -> SealTrialCompletedHolds(SealReply(n))
      [] log[n].type = "assisted" -> AssistedRouteCompletedHolds(AssistedReply(n))
      [] log[n].type = "revived" -> RevivedCombatCompletedHolds(RevivedReply(n))
      [] log[n].type = "activation" /\ n > 1 -> WorldActivatedHolds(ActivationReply(n))
      [] OTHER -> TRUE

NextStep(n) ==
    CASE log[n].type \in {"completion", "boss"} -> AfterBattle(BattleReply(n))
      [] log[n].type = "seal" -> AfterSeal(SealReply(n))
      [] OTHER -> "Reward"

\* What the server must be ready for when the game takes the step.
Offers(step, w) ==
    CASE step = "SealTrial" -> CanPrepareTrial
      [] step = "AssistedRoute" -> CanPrepareRoute
      [] step = "Reward" -> Cleared(log, w)

\* The query for the gate, which makes its own check of the history first.
GateAccepted ==
    /\ CatalogAgrees = HistoryValid(log)
    /\ LET gate == BossGate(w0) IN BossGateResultHolds(gate)

-----------------------------------------------------------------------------
\* Whenever a command is answered, at once or again after any later events,
\* the answer passes the server's contract, the game's validator and its
\* mapper; so does the gate, which is refused for the histories a preparation
\* refuses and no other.  And the step the game then takes is one the server
\* offers: the trial or the route can be prepared, the rewarded world is
\* cleared.
RepliesLeadOn ==
    LET last == Len(log) IN
    /\ \A n \in DOMAIN log : ReplyAccepted(n)
    /\ GateAccepted
    /\ log[last].type \in {"boss", "seal", "assisted"} /\ SlotFree /\ HistoryValid(log)
           => Offers(NextStep(last), log[last].world)
=============================================================================
