----------------------------- MODULE ClientFlow -----------------------------
(***************************************************************************)
(* The Unity client from the title to the last reward: the flow controller *)
(* and the campaign it changes, as VerticalSliceRuntimeBootstrap composes  *)
(* them, over the two files RuntimeSessionStore keeps.                     *)
(*                                                                         *)
(* The client runs on one thread, but it may die between any two file      *)
(* operations of a save, and any of them may fail: an exception leaves the *)
(* flow where it was, with the profile in memory already changed.  While   *)
(* it is down the primary file may be damaged.  Files survive in the order *)
(* they were renamed in; a power loss is not considered.                   *)
(*                                                                         *)
(* From a new profile the bootstrap only ever starts the first battle of   *)
(* each world, so a battle is the number of its world, and so is the       *)
(* completion of its trial, whose id is kept until it is saved.  Seal      *)
(* Trials, assisted routes and bosses are never reached.                   *)
(***************************************************************************)
EXTENDS Integers, FiniteSets

CONSTANTS
    NumWorlds,
    MaxCrashes,     \* bound: deaths of the client
    MaxFailures,    \* bound: file operations that fail
    MaxDamages,     \* bound: times the primary file is damaged
    Missing,        \* no such file
    Damaged         \* a file that cannot be read

ASSUME FlowBounds == /\ NumWorlds \in Nat \ {0} /\ MaxCrashes \in Nat
                     /\ MaxFailures \in Nat /\ MaxDamages \in Nat

Worlds == 1..NumWorlds

VARIABLES
    \* the files
    primary, backup,
    \* the running client
    rejected,   \* _primaryRejectedSinceLastSave
    running,    \* Awake is over
    profile,    \* ProfileDataV1
    flow,       \* VerticalSliceFlowController
    combat,     \* the result of the combat on screen
    answered,   \* the trial on screen is complete
    saving,     \* the save in progress
    \* bookkeeping
    saved,      \* the session last saved or loaded
    restarted,  \* battles restarted with their victory in the profile already
    crashes, failures, damages

files == <<primary, backup>>
game == <<rejected, running, profile, flow, combat, answered>>
mishaps == <<restarted, crashes, failures, damages>>
flowVars == <<files, game, saving, saved, mishaps>>

FlowStates == {"Title", "Map", "Combat", "NormalTrial", "LossTrial", "Reward"}

PostCombat == {"NormalTrial", "Reward"}

NoBattle == 0

Profiles == [active : Worlds, victories : SUBSET Worlds, completed : SUBSET Worlds,
             rewarded : SUBSET Worlds]

\* FlowCheckpoint; the source of a pending reward is the battle itself.
Checkpoints == [state : FlowStates, battle : Worlds \cup {NoBattle},
                trials : SUBSET Worlds, rewards : SUBSET Worlds]

Sessions == [profile : Profiles, checkpoint : Checkpoints]

\* No file is mistaken for another.
ASSUME FilesAssumption == Missing # Damaged /\ {Missing, Damaged} \cap Sessions = {}

NewProfile == [active |-> 1, victories |-> {}, completed |-> {}, rewarded |-> {}]

TitleCheckpoint ==
    [state |-> "Title", battle |-> NoBattle, trials |-> {}, rewards |-> {}]

NoSession == [profile |-> NewProfile, checkpoint |-> TitleCheckpoint]

\* What the constructor of FlowCheckpoint insists on.
Valid(c) == /\ c.battle = NoBattle <=> c.state \in {"Title", "Map"}
            /\ c.rewards \subseteq c.trials
            /\ c.state = "Reward" => c.battle \in c.trials \ c.rewards

\* CanMigrateActiveWorld.
Migrates(p, world) == /\ p.active < world
                      /\ p.active..(world - 1) \subseteq
                             p.victories \cap p.completed \cap p.rewarded

\* IsRuntimeSessionCoherent.
Coherent(s) ==
    LET p == s.profile
        c == s.checkpoint
    IN  /\ p.completed \subseteq p.victories
        /\ p.rewarded = p.completed
        /\ c.battle # NoBattle => c.battle = p.active \/ Migrates(p, c.battle)
        /\ c.state \in PostCombat => c.battle \in p.victories
        /\ c.state = "Reward" => c.battle \in p.completed

Loadable(f) == f \notin {Missing, Damaged} /\ Valid(f.checkpoint) /\ Coherent(f)

\* What Load returns, or a file it refuses.
Load == IF Loadable(primary) THEN primary ELSE backup

-----------------------------------------------------------------------------
(* Saving.  A save is begun with the flow that will be if it works, and     *)
(* what is then left to do; the profile has been changed by then.           *)

Flows == [state : FlowStates, last : Checkpoints, pending : BOOLEAN,
          trials : SUBSET Worlds, rewards : SUBSET Worlds]

NoSave == [step |-> "none"]

Saves == [step : {"write", "delete", "retire", "put", "replace", "move"}, flow : Flows,
          session : Sessions, then : {"awake", "present", "activate", "nothing"}]

BeginSave(p, f, then) ==
    saving' = [step |-> "write", flow |-> f, then |-> then,
               session |-> [profile |-> p, checkpoint |-> f.last]]

\* CreateCheckpoint, in a flow that is about to enter a state.
Entering(f, state, battle) ==
    [f EXCEPT !.state = state, !.pending = FALSE,
              !.last = [state |-> state, battle |-> battle,
                        trials |-> f.trials, rewards |-> f.rewards]]

\* TransitionStable, with the profile p.
TransitionStable(p, f, then) == /\ profile' = p
                                /\ BeginSave(p, f, then)
                                /\ UNCHANGED <<rejected, running, flow, combat, answered>>
                                /\ UNCHANGED <<files, saved, mishaps>>

Then(step) == saving' = [saving EXCEPT !.step = step]

\* (mutant) The primary is made the backup whether it could be read or not.
WriteThenRetire ==
    /\ saving.step = "write"
    /\ Then(IF primary = Missing THEN "move" ELSE "delete")
    /\ UNCHANGED <<files, game, saved, mishaps>>

WriteDurably ==
    /\ saving.step = "write"
    /\ Then(IF primary = Missing THEN "move"
            ELSE IF rejected THEN "replace" ELSE "delete")
    /\ UNCHANGED <<files, game, saved, mishaps>>

DeleteBackup == /\ saving.step = "delete"
                /\ backup' = Missing
                /\ Then("retire")
                /\ UNCHANGED <<primary, game, saved, mishaps>>

\* File.Replace is two renames.
RetirePrimary == /\ saving.step = "retire"
                 /\ backup' = primary
                 /\ primary' = Missing
                 /\ Then("put")
                 /\ UNCHANGED <<game, saved, mishaps>>

\* PresentStable: what is on the screen afterwards is new.
Presented(f) == /\ flow' = f
                /\ combat' = "none"
                /\ answered' = FALSE

\* The new file is in place and Save returns.  After the save that follows a
\* reward the next world is made the active one, and saved again.
Saved ==
    /\ saving.step \in {"put", "replace", "move"}
    /\ primary' = saving.session
    /\ saved' = saving.session
    /\ rejected' = FALSE
    /\ running' = TRUE
    /\ IF saving.then = "nothing" THEN UNCHANGED <<flow, combat, answered>>
                                  ELSE Presented(saving.flow)
    /\ IF saving.then = "activate"
       THEN LET p == [profile EXCEPT !.active = flow.last.battle + 1]
            IN  profile' = p /\ BeginSave(p, saving.flow, "nothing")
       ELSE saving' = NoSave /\ UNCHANGED profile
    /\ UNCHANGED <<backup, mishaps>>

\* (mutant) onPersistenceFailure is forgotten: the ids stay committed.
KeepsIds == [flow EXCEPT !.trials = saving.flow.trials, !.rewards = saving.flow.rewards]

\* The flow after a save has failed.
TakenBack == flow

\* A file operation raises.  When the second rename of File.Replace fails,
\* the first may or may not be undone.
FailToSave ==
    /\ failures < MaxFailures
    /\ saving # NoSave
    /\ failures' = failures + 1
    /\ saving' = NoSave
    /\ flow' = TakenBack
    /\ \/ UNCHANGED files
       \/ /\ saving.step = "put"
          /\ primary' = backup
          /\ backup' = Missing
    /\ UNCHANGED <<rejected, running, profile, combat, answered>>
    /\ UNCHANGED <<saved, restarted, crashes, damages>>

-----------------------------------------------------------------------------
(* The flow, from state to state.                                           *)

InState(state) == running /\ saving = NoSave /\ flow.state = state

\* The world of the battle the map offers: one more than are cleared.
NextWorld == Cardinality(profile.completed) + 1

EnterMap == /\ InState("Title")
            /\ TransitionStable(profile, Entering(flow, "Map", NoBattle), "present")

StartCombat ==
    /\ InState("Map")
    /\ ~flow.pending
    /\ NextWorld \in Worlds
    /\ TransitionStable(profile, Entering(flow, "Combat", NextWorld), "present")

\* The suspended trial is shown again; nothing is saved.
ResumePending == /\ InState("Map")
                 /\ flow.pending
                 /\ Presented([flow EXCEPT !.state = flow.last.state, !.pending = FALSE])
                 /\ UNCHANGED <<rejected, running, profile>>
                 /\ UNCHANGED <<files, saving, saved, mishaps>>

\* The combat on the screen ends.
EndCombat(result) == /\ InState("Combat")
                     /\ combat = "none"
                     /\ combat' = result
                     /\ UNCHANGED <<rejected, running, profile, flow, answered>>
                     /\ UNCHANGED <<files, saving, saved, mishaps>>

\* The R key and RESTART DUEL, as long as a result is on the screen: when the
\* save of the result fails it stays there, and is tried again every frame.
\* The victory of a combat that was won is in the profile by then.
RestartCombat == /\ InState("Combat")
                 /\ combat # "none"
                 /\ combat' = "none"
                 /\ restarted' = restarted \cup (profile.victories \cap {flow.last.battle})
                 /\ UNCHANGED <<rejected, running, profile, flow, answered>>
                 /\ UNCHANGED <<files, saving, saved, crashes, failures, damages>>

\* Every frame until it is saved, unless the combat is restarted.
ResolveCombat ==
    LET b == flow.last.battle IN
    /\ InState("Combat")
    /\ \/ /\ combat = "won"
          /\ TransitionStable([profile EXCEPT !.victories = @ \cup {b}],
                              Entering(flow, "NormalTrial", b), "present")
       \/ /\ combat = "lost"
          /\ TransitionStable(profile, Entering(flow, "LossTrial", b), "present")

\* The trial on the screen is completed.
AnswerTrial == /\ InState("NormalTrial") \/ InState("LossTrial")
               /\ ~answered
               /\ answered' = TRUE
               /\ UNCHANGED <<rejected, running, profile, flow, combat>>
               /\ UNCHANGED <<files, saving, saved, mishaps>>

\* CommitStandardTrialAuthority, every frame until it is saved: the campaign
\* is rewarded and the battle completed.
CompleteTrial ==
    LET b == flow.last.battle
        f == [flow EXCEPT !.trials = @ \cup {b}]
    IN  /\ InState("NormalTrial")
        /\ answered
        /\ b \notin flow.trials
        /\ TransitionStable([profile EXCEPT !.completed = @ \cup {b},
                                            !.rewarded = @ \cup {b}],
                            Entering(f, "Reward", b), "present")

CompleteLossTrial ==
    /\ InState("LossTrial")
    /\ answered
    /\ TransitionStable(profile, Entering(flow, "Map", NoBattle), "present")

\* AcknowledgeReward: CompleteReward, and a second save for the next world.
CompleteReward ==
    LET b == flow.last.battle
        f == [flow EXCEPT !.rewards = @ \cup {b}]
    IN  /\ InState("Reward")
        /\ b \notin flow.rewards
        /\ TransitionStable(profile, Entering(f, "Map", NoBattle),
                            IF b < NumWorlds THEN "activate" ELSE "present")

\* (mutant) The trial left behind is not remembered.
LeaveAndForget == /\ InState("NormalTrial")
                  /\ ~answered
                  /\ Presented([flow EXCEPT !.state = "Map"])
                  /\ UNCHANGED <<rejected, running, profile>>
                  /\ UNCHANGED <<files, saving, saved, mishaps>>

\* SuspendTrial and ReturnToMapFromUnavailable, when the questions cannot be
\* had.  The questions of a lost combat cannot be left.  Nothing is saved.
LeaveTrial == /\ InState("NormalTrial")
              /\ ~answered
              /\ Presented([flow EXCEPT !.state = "Map", !.pending = TRUE])
              /\ UNCHANGED <<rejected, running, profile>>
              /\ UNCHANGED <<files, saving, saved, mishaps>>

-----------------------------------------------------------------------------
(* Awake, death and damage.                                                 *)

Restored(c) == [state |-> c.state, last |-> c, pending |-> FALSE,
                trials |-> c.trials, rewards |-> c.rewards]

\* A session is found.  One that is in a later world than the active one is
\* saved again, with its world active, before the flow is restored.
LoadSession ==
    LET s == Load
        later == s.checkpoint.battle \notin {NoBattle, s.profile.active}
        p == IF later THEN [s.profile EXCEPT !.active = s.checkpoint.battle]
                      ELSE s.profile
    IN  /\ Loadable(s)
        /\ rejected' = (primary # Missing /\ ~Loadable(primary))
        /\ profile' = p
        /\ saved' = s
        /\ Presented(Restored(s.checkpoint))
        /\ running' = ~later
        /\ IF later THEN BeginSave(p, Restored(s.checkpoint), "awake")
                    ELSE UNCHANGED saving

CreateSession == /\ primary = Missing /\ backup = Missing
                 /\ rejected' = FALSE
                 /\ profile' = NewProfile
                 /\ Presented(Restored(TitleCheckpoint))
                 /\ BeginSave(NewProfile, Restored(TitleCheckpoint), "awake")
                 /\ UNCHANGED <<running, saved>>

Awake == /\ ~running
         /\ saving = NoSave
         /\ LoadSession \/ CreateSession
         /\ UNCHANGED <<files, mishaps>>

Crash == /\ crashes < MaxCrashes
         /\ running \/ saving # NoSave
         /\ crashes' = crashes + 1
         /\ running' = FALSE
         /\ saving' = NoSave
         /\ UNCHANGED <<rejected, profile, flow, combat, answered>>
         /\ UNCHANGED <<files, saved, restarted, failures, damages>>

\* While the client is down, and there is a backup to go back to.
Damage == /\ damages < MaxDamages
          /\ ~running /\ saving = NoSave
          /\ primary \notin {Missing, Damaged}
          /\ Loadable(backup)
          /\ primary' = Damaged
          /\ damages' = damages + 1
          /\ UNCHANGED <<backup, game, saving, saved, restarted, crashes, failures>>

-----------------------------------------------------------------------------
FlowInit ==
    /\ primary = Missing /\ backup = Missing
    /\ rejected = FALSE /\ running = FALSE
    /\ profile = NewProfile
    /\ flow = Restored(TitleCheckpoint)
    /\ combat = "none" /\ answered = FALSE
    /\ saving = NoSave
    /\ saved = NoSession /\ restarted = {}
    /\ crashes = 0 /\ failures = 0 /\ damages = 0

\* The client goes on by itself: a file operation, a frame, a start.
Proceed == \/ WriteDurably \/ DeleteBackup \/ RetirePrimary \/ Saved
           \/ ResolveCombat \/ CompleteTrial \/ CompleteLossTrial
           \/ Awake

\* The learner gets on with it.
Play == EnterMap \/ StartCombat \/ ResumePending \/ CompleteReward

FlowNext ==
    \/ Proceed
    \/ Play
    \/ \E result \in {"won", "lost"} : EndCombat(result)
    \/ RestartCombat
    \/ AnswerTrial
    \/ LeaveTrial
    \/ FailToSave
    \/ Crash
    \/ Damage

FlowSpec == FlowInit /\ [][FlowNext]_flowVars

-----------------------------------------------------------------------------
\* Every variable keeps its shape; every session ever saved is one the
\* constructor of FlowCheckpoint accepts and the bootstrap finds coherent.
FlowTypeOK ==
    /\ primary \in Sessions \cup {Missing, Damaged}
    /\ backup \in Sessions \cup {Missing, Damaged}
    /\ rejected \in BOOLEAN /\ running \in BOOLEAN /\ answered \in BOOLEAN
    /\ profile \in Profiles
    /\ flow \in Flows
    /\ combat \in {"none", "won", "lost"}
    /\ saving = NoSave \/ saving \in Saves
    /\ saved \in Sessions /\ restarted \in SUBSET Worlds
    /\ saving # NoSave => Loadable(saving.session)
    /\ crashes \in 0..MaxCrashes /\ failures \in 0..MaxFailures
    /\ damages \in 0..MaxDamages

\* Should the client die now, the next start finds a session, and it is the
\* one on the screen: whichever file operation of a save came last, failed or
\* was never reached, and also when the primary had been damaged and the
\* backup was all there was.
RestartResumes ==
    running => /\ Loadable(Load)
               /\ Load = saved
               /\ saving = NoSave => Load.checkpoint = flow.last

\* A battle that is completed is not fought again, and one whose victory has
\* been saved only if it was restarted when that victory could not be saved:
\* not after a restart of the client, nor when its trial was left for the map.
RefoughtOnlyIfRestarted ==
    running /\ flow.state = "Combat" =>
        /\ flow.last.battle \notin saved.profile.completed
        /\ flow.last.battle \in saved.profile.victories => flow.last.battle \in restarted

\* A combat whose victory has been saved is not fought again.  Violated: a won
\* combat is restarted while its save fails, and lost; the loss is saved with
\* the victory, and the map offers the battle again.
WonIsNotRefought ==
    running /\ flow.state = "Combat" => flow.last.battle \notin saved.profile.victories

-----------------------------------------------------------------------------
(* Liveness.  The client and the learner go on.  A combat that can always   *)
(* be tried again is won in the end, and not restarted every time before    *)
(* the next frame resolves it; and the questions can be had in the end.     *)
FlowFairness == /\ WF_flowVars(Proceed)
                /\ WF_flowVars(Play)
                /\ SF_flowVars(EndCombat("won"))
                /\ SF_flowVars(combat = "won" /\ ResolveCombat)
                /\ SF_flowVars(AnswerTrial)

LiveFlowSpec == FlowSpec /\ FlowFairness

\* However the saves failed and the client died, the campaign is completed,
\* with every reward and with every world's victory on disk.
CampaignEnds ==
    <>[](running => saved.checkpoint.state = "Map" /\ saved.profile.rewarded = Worlds)
=============================================================================
