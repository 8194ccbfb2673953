---------------------------- MODULE ClientProofs ----------------------------
(***************************************************************************)
(* What is proved of the Unity client: of its campaign flow and save files *)
(* (ClientFlow), and of one route trial against the service (QuizClient).  *)
(***************************************************************************)
EXTENDS ClientFlow, QuizClient, FiniteSetTheorems, TLAPS

\* The profile and the checkpoint of a campaign whose first k battles are
\* completed.
Reached(k, p) == /\ p.completed = 1..k
                 /\ p.rewarded = 1..k
                 /\ p.active \in 1..(k + 1)

\* Before the trial of battle k + 1 its victory is there only when the combat
\* was restarted, as one of those in r.
Fought(k, p, r) == \/ p.victories = 1..k
                   \/ k + 1 \in r /\ p.victories = 1..(k + 1)

At(k, p, c, r) ==
    \/ c.state \in {"Title", "Map"} /\ c.battle = NoBattle /\ Fought(k, p, r)
    \/ c.state \in {"Combat", "LossTrial"} /\ c.battle = k + 1 /\ Fought(k, p, r)
    \/ c.state = "NormalTrial" /\ c.battle = k + 1 /\ p.victories = 1..(k + 1)
    \/ c.state = "Reward" /\ c.battle = k /\ p.victories = 1..k /\ p.active <= k

Good(s, r) == /\ s \in Sessions
              /\ Valid(s.checkpoint)
              /\ \E k \in 0..NumWorlds :
                     Reached(k, s.profile) /\ At(k, s.profile, s.checkpoint, r)

\* A save that failed leaves the profile ahead of the flow.
Ahead(k) ==
    \/ /\ flow.last.state = "Combat" /\ combat = "won"
       /\ flow.last.battle = k + 1 /\ profile.victories = 1..(k + 1)
    \/ /\ flow.last.state = "NormalTrial" /\ answered /\ ~flow.pending
       /\ flow.last.battle = k /\ profile.victories = 1..k /\ profile.active <= k

InMemory == \E k \in 0..NumWorlds :
                Reached(k, profile) /\ (At(k, profile, flow.last, restarted) \/ Ahead(k))

\* What is shown is the checkpoint, or the map in front of a suspended trial.
FlowSound(f) ==
    /\ Valid(f.last)
    /\ f.trials = f.last.trials /\ f.rewards = f.last.rewards
    /\ IF f.pending THEN f.state = "Map" /\ f.last.state = "NormalTrial"
                    ELSE f.state = f.last.state

RunInv == running => InMemory /\ FlowSound(flow) /\ saved.checkpoint = flow.last

\* The files.
Nothing == primary = Missing /\ backup = Missing

DiskInv == /\ primary \in {Missing, Damaged} \/ Good(primary, restarted)
           /\ backup = Missing \/ Good(backup, restarted)
           /\ Good(primary, restarted) \/ Good(backup, restarted) \/ Nothing

\* While the client is up, the session it saved last is what it would load.
Current == \/ Good(primary, restarted) /\ primary = saved /\ ~rejected
           \/ /\ primary \in {Missing, Damaged} /\ rejected = (primary = Damaged)
              /\ Good(backup, restarted) /\ backup = saved

UpInv == running \/ saving # NoSave => Current \/ (Nothing /\ ~running /\ ~rejected)

SaveInv ==
    saving # NoSave =>
        /\ Good(saving.session, restarted)
        /\ saving.session.profile = profile
        /\ saving.flow.last = saving.session.checkpoint
        /\ FlowSound(saving.flow) /\ ~saving.flow.pending
        /\ saving.then = "awake" <=> ~running
        /\ saving.then = "nothing" => flow = saving.flow
        /\ saving.then = "activate" => /\ flow.last.state = "Reward" /\ flow.last.battle < NumWorlds
                                       /\ saving.flow.last.state = "Map"
        /\ saving.step \in {"delete", "retire"} => Good(primary, restarted)
        /\ saving.step \in {"put", "move"} => primary = Missing
        /\ saving.step = "replace" => primary = Damaged

IInv == FlowTypeOK /\ RunInv /\ DiskInv /\ UpInv /\ SaveInv

-----------------------------------------------------------------------------
LEMMA Numbers == NumWorlds \in Nat \ {0} /\ Worlds = 1..NumWorlds /\ NoBattle = 0
  BY FlowBounds DEF Worlds, NoBattle

\* A session of such a campaign is one the client accepts.
LEMMA GoodLoads ==
    ASSUME NEW s, NEW r, Good(s, r)
    PROVE  Loadable(s) /\ s \notin {Missing, Damaged}
<1>1. s \notin {Missing, Damaged} /\ Valid(s.checkpoint) /\ s \in Sessions
  BY FilesAssumption DEF Good
<1>2. PICK k \in 0..NumWorlds :
          Reached(k, s.profile) /\ At(k, s.profile, s.checkpoint, r)
  BY DEF Good
<1>3. k \in Nat /\ s.profile.active \in Nat
  BY <1>2, Numbers DEF Reached
<1>4. s.profile.completed \subseteq s.profile.victories
  BY <1>2, <1>3 DEF Reached, At, Fought
<1>5. s.checkpoint.battle # NoBattle =>
          /\ s.checkpoint.battle \in {k, k + 1}
          /\ s.profile.active <= s.checkpoint.battle
  BY <1>2, <1>3, Numbers DEF Reached, At, Fought
<1>6. ASSUME s.checkpoint.battle # NoBattle, s.checkpoint.battle # s.profile.active
      PROVE  Migrates(s.profile, s.checkpoint.battle)
  <2>1. /\ s.profile.active < s.checkpoint.battle
        /\ s.profile.active..(s.checkpoint.battle - 1) \subseteq 1..k
    BY <1>2, <1>3, <1>5, <1>6 DEF Reached
  <2>2. 1..k = s.profile.completed /\ 1..k = s.profile.rewarded
    BY <1>2 DEF Reached
  <2>. QED
    BY <2>1, <2>2, <1>4 DEF Migrates
<1>7. s.checkpoint.state \in PostCombat => s.checkpoint.battle \in s.profile.victories
  BY <1>1, <1>2, <1>3, Numbers DEF At, PostCombat, Valid
<1>8. s.checkpoint.state = "Reward" => s.checkpoint.battle \in s.profile.completed
  BY <1>1, <1>2, <1>3, Numbers DEF At, Reached, Valid
<1>9. s.profile.rewarded = s.profile.completed
  BY <1>2 DEF Reached
<1>. QED
  BY <1>1, <1>4, <1>6, <1>7, <1>8, <1>9 DEF Loadable, Coherent

\* It stays one when another combat is restarted.
LEMMA GoodStays ==
    ASSUME NEW s, NEW r, NEW q, r \subseteq q, Good(s, r)
    PROVE  Good(s, q)
  BY DEF Good, At, Fought

\* Of the files there are, those and no others can be loaded.
LEMMA Loads ==
    ASSUME DiskInv
    PROVE  /\ Loadable(primary) <=> Good(primary, restarted)
           /\ Loadable(backup) <=> Good(backup, restarted)
           /\ Good(primary, restarted) \/ Good(backup, restarted) => Good(Load, restarted)
  BY GoodLoads DEF DiskInv, Loadable, Load

\* What is shown when a session is presented.
LEMMA Presents ==
    ASSUME NEW s, Good(s, restarted'), s.profile = profile', s.checkpoint = flow'.last
    PROVE  InMemory'
<1>1. PICK k \in 0..NumWorlds :
          Reached(k, s.profile) /\ At(k, s.profile, s.checkpoint, restarted')
  BY DEF Good
<1>2. (Reached(k, profile) /\ At(k, profile, flow.last, restarted))'
  BY <1>1 DEF Reached, At, Fought
<1>. QED
  BY <1>2 DEF InMemory

-----------------------------------------------------------------------------
LEMMA Begins == FlowInit => IInv
<1> SUFFICES ASSUME FlowInit PROVE IInv
  OBVIOUS
<1>0. NewProfile \in Profiles /\ TitleCheckpoint \in Checkpoints
  BY Numbers DEF NewProfile, Profiles, TitleCheckpoint, Checkpoints, FlowStates
<1>1. FlowTypeOK
  <2>1. flow \in Flows /\ saved \in Sessions /\ profile \in Profiles
    BY <1>0 DEF FlowInit, Restored, TitleCheckpoint, Checkpoints, Flows, NoSession, Sessions
  <2>2. rejected \in BOOLEAN /\ running \in BOOLEAN /\ answered \in BOOLEAN
    BY Zenon DEF FlowInit
  <2>3. /\ crashes \in 0..MaxCrashes /\ failures \in 0..MaxFailures
        /\ damages \in 0..MaxDamages
    BY FlowBounds DEF FlowInit
  <2>. QED
    BY <2>1, <2>2, <2>3 DEF FlowInit, FlowTypeOK
<1>. QED
  BY <1>1 DEF FlowInit, IInv, RunInv, DiskInv, UpInv, SaveInv, Nothing, NoSave

\* The file operations of a save.
Writing == WriteDurably \/ DeleteBackup \/ RetirePrimary

LEMMA WritingKeeps == IInv /\ Writing => IInv'
<1> SUFFICES ASSUME IInv, Writing
             PROVE  IInv'
  OBVIOUS
<1>0. /\ saving # NoSave /\ saving \in Saves
      /\ saving' = [saving EXCEPT !.step = saving'.step]
      /\ saving'.step \in {"delete", "retire", "put", "replace", "move"}
      /\ UNCHANGED <<game, saved, mishaps>>
  BY DEF Writing, WriteDurably, DeleteBackup, RetirePrimary, Then, NoSave, IInv, FlowTypeOK, Saves
<1>1. /\ saving' # NoSave /\ saving' \in Saves
      /\ saving'.session = saving.session /\ saving'.flow = saving.flow
      /\ saving'.then = saving.then
  BY <1>0 DEF Saves, NoSave
<1>2. Good(saving.session, restarted)
  BY <1>0 DEF IInv, SaveInv
<1>3. CASE WriteDurably
  <2>1. Current \/ (Nothing /\ ~running /\ ~rejected)
    BY <1>0 DEF IInv, UpInv
  <2>2. /\ saving'.step = "move" => primary = Missing
        /\ saving'.step = "replace" => primary = Damaged
        /\ saving'.step \in {"delete", "retire"} => Good(primary, restarted)
        /\ saving'.step # "put"
    BY <1>0, <1>3, <2>1, GoodLoads DEF WriteDurably, Then, Current, Nothing, Saves
  <2>. QED
    BY <1>0, <1>1, <1>2, <1>3, <2>2 DEF WriteDurably, files, game, mishaps, IInv, FlowTypeOK,
       RunInv, DiskInv, UpInv, SaveInv, InMemory, Ahead, Current, Nothing
<1>4. CASE DeleteBackup
  <2>1. /\ Good(primary, restarted) /\ saving'.step = "retire"
        /\ backup' = Missing /\ primary' = primary
    BY <1>0, <1>4 DEF DeleteBackup, IInv, SaveInv, Then, Saves
  <2>2. Current /\ primary \notin {Missing, Damaged} /\ primary = saved /\ ~rejected
    BY <1>0, <2>1, GoodLoads DEF IInv, UpInv, Nothing, Current
  <2>. QED
    BY <1>0, <1>1, <1>2, <2>1, <2>2 DEF game, mishaps, IInv, FlowTypeOK,
       RunInv, DiskInv, UpInv, SaveInv, InMemory, Ahead, Current, Nothing
<1>5. CASE RetirePrimary
  <2>1. /\ Good(primary, restarted) /\ saving'.step = "put"
        /\ backup' = primary /\ primary' = Missing
    BY <1>0, <1>5 DEF RetirePrimary, IInv, SaveInv, Then, Saves
  <2>2. primary = saved /\ ~rejected
    BY <1>0, <2>1, GoodLoads DEF IInv, UpInv, Nothing, Current
  <2>. QED
    BY <1>0, <1>1, <1>2, <2>1, <2>2, FilesAssumption DEF game, mishaps, IInv, FlowTypeOK,
       RunInv, DiskInv, UpInv, SaveInv, InMemory, Ahead, Current, Nothing
<1>. QED
  BY <1>3, <1>4, <1>5 DEF Writing

LEMMA SavedKeeps == IInv /\ Saved => IInv'
<1> SUFFICES ASSUME IInv, Saved
             PROVE  IInv'
  OBVIOUS
<1> DEFINE s == saving.session
<1>0. /\ saving # NoSave /\ saving \in Saves
      /\ Good(s, restarted) /\ s.profile = profile /\ s.checkpoint = saving.flow.last
      /\ FlowSound(saving.flow) /\ saving.flow \in Flows
  BY DEF Saved, NoSave, IInv, FlowTypeOK, SaveInv, Saves
<1>1. /\ primary' = s /\ saved' = s /\ rejected' = FALSE /\ running' = TRUE
      /\ UNCHANGED <<backup, mishaps>>
  BY DEF Saved
<1>2. DiskInv' /\ UpInv'
  BY <1>0, <1>1 DEF mishaps, DiskInv, UpInv, IInv, Current
<1>3. flow' = saving.flow
  BY <1>0 DEF Saved, Presented, IInv, SaveInv
<1>4. InMemory' => RunInv'
  BY <1>0, <1>1, <1>3 DEF RunInv
<1>5. CASE saving.then # "activate"
  <2>1. UNCHANGED profile /\ saving' = NoSave
    BY <1>5 DEF Saved
  <2>2. InMemory'
    BY <1>0, <1>1, <1>3, <2>1, Presents DEF mishaps
  <2>3. FlowTypeOK'
    BY <1>0, <1>1, <1>3, <2>1 DEF IInv, FlowTypeOK, mishaps, Saved, Presented, Good
  <2>. QED
    BY <1>2, <1>4, <2>1, <2>2, <2>3 DEF IInv, SaveInv
<1>6. CASE saving.then = "activate"
  <2> DEFINE p == [profile EXCEPT !.active = flow.last.battle + 1]
             t == [profile |-> p, checkpoint |-> saving.flow.last]
  <2>1. /\ profile' = p
        /\ saving' = [step |-> "write", flow |-> saving.flow, then |-> "nothing", session |-> t]
        /\ flow' = saving.flow /\ combat' = "none" /\ answered' = FALSE
    BY <1>6 DEF Saved, BeginSave, Presented
  <2>2. /\ flow.last.state = "Reward" /\ flow.last.battle < NumWorlds
        /\ saving.flow.last.state = "Map" /\ running
    BY <1>0, <1>6 DEF IInv, SaveInv
  <2>3. PICK k \in 0..NumWorlds :
            Reached(k, profile) /\ (At(k, profile, flow.last, restarted) \/ Ahead(k))
    BY <2>2 DEF IInv, RunInv, InMemory
  <2>4. flow.last.battle = k /\ profile.victories = 1..k /\ k \in Nat /\ k < NumWorlds
    BY <2>2, <2>3, Numbers DEF At, Ahead
  <2>5. profile \in Profiles /\ saving.flow.last \in Checkpoints
    BY <1>0 DEF IInv, FlowTypeOK, Flows
  <2>6. p \in Profiles /\ p = [active |-> k + 1, victories |-> profile.victories,
                 completed |-> profile.completed, rewarded |-> profile.rewarded]
    BY <2>4, <2>5, Numbers DEF Profiles
  <2>7. Reached(k, p)
    BY <2>3, <2>4, <2>6 DEF Reached
  <2>8. PICK j \in 0..NumWorlds : At(j, s.profile, s.checkpoint, restarted)
    BY <1>0 DEF Good
  <2>9. saving.flow.last.battle = NoBattle
    BY <1>0, <2>2, <2>8 DEF At
  <2>10. At(k, p, saving.flow.last, restarted)
    BY <2>2, <2>4, <2>6, <2>9 DEF At, Fought
  <2>11. Good(t, restarted) /\ t.profile = p /\ t.checkpoint = saving.flow.last
    BY <1>0, <2>5, <2>6, <2>7, <2>10 DEF Good, Sessions
  <2>12. InMemory'
    BY <1>1, <1>3, <2>1, <2>11, Presents DEF mishaps
  <2>13. saving' \in Saves
    BY <1>0, <2>1, <2>11 DEF Saves, Good
  <2>14. FlowTypeOK'
    BY <1>0, <1>1, <2>1, <2>6, <2>11, <2>13, GoodLoads DEF IInv, FlowTypeOK, mishaps, Good
  <2>15. ~saving.flow.pending
    BY <1>0 DEF IInv, SaveInv
  <2>16. SaveInv'
    BY <1>0, <1>1, <2>1, <2>11, <2>15 DEF SaveInv, mishaps
  <2>. QED
    BY <1>2, <1>4, <2>12, <2>14, <2>16 DEF IInv
<1>. QED
  BY <1>5, <1>6

\* A failed operation leaves the flow as it was.  The files are those of
\* before, or the primary was put back.
LEMMA FailToSaveKeeps == IInv /\ FailToSave => IInv'
<1> SUFFICES ASSUME IInv, FailToSave
             PROVE  IInv'
  OBVIOUS
<1>1. /\ saving # NoSave /\ saving' = NoSave /\ flow' = flow
      /\ UNCHANGED <<rejected, running, profile, combat, answered, saved>>
      /\ UNCHANGED <<restarted, crashes, damages>>
      /\ failures' = failures + 1 /\ failures < MaxFailures
  BY DEF FailToSave, TakenBack
<1>2. RunInv' /\ SaveInv'
  BY <1>1 DEF IInv, RunInv, InMemory, Ahead, SaveInv
<1>3. CASE UNCHANGED files
  BY <1>1, <1>2, <1>3, FlowBounds DEF files, IInv, FlowTypeOK, DiskInv, UpInv, Current, Nothing
<1>4. CASE saving.step = "put" /\ primary' = backup /\ backup' = Missing
  <2>1. primary = Missing /\ (Current \/ (Nothing /\ ~running /\ ~rejected))
    BY <1>1, <1>4 DEF IInv, SaveInv, UpInv
  <2>2. \/ Good(backup, restarted) /\ backup = saved /\ ~rejected
        \/ backup = Missing /\ ~running /\ ~rejected
    BY <2>1, GoodLoads, FilesAssumption DEF Current, Nothing
  <2>. QED
    BY <1>1, <1>2, <1>4, <2>2, FlowBounds DEF IInv, FlowTypeOK, DiskInv, UpInv, Current, Nothing
<1>. QED
  BY <1>3, <1>4 DEF FailToSave

-----------------------------------------------------------------------------
\* A stable transition saves a good session, and would be where it is again
\* if the save failed.
LEMMA Transition ==
    ASSUME IInv, running, saving = NoSave, NEW p \in Profiles, NEW f \in Flows,
           NEW then \in {"present", "activate"}, TransitionStable(p, f, then),
           FlowSound(f), ~f.pending,
           Good([profile |-> p, checkpoint |-> f.last], restarted), InMemory',
           then = "activate" => /\ flow.last.state = "Reward" /\ flow.last.battle < NumWorlds
                                /\ f.last.state = "Map"
    PROVE  IInv'
<1> DEFINE s == [profile |-> p, checkpoint |-> f.last]
<1>1. /\ profile' = p
      /\ saving' = [step |-> "write", flow |-> f, then |-> then, session |-> s]
      /\ UNCHANGED <<rejected, running, flow, combat, answered>>
      /\ UNCHANGED <<files, saved, mishaps>>
  BY DEF TransitionStable, BeginSave
<1>2. /\ saving' \in Saves
      /\ saving'.session = s /\ saving'.flow = f /\ saving'.then = then
      /\ saving'.step = "write" /\ s.profile = p /\ s.checkpoint = f.last
  BY <1>1 DEF Saves, Good
<1>3. FlowTypeOK'
  BY <1>1, <1>2, GoodLoads DEF IInv, FlowTypeOK, files, mishaps
<1>4. RunInv' /\ DiskInv'
  BY <1>1 DEF IInv, RunInv, DiskInv, Nothing, files, mishaps
<1>5. UpInv'
  BY <1>1 DEF IInv, UpInv, Current, Nothing, files, mishaps
<1>6. SaveInv'
  BY <1>1, <1>2 DEF SaveInv, mishaps
<1>. QED
  BY <1>3, <1>4, <1>5, <1>6 DEF IInv

\* The flow that enters a state.
LEMMA Enters ==
    ASSUME NEW f \in Flows, NEW state \in FlowStates, NEW b \in Worlds \cup {NoBattle},
           Valid(Entering(f, state, b).last)
    PROVE  /\ Entering(f, state, b) \in Flows
           /\ FlowSound(Entering(f, state, b))
           /\ ~Entering(f, state, b).pending
           /\ Entering(f, state, b).last.state = state
           /\ Entering(f, state, b).last.battle = b
  BY DEF Entering, Flows, FlowSound, Checkpoints

\* The steps of the flow between two saves.
Transitions == \/ EnterMap \/ StartCombat \/ ResolveCombat
               \/ CompleteTrial \/ CompleteLossTrial \/ CompleteReward

LEMMA TransitionsKeep == IInv /\ Transitions => IInv'
<1> SUFFICES ASSUME IInv, Transitions
             PROVE  IInv'
  OBVIOUS
<1>0. /\ running /\ saving = NoSave
      /\ flow \in Flows /\ flow.last \in Checkpoints /\ profile \in Profiles
      /\ InMemory /\ FlowSound(flow)
  BY DEF Transitions, EnterMap, StartCombat, ResolveCombat, CompleteTrial, CompleteLossTrial,
     CompleteReward, InState, IInv, FlowTypeOK, RunInv, Flows
<1>1. PICK k \in 0..NumWorlds :
          Reached(k, profile) /\ (At(k, profile, flow.last, restarted) \/ Ahead(k))
  BY <1>0 DEF InMemory
<1>2. /\ Valid(flow.last) /\ flow.trials = flow.last.trials
      /\ flow.rewards = flow.last.rewards /\ flow.rewards \subseteq flow.trials
      /\ flow.state # "Map" => ~flow.pending /\ flow.last.state = flow.state
  BY <1>0 DEF FlowSound, Valid
<1>3. k \in Nat
  BY Numbers
<1>4. ASSUME NEW p \in Profiles, NEW f \in Flows, FlowSound(f),
             NEW j \in 0..NumWorlds, Reached(j, p), At(j, p, f.last, restarted)
      PROVE  Good([profile |-> p, checkpoint |-> f.last], restarted)
  BY <1>4 DEF Good, Sessions, Flows, FlowSound
<1>5. ASSUME UNCHANGED <<profile, flow, combat, answered, restarted>>
      PROVE  InMemory'
  BY <1>0, <1>5 DEF InMemory, Ahead
<1>6. CASE EnterMap
  <2> DEFINE f == Entering(flow, "Map", NoBattle)
  <2>1. flow.last.state = "Title" /\ At(k, profile, flow.last, restarted)
    BY <1>1, <1>2, <1>6 DEF EnterMap, InState, Ahead
  <2>2. Valid(f.last)
    BY <1>0, <1>2 DEF Entering, Valid, Flows
  <2>3. f \in Flows /\ FlowSound(f) /\ ~f.pending /\ f.last.state = "Map"
                    /\ f.last.battle = NoBattle
    BY <1>0, <2>2, Enters DEF FlowStates
  <2>4. At(k, profile, f.last, restarted)
    BY <2>1, <2>3, <1>3, Numbers DEF At
  <2>. QED
    BY <1>0, <1>1, <1>4, <1>5, <1>6, <2>3, <2>4, Transition DEF EnterMap, TransitionStable, mishaps
<1>7. CASE StartCombat
  <2> DEFINE f == Entering(flow, "Combat", NextWorld)
  <2>1. flow.last.state = "Map" /\ At(k, profile, flow.last, restarted)
    BY <1>0, <1>1, <1>7 DEF StartCombat, InState, FlowSound, Ahead
  <2>2. NextWorld = k + 1 /\ NextWorld \in Worlds
    <3>1. profile.completed = 1..k
      BY <1>1 DEF Reached
    <3>2. Cardinality(1..k) = k
      BY <1>3, FS_Interval
    <3>. QED
      BY <1>7, <3>1, <3>2 DEF StartCombat, NextWorld
  <2>3. Valid(f.last)
    BY <1>0, <1>2, <2>2, Numbers DEF Entering, Valid, Flows
  <2>4. f \in Flows /\ FlowSound(f) /\ ~f.pending /\ f.last.state = "Combat"
                    /\ f.last.battle = k + 1
    BY <1>0, <2>2, <2>3, Enters DEF FlowStates
  <2>5. At(k, profile, f.last, restarted)
    BY <2>1, <2>4, <1>3, Numbers DEF At
  <2>. QED
    BY <1>0, <1>1, <1>4, <1>5, <1>7, <2>4, <2>5, Transition DEF StartCombat, TransitionStable, mishaps
<1>8. CASE ResolveCombat
  <2> DEFINE b == flow.last.battle
             p == [profile EXCEPT !.victories = @ \cup {b}]
             f == Entering(flow, "NormalTrial", b)
             g == Entering(flow, "LossTrial", b)
  <2>1. /\ flow.last.state = "Combat" /\ b = k + 1 /\ b \in Worlds
        /\ \/ profile.victories = 1..k
           \/ profile.victories = 1..(k + 1)
        /\ combat = "won" \/ Fought(k, profile, restarted)
    BY <1>0, <1>1, <1>2, <1>3, <1>8, Numbers
       DEF ResolveCombat, InState, At, Ahead, Checkpoints, Fought
  <2>2. Valid(f.last) /\ Valid(g.last)
    BY <1>0, <1>2, <2>1, Numbers DEF Entering, Valid, Flows
  <2>3. CASE combat = "won" /\ TransitionStable(p, f, "present")
    <3>1. f \in Flows /\ FlowSound(f) /\ ~f.pending /\ f.last.state = "NormalTrial"
                      /\ f.last.battle = k + 1
      BY <1>0, <2>1, <2>2, Enters DEF FlowStates
    <3>2. p \in Profiles /\ p.victories = 1..(k + 1) /\ p.completed = profile.completed
                         /\ p.rewarded = profile.rewarded /\ p.active = profile.active
      BY <1>0, <1>3, <2>1 DEF Profiles
    <3>3. Reached(k, p) /\ At(k, p, f.last, restarted)
      BY <1>1, <3>1, <3>2 DEF Reached, At
    <3>4. InMemory'
      BY <2>1, <2>3, <3>2, <3>3 DEF TransitionStable, mishaps, InMemory, Ahead
    <3>. QED
      BY <1>0, <1>4, <2>3, <3>1, <3>2, <3>3, <3>4, Transition
  <2>4. CASE combat = "lost" /\ TransitionStable(profile, g, "present")
    <3>1. g \in Flows /\ FlowSound(g) /\ ~g.pending /\ g.last.state = "LossTrial"
                      /\ g.last.battle = k + 1
      BY <1>0, <2>1, <2>2, Enters DEF FlowStates
    <3>2. At(k, profile, g.last, restarted)
      BY <2>1, <2>4, <3>1 DEF At
    <3>. QED
      BY <1>0, <1>1, <1>4, <1>5, <2>4, <3>1, <3>2, Transition DEF TransitionStable, mishaps
  <2>. QED
    BY <1>8, <2>3, <2>4 DEF ResolveCombat
<1>9. CASE CompleteTrial
  <2> DEFINE b == flow.last.battle
             h == [flow EXCEPT !.trials = @ \cup {b}]
             f == Entering(h, "Reward", b)
             p == [profile EXCEPT !.completed = @ \cup {b}, !.rewarded = @ \cup {b}]
  <2>1. /\ flow.last.state = "NormalTrial" /\ flow.state = "NormalTrial"
        /\ answered /\ b \notin flow.trials /\ ~flow.pending
        /\ TransitionStable(p, f, "present")
    BY <1>2, <1>9 DEF CompleteTrial, InState
  <2>2. /\ b \in Worlds
        /\ \/ b = k + 1 /\ profile.victories = 1..(k + 1)
           \/ b = k /\ profile.victories = 1..k /\ profile.active <= k
    BY <1>0, <1>1, <1>2, <2>1 DEF At, Ahead, Valid, Checkpoints
  <2>3. PICK j \in 0..NumWorlds : /\ j = b /\ j \in {k, k + 1} /\ profile.victories = 1..j
                                  /\ profile.active <= j
    BY <1>1, <1>3, <2>2, Numbers DEF Reached
  <2>4. p \in Profiles /\ p.victories = 1..j /\ p.completed = 1..j
                       /\ p.rewarded = 1..j /\ p.active = profile.active
    <3>1. 1..k \cup {b} = 1..j
      BY <1>3, <2>2, <2>3, Numbers
    <3>2. p \in Profiles /\ p.victories = profile.victories /\ p.active = profile.active
          /\ p.completed = profile.completed \cup {b}
          /\ p.rewarded = profile.rewarded \cup {b}
      BY <1>0, <2>2 DEF Profiles
    <3>. QED
      BY <1>1, <2>3, <3>1, <3>2 DEF Reached
  <2>5. h \in Flows /\ h.trials = flow.trials \cup {b} /\ h.rewards = flow.rewards
    BY <1>0, <2>2 DEF Flows
  <2>6. Valid(f.last)
    BY <1>2, <2>1, <2>2, <2>5, Numbers DEF Entering, Valid, Flows
  <2>7. f \in Flows /\ FlowSound(f) /\ ~f.pending /\ f.last.state = "Reward"
                    /\ f.last.battle = j
    BY <2>2, <2>3, <2>5, <2>6, Enters DEF FlowStates
  <2>8. profile.active \in 1..(k + 1)
    BY <1>1 DEF Reached
  <2>9. Reached(j, p) /\ At(j, p, f.last, restarted)
    BY <1>3, <2>3, <2>4, <2>7, <2>8 DEF Reached, At
  <2>10. InMemory'
    BY <2>1, <2>3, <2>4, <2>9 DEF TransitionStable, mishaps, InMemory, Ahead
  <2>. QED
    BY <1>0, <1>4, <2>1, <2>4, <2>7, <2>9, <2>10, Transition
<1>10. CASE CompleteLossTrial
  <2> DEFINE f == Entering(flow, "Map", NoBattle)
  <2>1. flow.last.state = "LossTrial" /\ At(k, profile, flow.last, restarted)
    BY <1>1, <1>2, <1>10 DEF CompleteLossTrial, InState, Ahead
  <2>2. Valid(f.last)
    BY <1>0, <1>2 DEF Entering, Valid, Flows
  <2>3. f \in Flows /\ FlowSound(f) /\ ~f.pending /\ f.last.state = "Map"
                    /\ f.last.battle = NoBattle
    BY <1>0, <2>2, Enters DEF FlowStates
  <2>4. At(k, profile, f.last, restarted)
    BY <2>1, <2>3, <1>3, Numbers DEF At
  <2>. QED
    BY <1>0, <1>1, <1>4, <1>5, <1>10, <2>3, <2>4, Transition
       DEF CompleteLossTrial, TransitionStable, mishaps
<1>11. CASE CompleteReward
  <2> DEFINE b == flow.last.battle
             h == [flow EXCEPT !.rewards = @ \cup {b}]
             f == Entering(h, "Map", NoBattle)
             then == IF b < NumWorlds THEN "activate" ELSE "present"
  <2>1. /\ flow.last.state = "Reward" /\ At(k, profile, flow.last, restarted)
        /\ b \in Worlds /\ b \in flow.trials
    BY <1>0, <1>1, <1>2, <1>11, Numbers
       DEF CompleteReward, InState, Ahead, Valid, Checkpoints
  <2>2. h \in Flows /\ h.trials = flow.trials /\ h.rewards = flow.rewards \cup {b}
    BY <1>0, <2>1 DEF Flows
  <2>3. Valid(f.last)
    BY <1>2, <2>1, <2>2 DEF Entering, Valid, Flows
  <2>4. f \in Flows /\ FlowSound(f) /\ ~f.pending /\ f.last.state = "Map"
                    /\ f.last.battle = NoBattle
    BY <2>2, <2>3, Enters DEF FlowStates
  <2>5. At(k, profile, f.last, restarted)
    BY <2>1, <2>4 DEF At, Fought
  <2>6. TransitionStable(profile, f, then) /\ then \in {"present", "activate"}
    BY <1>11 DEF CompleteReward
  <2>7. Good([profile |-> profile, checkpoint |-> f.last], restarted) /\ InMemory'
    BY <1>0, <1>1, <1>4, <1>5, <2>4, <2>5, <2>6 DEF TransitionStable, mishaps
  <2>8. then = "activate" => b < NumWorlds
    OBVIOUS
  <2> HIDE DEF f, then
  <2>. QED
    BY <1>0, <2>1, <2>4, <2>6, <2>7, <2>8, Transition
<1>. QED
  BY <1>6, <1>7, <1>8, <1>9, <1>10, <1>11 DEF Transitions

\* What the learner does that is not saved.
LEMMA UnsavedKeep ==
    ASSUME IInv, \/ ResumePending \/ AnswerTrial \/ LeaveTrial
                 \/ \E result \in {"won", "lost"} : EndCombat(result)
    PROVE  IInv'
<1>0. /\ running /\ saving = NoSave /\ saving' = NoSave
      /\ UNCHANGED <<rejected, running, profile>>
      /\ UNCHANGED <<files, saved, mishaps>>
      /\ flow \in Flows /\ flow.last \in Checkpoints
      /\ InMemory /\ FlowSound(flow)
  BY DEF ResumePending, AnswerTrial, LeaveTrial, EndCombat, InState, IInv, FlowTypeOK, RunInv, Flows
<1>1. PICK k \in 0..NumWorlds :
          Reached(k, profile) /\ (At(k, profile, flow.last, restarted) \/ Ahead(k))
  BY <1>0 DEF InMemory
<1>2. ASSUME flow' \in Flows, flow'.last = flow.last, FlowSound(flow'),
             combat' \in {"none", "won", "lost"}, answered' \in BOOLEAN,
             Ahead(k) => Ahead(k)'
      PROVE  IInv'
  <2>1. InMemory'
    BY <1>0, <1>1, <1>2 DEF InMemory, mishaps
  <2>2. FlowTypeOK' /\ DiskInv'
    BY <1>0, <1>2 DEF files, mishaps, IInv, FlowTypeOK, DiskInv, Nothing
  <2>3. UpInv' /\ RunInv' /\ SaveInv'
    BY <1>0, <1>2, <2>1 DEF files, mishaps, IInv, UpInv, Current, Nothing, RunInv, SaveInv
  <2>. QED
    BY <2>2, <2>3 DEF IInv
<1>3. CASE ResumePending
  <2>1. /\ flow.pending /\ combat' = "none" /\ answered' = FALSE
        /\ flow' = [flow EXCEPT !.state = flow.last.state, !.pending = FALSE]
    BY <1>3 DEF ResumePending, Presented
  <2>2. flow' \in Flows /\ flow'.last = flow.last /\ FlowSound(flow')
    BY <1>0, <2>1 DEF Flows, Checkpoints, FlowSound
  <2>3. ~Ahead(k)
    BY <1>0, <2>1 DEF Ahead, FlowSound
  <2>. QED
    BY <1>2, <2>1, <2>2, <2>3
<1>4. CASE LeaveTrial
  <2>1. /\ ~answered /\ flow.state = "NormalTrial" /\ combat' = "none" /\ answered' = FALSE
        /\ flow' = [flow EXCEPT !.state = "Map", !.pending = TRUE]
    BY <1>4 DEF LeaveTrial, InState, Presented
  <2>2. flow.last.state = "NormalTrial"
    BY <1>0, <2>1 DEF FlowSound
  <2>3. flow' \in Flows /\ flow'.last = flow.last /\ FlowSound(flow')
    BY <1>0, <2>1, <2>2 DEF Flows, FlowStates, FlowSound
  <2>4. ~Ahead(k)
    BY <2>1, <2>2 DEF Ahead
  <2>. QED
    BY <1>2, <2>1, <2>3, <2>4
<1>5. CASE AnswerTrial
  <2>1. UNCHANGED <<flow, combat>> /\ answered' = TRUE
    BY <1>5 DEF AnswerTrial
  <2>2. combat' \in {"none", "won", "lost"} /\ (Ahead(k) => Ahead(k)')
    BY <1>0, <2>1 DEF Ahead, IInv, FlowTypeOK
  <2>. QED
    BY <1>0, <1>2, <2>1, <2>2
<1>6. ASSUME NEW result \in {"won", "lost"}, EndCombat(result)
      PROVE  IInv'
  <2>1. UNCHANGED <<flow, answered>> /\ combat = "none" /\ combat' = result
    BY <1>6 DEF EndCombat
  <2>2. answered' \in BOOLEAN /\ (Ahead(k) => Ahead(k)')
    BY <1>0, <2>1 DEF Ahead, IInv, FlowTypeOK
  <2>. QED
    BY <1>0, <1>2, <2>1, <2>2
<1>. QED
  BY <1>3, <1>4, <1>5, <1>6

\* A combat restarted with its victory in the profile is one of those from now
\* on, and the profile no longer ahead of the flow.
LEMMA RestartKeeps == IInv /\ RestartCombat => IInv'
<1> SUFFICES ASSUME IInv, RestartCombat
             PROVE  IInv'
  OBVIOUS
<1>0. /\ running /\ saving = NoSave /\ saving' = NoSave /\ combat' = "none"
      /\ flow.state = "Combat" /\ InMemory /\ FlowSound(flow)
      /\ restarted' = restarted \cup (profile.victories \cap {flow.last.battle})
      /\ UNCHANGED <<rejected, running, profile, flow, answered>>
      /\ UNCHANGED <<primary, backup, saved, crashes, failures, damages>>
  BY DEF RestartCombat, InState, IInv, RunInv, files
<1>1. PICK k \in 0..NumWorlds :
          Reached(k, profile) /\ (At(k, profile, flow.last, restarted) \/ Ahead(k))
  BY <1>0 DEF InMemory
<1>2. k \in Nat /\ flow.last.state = "Combat" /\ restarted \subseteq restarted'
  BY <1>0, Numbers DEF FlowSound
<1>3. At(k, profile, flow.last, restarted')
  <2>1. flow.last.battle = k + 1 /\ profile.victories \in {1..k, 1..(k + 1)}
    BY <1>1, <1>2 DEF At, Ahead, Fought
  <2>2. profile.victories = 1..(k + 1) => k + 1 \in restarted'
    BY <1>0, <1>2, <2>1
  <2>. QED
    BY <1>2, <2>1, <2>2 DEF At, Fought
<1>4. InMemory'
  BY <1>0, <1>1, <1>3 DEF InMemory
<1>5. \A s : Good(s, restarted) => Good(s, restarted')
  BY <1>2, GoodStays
<1>6. FlowTypeOK'
  <2>1. restarted' \in SUBSET Worlds
    BY <1>0 DEF IInv, FlowTypeOK, Profiles
  <2>. QED
    BY <1>0, <2>1 DEF IInv, FlowTypeOK
<1>7. RunInv' /\ SaveInv'
  BY <1>0, <1>4 DEF IInv, RunInv, SaveInv
<1>8. DiskInv' /\ UpInv'
  BY <1>0, <1>5 DEF IInv, DiskInv, UpInv, Current, Nothing
<1>. QED
  BY <1>6, <1>7, <1>8 DEF IInv

-----------------------------------------------------------------------------
\* A start finds what there is on the disk.
LEMMA AwakeKeeps == IInv /\ Awake => IInv'
<1> SUFFICES ASSUME IInv, Awake
             PROVE  IInv'
  OBVIOUS
<1>0. /\ ~running /\ saving = NoSave /\ UNCHANGED <<files, mishaps>>
      /\ restarted' = restarted /\ DiskInv'
  BY DEF Awake, IInv, DiskInv, Nothing, files, mishaps
<1>1. ASSUME NEW c \in Checkpoints, Valid(c)
      PROVE  /\ Restored(c) \in Flows /\ FlowSound(Restored(c))
             /\ ~Restored(c).pending /\ Restored(c).last = c
  BY <1>1 DEF Restored, Flows, Checkpoints, FlowSound
<1>2. ASSUME NEW p, NEW c \in Checkpoints, Good([profile |-> p, checkpoint |-> c], restarted),
             BeginSave(p, Restored(c), "awake"), profile' = p, ~running',
             restarted' = restarted
      PROVE  saving' # NoSave /\ saving' \in Saves /\ SaveInv'
  <2> DEFINE s == [profile |-> p, checkpoint |-> c]
  <2>1. Valid(c) /\ s \in Sessions
    BY <1>2 DEF Good
  <2>2. saving' = [step |-> "write", flow |-> Restored(c), then |-> "awake", session |-> s]
    BY <1>1, <1>2, <2>1 DEF BeginSave
  <2>3. saving' \in Saves
    BY <1>1, <2>1, <2>2 DEF Saves
  <2>. QED
    BY <1>1, <1>2, <2>1, <2>2, <2>3 DEF SaveInv, NoSave
<1>3. CASE LoadSession
  <2> DEFINE s == Load
             c == s.checkpoint
             later == c.battle \notin {NoBattle, s.profile.active}
             p == IF later THEN [s.profile EXCEPT !.active = c.battle] ELSE s.profile
  <2>1. Loadable(s)
    BY <1>3 DEF LoadSession
  <2>2. /\ Good(s, restarted)
        /\ \/ Good(primary, restarted) /\ s = primary
           \/ Good(backup, restarted) /\ s = backup /\ primary \in {Missing, Damaged}
    BY <2>1, Loads DEF IInv, DiskInv, Load
  <2>3. /\ s \in Sessions /\ c \in Checkpoints /\ Valid(c) /\ s.profile \in Profiles
        /\ s = [profile |-> s.profile, checkpoint |-> c]
    BY <2>2 DEF Good, Sessions
  <2>4. /\ rejected' = (primary # Missing /\ ~Loadable(primary))
        /\ profile' = p /\ saved' = s /\ running' = ~later
        /\ flow' = Restored(c) /\ combat' = "none" /\ answered' = FALSE
        /\ IF later THEN BeginSave(p, Restored(c), "awake") ELSE UNCHANGED saving
    BY <1>3 DEF LoadSession, Presented
  <2>5. rejected' = (primary = Damaged) /\ rejected' \in BOOLEAN
    <3>1. primary # Missing /\ ~Loadable(primary) <=> primary = Damaged
      BY GoodLoads, FilesAssumption DEF IInv, DiskInv, Loadable
    <3>. QED
      BY <2>4, <3>1
  <2>6. Current'
    <3>1. Good(primary, restarted) => primary # Damaged
      BY GoodLoads
    <3>. QED
      BY <1>0, <2>2, <2>4, <2>5, <3>1 DEF Current, files, mishaps
  <2>7. PICK k \in 0..NumWorlds : Reached(k, s.profile) /\ At(k, s.profile, c, restarted)
    BY <2>2 DEF Good
  <2>8. ASSUME later
        PROVE  p \in Profiles /\ Good([profile |-> p, checkpoint |-> c], restarted)
    <3>1. c.battle \in Worlds /\ c.battle \in {k, k + 1} /\ k \in Nat
      BY <2>3, <2>7, <2>8, Numbers DEF At, Checkpoints
    <3>2. p \in Profiles /\ p.active = c.battle /\ p.victories = s.profile.victories
          /\ p.completed = s.profile.completed /\ p.rewarded = s.profile.rewarded
      BY <2>3, <2>8, <3>1 DEF Profiles
    <3>3. Reached(k, p) /\ At(k, p, c, restarted)
      BY <2>7, <2>8, <3>1, <3>2, Numbers DEF Reached, At, Fought
    <3>4. [profile |-> p, checkpoint |-> c] \in Sessions
      BY <2>3, <3>2 DEF Sessions
    <3>. QED
      BY <2>3, <3>2, <3>3, <3>4 DEF Good
  <2>9. CASE later
    <3>1. saving' # NoSave /\ saving' \in Saves /\ SaveInv' /\ ~running'
      BY <1>0, <1>2, <2>3, <2>4, <2>8, <2>9
    <3>2. Loadable(saving'.session)
      BY <3>1, GoodLoads DEF SaveInv
    <3>3. FlowTypeOK'
      BY <1>0, <1>1, <2>3, <2>4, <2>5, <2>8, <2>9, <3>1, <3>2
         DEF IInv, FlowTypeOK, files, mishaps
    <3>. QED
      BY <1>0, <2>6, <3>1, <3>3 DEF IInv, RunInv, UpInv
  <2>10. CASE ~later
    <3>1. profile' = s.profile /\ running' /\ saving' = NoSave
      BY <1>0, <2>4, <2>10
    <3>2. InMemory'
      BY <1>0, <1>1, <2>2, <2>3, <2>4, <3>1, Presents
    <3>3. RunInv'
      BY <1>1, <2>3, <2>4, <3>2 DEF RunInv
    <3>4. FlowTypeOK'
      BY <1>0, <1>1, <2>3, <2>4, <2>5, <3>1 DEF IInv, FlowTypeOK, files, mishaps
    <3>. QED
      BY <1>0, <2>6, <3>1, <3>3, <3>4 DEF IInv, UpInv, SaveInv
  <2>. QED
    BY <2>9, <2>10
<1>4. CASE CreateSession
  <2>1. /\ Nothing /\ rejected' = FALSE /\ profile' = NewProfile
        /\ flow' = Restored(TitleCheckpoint) /\ combat' = "none" /\ answered' = FALSE
        /\ BeginSave(NewProfile, Restored(TitleCheckpoint), "awake")
        /\ UNCHANGED <<running, saved>>
    BY <1>4 DEF CreateSession, Presented, Nothing
  <2>2. NewProfile \in Profiles /\ TitleCheckpoint \in Checkpoints /\ Valid(TitleCheckpoint)
    BY Numbers DEF NewProfile, Profiles, TitleCheckpoint, Checkpoints, FlowStates, Valid
  <2>3. Good([profile |-> NewProfile, checkpoint |-> TitleCheckpoint], restarted)
    <3>1. Reached(0, NewProfile) /\ At(0, NewProfile, TitleCheckpoint, restarted)
      BY DEF Reached, At, Fought, NewProfile, TitleCheckpoint
    <3>2. 0 \in 0..NumWorlds
      BY Numbers
    <3>. QED
      BY <2>2, <3>1, <3>2 DEF Good, Sessions
  <2>4. saving' # NoSave /\ saving' \in Saves /\ SaveInv' /\ ~running'
    BY <1>0, <1>2, <2>1, <2>2, <2>3
  <2>5. Loadable(saving'.session)
    BY <2>4, GoodLoads DEF SaveInv
  <2>6. FlowTypeOK'
    BY <1>0, <1>1, <2>1, <2>2, <2>4, <2>5 DEF IInv, FlowTypeOK, files, mishaps
  <2>7. UpInv'
    BY <1>0, <2>1, <2>4 DEF UpInv, Nothing, files
  <2>. QED
    BY <1>0, <2>4, <2>6, <2>7 DEF IInv, RunInv
<1>. QED
  BY <1>3, <1>4 DEF Awake

LEMMA FaultsKeep == IInv /\ (Crash \/ Damage) => IInv'
<1> SUFFICES ASSUME IInv, Crash \/ Damage
             PROVE  IInv'
  OBVIOUS
<1>1. CASE Crash
  <2>1. DiskInv' /\ ~running' /\ saving' = NoSave
    BY <1>1 DEF Crash, IInv, DiskInv, Nothing, files
  <2>2. FlowTypeOK'
    <3>1. rejected' \in BOOLEAN /\ running' \in BOOLEAN /\ answered' \in BOOLEAN
      BY <1>1, Zenon DEF Crash, IInv, FlowTypeOK
    <3>2. crashes' \in 0..MaxCrashes
      BY <1>1, FlowBounds DEF Crash, IInv, FlowTypeOK
    <3>. QED
      BY <1>1, <3>1, <3>2 DEF Crash, IInv, FlowTypeOK, files
  <2>. QED
    BY <2>1, <2>2 DEF IInv, RunInv, UpInv, SaveInv
<1>2. CASE Damage
  <2>1. /\ ~running /\ saving = NoSave /\ primary' = Damaged /\ Good(backup, restarted)
        /\ UNCHANGED <<backup, game, saving, saved, restarted, crashes, failures>>
    BY <1>2, Loads DEF Damage, IInv
  <2>2. FlowTypeOK'
    BY <1>2, <2>1, FlowBounds DEF Damage, IInv, FlowTypeOK, game
  <2>. QED
    BY <2>1, <2>2 DEF game, IInv, RunInv, DiskInv, UpInv, SaveInv
<1>. QED
  BY <1>1, <1>2

LEMMA Step == IInv /\ [FlowNext]_flowVars => IInv'
<1> SUFFICES ASSUME IInv, [FlowNext]_flowVars
             PROVE  IInv'
  OBVIOUS
<1>1. CASE UNCHANGED flowVars
  BY <1>1 DEF flowVars, files, game, mishaps, IInv, FlowTypeOK, RunInv, InMemory, Ahead, DiskInv,
     UpInv, Current, Nothing, SaveInv
<1>2. CASE FlowNext
  BY <1>2, WritingKeeps, SavedKeeps, FailToSaveKeeps, TransitionsKeep, UnsavedKeep,
     RestartKeeps, AwakeKeeps, FaultsKeep DEF FlowNext, Proceed, Play, Writing, Transitions
<1>. QED
  BY <1>1, <1>2

LEMMA Invariance == FlowSpec => []IInv
  BY Begins, Step, PTL DEF FlowSpec

\* types
\* The variables keep their shapes: ProfileStore and the flow controller only
\* ever write sessions of the kind the store can read back.
THEOREM FlowTypes == FlowSpec => []FlowTypeOK
<1>1. IInv => FlowTypeOK
  BY DEF IInv
<1>. QED
  BY <1>1, Invariance, PTL

\* Whatever crashed, failed or damaged the primary file, what ProfileStore would
\* load at the next start is a session, and the one the client saved last.
THEOREM RestartsResume == FlowSpec => []RestartResumes
<1>1. IInv => RestartResumes
  <2> SUFFICES ASSUME IInv, running
               PROVE  /\ Loadable(Load) /\ Load = saved /\ saved.checkpoint = flow.last
    BY DEF RestartResumes
  <2>1. Current /\ saved.checkpoint = flow.last /\ DiskInv
    BY DEF IInv, UpInv, RunInv
  <2>2. Load = saved /\ Good(saved, restarted)
    BY <2>1, Loads, GoodLoads DEF Current, Load
  <2>. QED
    BY <2>1, <2>2, GoodLoads
<1>. QED
  BY <1>1, Invariance, PTL

\* A combat on the screen is one the saved profile does not count as completed,
\* nor as won, unless it was restarted while that victory could not be saved.
THEOREM OnlyRestartsAreRefought == FlowSpec => []RefoughtOnlyIfRestarted
<1>1. IInv => RefoughtOnlyIfRestarted
  <2> SUFFICES ASSUME IInv, running, flow.state = "Combat"
               PROVE  /\ flow.last.battle \notin saved.profile.completed
                      /\ flow.last.battle \in saved.profile.victories
                             => flow.last.battle \in restarted
    BY DEF RefoughtOnlyIfRestarted
  <2>1. Good(saved, restarted) /\ saved.checkpoint = flow.last
    BY DEF IInv, UpInv, RunInv, Current
  <2>2. flow.last.state = "Combat"
    BY DEF IInv, RunInv, FlowSound
  <2>3. PICK k \in 0..NumWorlds : /\ Reached(k, saved.profile)
                                  /\ At(k, saved.profile, flow.last, restarted)
    BY <2>1 DEF Good
  <2>4. /\ k \in Nat /\ flow.last.battle = k + 1
        /\ saved.profile.completed = 1..k
        /\ Fought(k, saved.profile, restarted)
    BY <2>2, <2>3, Numbers DEF At, Reached
  <2>. QED
    BY <2>4 DEF Fought
<1>. QED
  BY <1>1, Invariance, PTL

-----------------------------------------------------------------------------
(* The route trial.                                                         *)

\* Shapes, for any numbers.
Quizzes == [state : States, version : Int,
            initial : Submissions \cup {NoSubmission},
            revision : Submissions \cup {NoSubmission}]

Counts == {WrongCount(m) : m \in Quizzes}

Trials == [state : TrialStates, batch : BOOLEAN, failure : BOOLEAN,
           canRecover : BOOLEAN, sheet : Sheets \cup {NoSheet},
           initial : Submissions \cup {NoSubmission},
           revision : Submissions \cup {NoSubmission},
           wrong : {-1} \cup Counts, count : BOOLEAN,
           final : [first : Sheets \cup {NoSheet}, final : Sheets \cup {NoSheet}],
           previous : TrialStates]

Shape == /\ trial \in Trials
         /\ awaiting \in Calls \cup {NoCall}
         /\ net \subseteq Calls
         /\ \A r \in replies : r.quiz \in Quizzes
         /\ quiz \in Quizzes
         /\ serving \in Calls \cup {NoCall}

\* A quiz that is not ready any more has a first pass; a perfect one needs
\* no revision.
Sound(m) == /\ m.state # "ready" => m.initial \in Submissions
            /\ m.state = "revision_open" => ~ZeroWrong(m)

\* What is said of a quiz in an old reply still holds.
Holds(m) == /\ m.initial \in {NoSubmission, quiz.initial}
            /\ m.revision \in {NoSubmission, quiz.revision}
            /\ m.state # "ready" => quiz.state # "ready" /\ m.initial = quiz.initial
            /\ Resolved(m) => Resolved(quiz)
            /\ Revealed(m) => Revealed(quiz) /\ m.revision = quiz.revision

\* The first pass about to be scored is the stored one.
ServesStored == serving # NoCall => /\ serving.kind = "initial"
                                    /\ quiz.state = "initial_locked"
                                    /\ quiz.initial = Submitted(serving)

\* A quiz that has taken the call c in.
HasTaken(m, c) ==
    /\ c.kind = "initial" => Resolved(m) /\ m.initial = Submitted(c)
    /\ c.kind = "revision" => Revealed(m) /\ m.revision = Submitted(c)

\* What goes by the id of the awaited call is that call, or its answer.
Answers(r) == r.ok => HasTaken(r.quiz, awaiting)

Identified ==
    awaiting # NoCall => /\ \A c \in net \cup ({serving} \ {NoCall}) :
                               c.id = awaiting.id => c = awaiting
                         /\ \A r \in replies : Awaits(r) => Answers(r)

RepliesHold == \A r \in replies : Sound(r.quiz) /\ Holds(r.quiz)

\* What a controller holds is what a quiz says.
RecordedBy(t, m) ==
    /\ t.initial \in {NoSubmission, m.initial}
    /\ t.revision \in {NoSubmission, m.revision}
    /\ t.wrong >= 0 => Resolved(m) /\ t.wrong = WrongCount(m)
    /\ t.final # NoResult => Revealed(m) /\ t.final = Result(m)

TrialInv == /\ Shape /\ Sound(quiz) /\ ServesStored /\ Identified /\ RepliesHold
            /\ RecordedBy(trial, quiz)

LEMMA BlankTrial == /\ Blank \in Trials /\ Opened \in Trials
                    /\ \A m : RecordedBy(Blank, m) /\ RecordedBy(Opened, m)
<1>1. Blank \in Trials
  BY DEF Blank, Trials, NoResult, TrialStates
<1>2. Opened \in Trials
  BY <1>1 DEF Opened, Trials, TrialStates
<1>3. /\ Blank.initial = NoSubmission /\ Blank.revision = NoSubmission
      /\ Blank.wrong = -1 /\ Blank.final = NoResult
  BY DEF Blank
<1>4. /\ Opened.initial = NoSubmission /\ Opened.revision = NoSubmission
      /\ Opened.wrong = -1 /\ Opened.final = NoResult
  BY DEF Opened, Blank
<1>. QED
  BY <1>1, <1>2, <1>3, <1>4 DEF RecordedBy

\* Steps of the controller that leave what it was told alone.
LEMMA Edits ==
    ASSUME NEW t \in Trials, NEW to \in TrialStates, NEW s \in Sheets, NEW m,
           RecordedBy(t, m)
    PROVE  /\ LET u == [t EXCEPT !.sheet = s] IN u \in Trials /\ RecordedBy(u, m)
           /\ LET u == [t EXCEPT !.count = FALSE] IN u \in Trials /\ RecordedBy(u, m)
           /\ LET u == [t EXCEPT !.state = to] IN u \in Trials /\ RecordedBy(u, m)
           /\ LET u == [t EXCEPT !.state = to, !.failure = FALSE, !.canRecover = FALSE]
              IN  u \in Trials /\ RecordedBy(u, m)
           /\ LET u == [t EXCEPT !.state = to, !.previous = t.state]
              IN  u \in Trials /\ RecordedBy(u, m)
           /\ LET u == [t EXCEPT !.state = to, !.failure = TRUE, !.canRecover = TRUE]
              IN  u \in Trials /\ RecordedBy(u, m)
  BY DEF Trials, RecordedBy

\* What was true of a quiz once is true of the quiz it has become.
LEMMA Outdated ==
    ASSUME NEW t, NEW m, RecordedBy(t, m), Holds(m)
    PROVE  RecordedBy(t, quiz)
  BY DEF RecordedBy, Holds, Resolved, Revealed, WrongCount,
     Result, FinalSheet

\* The quiz moves on: nothing said of it before is taken back.
Moves == \/ quiz' = quiz
         \/ /\ LockAccepts(quiz)
            /\ quiz'.state = "initial_locked"
            /\ quiz'.revision = quiz.revision
         \/ /\ quiz.state = "initial_locked"
            /\ quiz'.state \in {"revision_open", "revealed"}
            /\ quiz'.initial = quiz.initial /\ quiz'.revision = quiz.revision
         \/ /\ RevisionAccepts(quiz)
            /\ quiz'.state = "revealed"
            /\ quiz'.initial = quiz.initial

LEMMA QuizMoves ==
    ASSUME Shape, Moves
    PROVE  /\ \A m : Holds(m) => Holds(m)'
           /\ \A m : m = quiz' => Holds(m)'
           /\ RecordedBy(trial, quiz) => RecordedBy(trial, quiz')
<1>1. ASSUME NEW m, Holds(m)
      PROVE  Holds(m)'
  BY <1>1 DEF Holds, Moves, Resolved, Revealed, LockAccepts,
     RevisionAccepts
<1>2. ASSUME RecordedBy(trial, quiz)
      PROVE  RecordedBy(trial, quiz')
  BY <1>2 DEF RecordedBy, Moves, Resolved, Revealed, WrongCount,
     Result, FinalSheet,
     LockAccepts, RevisionAccepts
<1>3. ASSUME NEW m, m = quiz'
      PROVE  Holds(m)'
  BY <1>3 DEF Holds, Resolved, Revealed
<1>. QED
  BY <1>1, <1>2, <1>3

\* The steps by what they do to the calls and the answers under way.
LEMMA Quiet ==
    ASSUME TrialInv, trial' \in Trials, RecordedBy(trial', quiz),
           UNCHANGED <<awaiting, wire, service>>
    PROVE  TrialInv'
<1>. UNCHANGED <<awaiting, net, replies, quiz, serving>>
  BY DEF wire, service
<1>. QED
  BY DEF TrialInv, Shape, Sound, ServesStored, Identified, Answers, Awaits,
     RepliesHold, Holds,
     RecordedBy, Resolved, Revealed

LEMMA Loses ==
    ASSUME TrialInv, UNCHANGED <<trial, awaiting, quiz>>, net' \subseteq net,
           replies' \subseteq replies, serving' \in {serving, NoCall}
    PROVE  TrialInv'
<1>1. Shape' /\ Sound(quiz') /\ ServesStored' /\ RecordedBy(trial', quiz')
  BY DEF TrialInv, Shape, ServesStored
<1>2. RepliesHold'
  BY DEF TrialInv, RepliesHold, Holds
<1>3. Identified'
  BY DEF TrialInv, Identified, Answers, Awaits
<1>. QED
  BY <1>1, <1>2, <1>3 DEF TrialInv

LEMMA Forgets ==
    ASSUME TrialInv, awaiting' = NoCall, trial' \in Trials, RecordedBy(trial', quiz),
           UNCHANGED service, net' \subseteq net, replies' \subseteq replies
    PROVE  TrialInv'
<1>. UNCHANGED <<quiz, serving>>
  BY DEF service
<1>1. Shape' /\ Sound(quiz') /\ ServesStored' /\ RecordedBy(trial', quiz')
  BY DEF TrialInv, Shape, ServesStored
<1>2. RepliesHold'
  BY DEF TrialInv, RepliesHold, Holds
<1>3. Identified'
  BY DEF Identified
<1>. QED
  BY <1>1, <1>2, <1>3 DEF TrialInv

LEMMA FreshId == ASSUME Fresh # {}
                 PROVE  NewId \in Fresh
  BY DEF NewId

LEMMA Sends ==
    ASSUME TrialInv, NEW c \in Calls, c.id \in Fresh, Send(c),
           trial' \in Trials, RecordedBy(trial', quiz)
    PROVE  TrialInv'
<1>. /\ awaiting' = c /\ net' = net \cup {c}
     /\ UNCHANGED <<replies, quiz, serving>>
  BY DEF Send, service
<1>1. Shape' /\ Sound(quiz') /\ ServesStored' /\ RecordedBy(trial', quiz')
  BY DEF TrialInv, Shape, ServesStored
<1>2. RepliesHold'
  BY DEF TrialInv, RepliesHold, Holds
<1>3. /\ \A d \in net : d.id # c.id
      /\ \A r \in replies : r.to # c.id
      /\ serving # NoCall => serving.id # c.id
  BY DEF Fresh
<1>4. Identified'
  BY <1>3 DEF Identified, Awaits
<1>. QED
  BY <1>1, <1>2, <1>4 DEF TrialInv

\* The service answers the call c.
LEMMA Replied ==
    ASSUME TrialInv, NEW c, c \in net \cup ({serving} \ {NoCall}), NEW ok \in BOOLEAN,
           Reply(c, ok, quiz'),
           quiz' \in Quizzes, Sound(quiz'), Moves, serving' = NoCall,
           UNCHANGED <<trial, awaiting>>,
           ok => HasTaken(quiz', c)
    PROVE  TrialInv'
<1>. DEFINE reply == [to |-> c.id, ok |-> ok, quiz |-> quiz']
<1>1. net' = net \ {c} /\ replies' = replies \cup {reply}
  BY DEF Reply
<1>2. Shape' /\ ServesStored'
  BY <1>1 DEF TrialInv, Shape, ServesStored
<1>3. RecordedBy(trial', quiz')
  BY QuizMoves DEF TrialInv
<1>4. RepliesHold'
  <2>. SUFFICES ASSUME NEW r \in replies'
                PROVE  Sound(r.quiz) /\ Holds(r.quiz)'
    BY DEF RepliesHold
  <2>1. CASE r \in replies
    BY <2>1, QuizMoves DEF TrialInv, RepliesHold
  <2>2. CASE r = reply
    BY <2>2, QuizMoves DEF TrialInv
  <2>. QED
    BY <1>1, <2>1, <2>2
<1>5. Identified'
  <2>. SUFFICES ASSUME awaiting # NoCall
                PROVE  /\ \A d \in net' : d.id = awaiting.id => d = awaiting
                       /\ \A r \in replies' : r.to = awaiting.id => Answers(r)'
    BY DEF Identified, Awaits
  <2>1. \A d \in net' : d.id = awaiting.id => d = awaiting
    BY <1>1 DEF TrialInv, Identified
  <2>2. ASSUME NEW r \in replies, r.to = awaiting.id
        PROVE  Answers(r)'
    BY <2>2 DEF TrialInv, Identified, Awaits, Answers
  <2>3. ASSUME NEW r, r = reply, r.to = awaiting.id
        PROVE  Answers(r)'
    <3>1. c = awaiting
      BY <2>3 DEF TrialInv, Identified
    <3>. QED
      BY <2>3, <3>1 DEF Answers
  <2>. QED
    BY <1>1, <2>1, <2>2, <2>3
<1>. QED
  BY <1>2, <1>3, <1>4, <1>5 DEF TrialInv

LEMMA Granted ==
    ASSUME TrialInv, NEW c, c \in net \cup ({serving} \ {NoCall}),
           Reply(c, TRUE, quiz'),
           quiz' \in Quizzes, Sound(quiz'), Moves, HasTaken(quiz', c), serving' = NoCall,
           UNCHANGED <<trial, awaiting>>
    PROVE  TrialInv'
<1>1. PICK ok \in BOOLEAN : ok = TRUE
  OBVIOUS
<1>2. Reply(c, ok, quiz')
  BY <1>1
<1>. QED
  BY <1>2, Replied

LEMMA Refused ==
    ASSUME TrialInv, NEW c, c \in net \cup ({serving} \ {NoCall}),
           Reply(c, FALSE, quiz'),
           quiz' = quiz, serving' = NoCall, UNCHANGED <<trial, awaiting>>
    PROVE  TrialInv'
<1>1. PICK ok \in BOOLEAN : ok = FALSE
  OBVIOUS
<1>2. Reply(c, ok, quiz') /\ ~ok
  BY <1>1
<1>3. quiz' \in Quizzes /\ Sound(quiz') /\ Moves
  BY DEF TrialInv, Shape, Moves
<1>. QED
  BY <1>2, <1>3, Replied

LEMMA FreshCalls ==
    ASSUME TrialInv, Fresh # {}
    PROVE  /\ \A k \in {"prepare", "snapshot"} :
                  Call(k) \in Calls /\ Call(k).id \in Fresh
           /\ trial.sheet # NoSheet =>
                  \A k \in {"initial", "revision"} :
                      Submit(k) \in Calls /\ Submit(k).id \in Fresh
<1>1. NewId \in Fresh /\ NewId \in Requests
  BY FreshId DEF Fresh
<1>2. trial.sheet \in Sheets \cup {NoSheet}
  BY DEF TrialInv, Shape, Trials
<1>. QED
  BY <1>1, <1>2 DEF Call, Submit, Calls

\* What the learner does.
LEMMA LearnerStep ==
    ASSUME TrialInv, Press \/ (\E s \in Sheets : Choose(s)) \/ ReturnToMap
    PROVE  TrialInv'
<1>. trial \in Trials /\ RecordedBy(trial, quiz)
  BY DEF TrialInv, Shape
<1>1. ASSUME NEW s \in Sheets, Choose(s)
      PROVE  TrialInv'
  <2>1. trial' = [trial EXCEPT !.sheet = s]
    BY <1>1 DEF Choose, Becomes
  <2>2. trial' \in Trials /\ RecordedBy(trial', quiz)
    BY <2>1, Edits DEF TrialStates
  <2>. QED
    BY <1>1, <2>2, Quiet DEF Choose
<1>2. CASE AcknowledgeWrongCount
  <2>1. trial' = [trial EXCEPT !.count = FALSE]
    BY <1>2 DEF AcknowledgeWrongCount, Becomes
  <2>2. trial' \in Trials /\ RecordedBy(trial', quiz)
    BY <2>1 DEF Trials, RecordedBy
  <2>. QED
    BY <1>2, <2>2, Quiet DEF AcknowledgeWrongCount
<1>3. CASE AdvanceFinalFeedback
  <2>1. trial' = [trial EXCEPT !.state = "Complete"]
    BY <1>3 DEF AdvanceFinalFeedback, Becomes
  <2>2. trial' \in Trials /\ RecordedBy(trial', quiz)
    BY <2>1 DEF Trials, RecordedBy, TrialStates
  <2>. QED
    BY <1>3, <2>2, Quiet DEF AdvanceFinalFeedback
<1>4. ASSUME NEW from, NEW to \in TrialStates, NEW kind \in {"initial", "revision"},
             SubmitPass(from, to, kind)
      PROVE  TrialInv'
  <2>1. /\ trial' = [trial EXCEPT !.state = to, !.failure = FALSE, !.canRecover = FALSE]
        /\ trial.sheet # NoSheet
        /\ Send(Submit(kind))
    BY <1>4 DEF SubmitPass, Becomes, CanSubmit
  <2>2. trial' \in Trials /\ RecordedBy(trial', quiz)
    BY <2>1 DEF Trials, RecordedBy
  <2>3. Submit(kind) \in Calls /\ Submit(kind).id \in Fresh
    BY <2>1, FreshCalls DEF Send
  <2>. QED
    BY <2>1, <2>2, <2>3, Sends
<1>5. CASE RecoverAsync
  <2>1. /\ trial' = [trial EXCEPT !.state = "Loading", !.previous = trial.state]
        /\ Send(Call("snapshot"))
    BY <1>5 DEF RecoverAsync, Becomes
  <2>2. trial' \in Trials /\ RecordedBy(trial', quiz)
    BY <2>1 DEF Trials, RecordedBy, TrialStates
  <2>3. Call("snapshot") \in Calls /\ Call("snapshot").id \in Fresh
    BY <2>1, FreshCalls DEF Send
  <2>. QED
    BY <2>1, <2>2, <2>3, Sends
<1>6. CASE RetryPreparation \/ ReturnToMap
  <2>1. trial' = Blank /\ Send(Call("prepare"))
    BY <1>6 DEF RetryPreparation, ReturnToMap, Becomes
  <2>2. trial' \in Trials /\ RecordedBy(trial', quiz)
    BY <2>1, BlankTrial
  <2>3. Call("prepare") \in Calls /\ Call("prepare").id \in Fresh
    BY <2>1, FreshCalls DEF Send
  <2>. QED
    BY <2>1, <2>2, <2>3, Sends
<1>. QED
  BY <1>1, <1>2, <1>3, <1>4, <1>5, <1>6 DEF Press, SubmitInitialAsync,
     SubmitRevisionAsync,
     TrialStates

\* What the three functions of the quiz machine make of a quiz.
LEMMA NextQuizzes ==
    ASSUME NEW m \in Quizzes, NEW sub \in Submissions
    PROVE  /\ LockInitial(m, sub) \in Quizzes
           /\ LockInitial(m, sub).state = "initial_locked"
           /\ LockInitial(m, sub).initial = sub
           /\ LockInitial(m, sub).revision = m.revision
           /\ ResolveInitial(m) \in Quizzes
           /\ ResolveInitial(m).state =
                  IF ZeroWrong(m) THEN "revealed" ELSE "revision_open"
           /\ ResolveInitial(m).initial = m.initial
           /\ ResolveInitial(m).revision = m.revision
           /\ SubmitRevision(m, sub) \in Quizzes
           /\ SubmitRevision(m, sub).state = "revealed"
           /\ SubmitRevision(m, sub).initial = m.initial
           /\ SubmitRevision(m, sub).revision = sub
<1>. /\ m.version + 1 \in Int /\ {"initial_locked", "revealed", "revision_open"} \subseteq States
  BY DEF Quizzes, States
<1>1. /\ LockInitial(m, sub) \in Quizzes
      /\ LockInitial(m, sub).state = "initial_locked"
      /\ LockInitial(m, sub).initial = sub
      /\ LockInitial(m, sub).revision = m.revision
  BY DEF LockInitial, Quizzes
<1>2. /\ ResolveInitial(m) \in Quizzes
      /\ ResolveInitial(m).state = IF ZeroWrong(m) THEN "revealed" ELSE "revision_open"
      /\ ResolveInitial(m).initial = m.initial
      /\ ResolveInitial(m).revision = m.revision
  <2>. DEFINE next == IF ZeroWrong(m) THEN "revealed" ELSE "revision_open"
  <2>1. next \in States
    OBVIOUS
  <2>2. ResolveInitial(m) = [m EXCEPT !.state = next, !.version = m.version + 1]
    BY DEF ResolveInitial
  <2>. HIDE DEF next
  <2>3. /\ ResolveInitial(m) \in Quizzes /\ ResolveInitial(m).state = next
        /\ ResolveInitial(m).initial = m.initial
        /\ ResolveInitial(m).revision = m.revision
    BY <2>1, <2>2 DEF Quizzes
  <2>. QED
    BY <2>3 DEF next
<1>3. /\ SubmitRevision(m, sub) \in Quizzes
      /\ SubmitRevision(m, sub).state = "revealed"
      /\ SubmitRevision(m, sub).initial = m.initial
      /\ SubmitRevision(m, sub).revision = sub
  BY DEF SubmitRevision, Quizzes
<1>. QED
  BY <1>1, <1>2, <1>3

\* What the service does.
LEMMA ServiceStep ==
    ASSUME TrialInv, Serve \/ StorageBusy
    PROVE  TrialInv'
<1>. /\ quiz \in Quizzes /\ net \subseteq Calls /\ serving \in Calls \cup {NoCall}
     /\ Sound(quiz) /\ ServesStored
  BY DEF TrialInv, Shape
<1>1. ASSUME NEW c \in net, PrepareBatch(c) \/ GetQuizSnapshot(c)
      PROVE  TrialInv'
  <2>1. /\ UNCHANGED <<trial, awaiting, quiz>> /\ serving' = NoCall
        /\ c.kind \notin {"initial", "revision"}
        /\ \E ok \in BOOLEAN : Reply(c, ok, quiz')
    BY <1>1 DEF PrepareBatch, GetQuizSnapshot, Takes, client,
       service, NothingInProgress
  <2>2. PICK ok \in BOOLEAN : Reply(c, ok, quiz')
    BY <2>1
  <2>3. Moves /\ HasTaken(quiz', c)
    BY <2>1 DEF Moves, HasTaken
  <2>. QED
    BY <2>1, <2>2, <2>3, Replied
<1>2. ASSUME NEW c \in net, LockFirstPass(c)
      PROVE  TrialInv'
  <2>1. /\ UNCHANGED <<trial, awaiting>> /\ serving = NoCall /\ c.kind = "initial"
    BY <1>2 DEF LockFirstPass, Takes, client
  <2>2. CASE ~LockAccepts(quiz)
    <3>1. Reply(c, FALSE, quiz') /\ quiz' = quiz /\ serving' = NoCall
      BY <1>2, <2>1, <2>2 DEF LockFirstPass
    <3>. QED
      BY <2>1, <3>1, Refused
  <2>3. CASE LockAccepts(quiz)
    <3>1. /\ quiz' = LockInitial(quiz, Submitted(c)) /\ serving' = c
          /\ net' = net \ {c} /\ replies' = replies
      BY <1>2, <2>3 DEF LockFirstPass
    <3>2. c \in Calls /\ Submitted(c) \in Submissions
      BY <2>1 DEF Submitted, Submissions, Calls
    <3>3. /\ quiz' \in Quizzes /\ Sound(quiz') /\ Moves
          /\ quiz'.state = "initial_locked" /\ quiz'.initial = Submitted(c)
      BY <2>3, <3>1, <3>2, NextQuizzes DEF Sound, Moves
    <3>4. Shape' /\ ServesStored'
      BY <2>1, <3>1, <3>2, <3>3 DEF TrialInv, Shape, ServesStored
    <3>5. RecordedBy(trial', quiz') /\ RepliesHold'
      BY <2>1, <3>1, <3>3, QuizMoves DEF TrialInv, RepliesHold
    <3>6. Identified'
      BY <2>1, <3>1 DEF TrialInv, Identified, Awaits, Answers
    <3>. QED
      BY <3>3, <3>4, <3>5, <3>6 DEF TrialInv
  <2>. QED
    BY <2>2, <2>3
<1>3. CASE Score
  <2>1. /\ serving # NoCall /\ quiz' = ResolveInitial(quiz) /\ Reply(serving, TRUE, quiz')
        /\ serving' = NoCall /\ UNCHANGED <<trial, awaiting>>
    BY <1>3 DEF Score, client
  <2>2. /\ serving.kind = "initial" /\ quiz.state = "initial_locked"
        /\ quiz.initial = Submitted(serving)
    BY <2>1 DEF ServesStored
  <2>3. quiz.initial \in Submissions
    BY <2>2 DEF Sound
  <2>4. /\ quiz' \in Quizzes
        /\ quiz'.state = IF ZeroWrong(quiz) THEN "revealed" ELSE "revision_open"
        /\ quiz'.initial = quiz.initial /\ quiz'.revision = quiz.revision
    BY <2>1, <2>3, NextQuizzes
  <2>5. Sound(quiz') /\ Moves /\ Resolved(quiz')
    BY <2>2, <2>3, <2>4 DEF Sound, Moves, Resolved, ZeroWrong
  <2>6. HasTaken(quiz', serving) /\ serving \in net \cup ({serving} \ {NoCall})
    BY <2>1, <2>2, <2>4, <2>5 DEF HasTaken
  <2>. QED
    BY <2>1, <2>4, <2>5, <2>6, Granted
<1>4. ASSUME NEW c \in net, ReviseOnce(c)
      PROVE  TrialInv'
  <2>1. /\ UNCHANGED <<trial, awaiting>> /\ serving' = NoCall /\ c.kind = "revision"
        /\ c \in Calls
    BY <1>4 DEF ReviseOnce, Takes, client
  <2>2. CASE ~RevisionAccepts(quiz)
    <3>0. RevisionAccepts(quiz) = FALSE
      BY <2>2 DEF RevisionAccepts
    <3>1. Reply(c, FALSE, quiz') /\ quiz' = quiz
      BY <1>4, <3>0 DEF ReviseOnce
    <3>. QED
      BY <2>1, <3>1, Refused
  <2>3. CASE RevisionAccepts(quiz)
    <3>1. quiz' = SubmitRevision(quiz, Submitted(c)) /\ Reply(c, TRUE, quiz')
      BY <1>4, <2>3 DEF ReviseOnce
    <3>2. Submitted(c) \in Submissions
      BY <2>1 DEF Submitted, Submissions, Calls
    <3>3. /\ quiz' \in Quizzes /\ Sound(quiz') /\ Moves /\ Revealed(quiz')
          /\ quiz'.revision = Submitted(c)
      BY <2>3, <3>1, <3>2, NextQuizzes DEF RevisionAccepts, Sound, Moves,
         Revealed
    <3>4. HasTaken(quiz', c)
      BY <2>1, <3>3 DEF HasTaken
    <3>. QED
      BY <2>1, <3>1, <3>3, <3>4, Granted
  <2>. QED
    BY <2>2, <2>3
<1>5. CASE StorageBusy
  <2>1. /\ serving # NoCall /\ quiz' = quiz /\ Reply(serving, FALSE, quiz')
        /\ serving' = NoCall /\ UNCHANGED <<trial, awaiting>>
    BY <1>5 DEF StorageBusy, client
  <2>. QED
    BY <2>1, Refused
<1>. QED
  BY <1>1, <1>2, <1>3, <1>4, <1>5 DEF Serve

\* What the controller makes of the quiz in an answer.
LEMMA FailureKeeps ==
    ASSUME TrialInv, awaiting # NoCall
    PROVE  /\ SetFailure(Back) \in Trials /\ RecordedBy(SetFailure(Back), quiz)
           /\ [trial EXCEPT !.state = Back] \in Trials
           /\ RecordedBy([trial EXCEPT !.state = Back], quiz)
<1>1. trial \in Trials /\ RecordedBy(trial, quiz) /\ awaiting \in Calls
  BY DEF TrialInv, Shape
<1>2. Back \in TrialStates
  BY <1>1 DEF Back, Calls, Trials, TrialStates
<1>. QED
  BY <1>1, <1>2 DEF SetFailure, Trials, RecordedBy

LEMMA ResultShape ==
    ASSUME NEW m \in Quizzes, m.initial \in Submissions
    PROVE  /\ Result(m) \in [first : Sheets \cup {NoSheet}, final : Sheets \cup {NoSheet}]
           /\ FinalSheet(m) \in Sheets
           /\ WrongCount(m) \in Counts
  BY DEF Result, FinalSheet, Counts, Quizzes, Submissions

LEMMA RecoveredHolds ==
    ASSUME NEW m \in Quizzes, Sound(m)
    PROVE  Recovered(m) \in Trials /\ RecordedBy(Recovered(m), m)
<1>. DEFINE sheet == IF m.initial = NoSubmission THEN NoSheet ELSE FinalSheet(m)
            wrong == IF Resolved(m) THEN WrongCount(m) ELSE -1
            final == IF Revealed(m) THEN Result(m) ELSE NoResult
            state == CASE m.state = "ready"          -> "Answering"
                       [] m.state = "initial_locked" -> "SubmittingInitial"
                       [] m.state = "revision_open"  -> "Reviewing"
                       [] m.state = "revealed"       -> "Revealed"
                       [] m.state = "closed"         -> "Complete"
            count == m.state = "revision_open"
<1>1. /\ m.initial \in Submissions \cup {NoSubmission}
      /\ m.revision \in Submissions \cup {NoSubmission}
      /\ m.state \in States
      /\ Resolved(m) => m.initial \in Submissions
      /\ Revealed(m) => Resolved(m)
  BY DEF Quizzes, Sound, Resolved, Revealed
<1>2. sheet \in Sheets \cup {NoSheet}
  BY <1>1, ResultShape
<1>3. wrong \in {-1} \cup Counts
  BY <1>1, ResultShape
<1>4. final \in [first : Sheets \cup {NoSheet}, final : Sheets \cup {NoSheet}]
  BY <1>1, ResultShape DEF NoResult
<1>5. state \in TrialStates
  BY <1>1 DEF States, TrialStates
<1>6. count \in BOOLEAN
  BY DEF count
<1>7. wrong >= 0 => Resolved(m) /\ wrong = WrongCount(m)
  OBVIOUS
<1>8. final # NoResult => Revealed(m) /\ final = Result(m)
  OBVIOUS
<1>9. Recovered(m) = [Opened EXCEPT !.initial = m.initial, !.revision = m.revision,
                                    !.sheet = sheet, !.wrong = wrong, !.final = final,
                                    !.count = count, !.state = state]
  BY DEF Recovered
<1>. HIDE DEF sheet, wrong, final, state, count
<1>10. Opened \in Trials
  BY BlankTrial
<1>11. Recovered(m) \in Trials
  BY <1>1, <1>2, <1>3, <1>4, <1>5, <1>6, <1>9, <1>10 DEF Trials
<1>12. /\ Recovered(m).initial = m.initial /\ Recovered(m).revision = m.revision
       /\ Recovered(m).wrong = wrong /\ Recovered(m).final = final
  BY <1>9, <1>10 DEF Trials
<1>. QED
  BY <1>7, <1>8, <1>11, <1>12 DEF RecordedBy

LEMMA InitialResultHolds ==
    ASSUME TrialInv, awaiting \in Calls, awaiting.kind = "initial", NEW m \in Quizzes,
           Sound(m), Holds(m), HasTaken(m, awaiting)
    PROVE  InitialResult(m) \in Trials /\ RecordedBy(InitialResult(m), quiz)
<1>. DEFINE final == IF ZeroWrong(m) THEN Result(m) ELSE trial.final
            state == IF ZeroWrong(m) THEN "Revealed" ELSE "Reviewing"
<1>1. /\ trial \in Trials /\ RecordedBy(trial, quiz)
      /\ Resolved(m) /\ m.initial = Submitted(awaiting)
      /\ Submitted(awaiting) \in Submissions
  BY DEF TrialInv, Shape, HasTaken, Submitted, Submissions, Calls
<1>2. /\ quiz.initial = m.initial /\ Resolved(quiz) /\ WrongCount(m) = WrongCount(quiz)
      /\ ZeroWrong(m) => Revealed(quiz) /\ Result(m) = Result(quiz)
  BY <1>1 DEF Holds, Resolved, Revealed, WrongCount, Result,
     FinalSheet, Sound
<1>3. final \in [first : Sheets \cup {NoSheet}, final : Sheets \cup {NoSheet}]
  BY <1>1, ResultShape DEF Trials
<1>4. state \in TrialStates /\ WrongCount(m) \in Counts
  BY <1>1, ResultShape DEF TrialStates
<1>5. final # NoResult => Revealed(quiz) /\ final = Result(quiz)
  BY <1>1, <1>2 DEF RecordedBy
<1>6. InitialResult(m) = [trial EXCEPT !.initial = Submitted(awaiting),
                                       !.wrong = WrongCount(m), !.count = TRUE,
                                       !.final = final, !.state = state]
  BY <1>1 DEF InitialResult, Trials
<1>. DEFINE wrong == WrongCount(m)
            result == InitialResult(m)
<1>. HIDE DEF final, state, wrong, result
<1>7. result = [trial EXCEPT !.initial = Submitted(awaiting), !.wrong = wrong,
                             !.count = TRUE, !.final = final, !.state = state]
  BY <1>6 DEF result, wrong
<1>8. wrong \in Counts /\ wrong = WrongCount(m)
  BY <1>4 DEF wrong
<1>9. /\ result.initial = Submitted(awaiting) /\ result.revision = trial.revision
      /\ result.wrong = wrong /\ result.final = final
  BY <1>1, <1>7 DEF Trials
<1>10. result \in Trials
  BY <1>1, <1>3, <1>4, <1>7, <1>8 DEF Trials
<1>11. RecordedBy(result, quiz)
  BY <1>1, <1>2, <1>5, <1>8, <1>9 DEF RecordedBy
<1>. QED
  BY <1>10, <1>11 DEF result

LEMMA FinalResultHolds ==
    ASSUME TrialInv, awaiting \in Calls, awaiting.kind = "revision", NEW m \in Quizzes,
           Sound(m), Holds(m), HasTaken(m, awaiting)
    PROVE  FinalResult(m) \in Trials /\ RecordedBy(FinalResult(m), quiz)
<1>1. /\ trial \in Trials /\ RecordedBy(trial, quiz)
      /\ Revealed(m) /\ m.revision = Submitted(awaiting)
      /\ Submitted(awaiting) \in Submissions
      /\ m.initial \in Submissions
  BY DEF TrialInv, Shape, HasTaken, Submitted, Submissions, Calls,
     Sound, Revealed
<1>2. /\ quiz.initial = m.initial /\ quiz.revision = m.revision /\ Revealed(quiz)
      /\ Result(m) = Result(quiz)
  BY <1>1 DEF Holds, Revealed, Result, FinalSheet
<1>3. Result(m) \in [first : Sheets \cup {NoSheet}, final : Sheets \cup {NoSheet}]
  BY <1>1, ResultShape
<1>4. /\ FinalResult(m) \in Trials
      /\ FinalResult(m).initial = trial.initial
      /\ FinalResult(m).revision = Submitted(awaiting)
      /\ FinalResult(m).wrong = trial.wrong
      /\ FinalResult(m).final = Result(m)
  BY <1>1, <1>3 DEF FinalResult, Trials, TrialStates
<1>. QED
  BY <1>1, <1>2, <1>4 DEF RecordedBy

LEMMA AnsweredStep ==
    ASSUME TrialInv, NEW r \in replies, Answered(r)
    PROVE  TrialInv'
<1>. /\ awaiting \in Calls /\ awaiting # NoCall /\ r.quiz \in Quizzes
     /\ Sound(r.quiz) /\ Holds(r.quiz)
     /\ r.ok => HasTaken(r.quiz, awaiting)
  BY DEF TrialInv, Shape, Answered, Awaits, RepliesHold, Identified, Answers
<1>1. /\ awaiting' = NoCall /\ UNCHANGED service /\ net' \subseteq net
      /\ replies' \subseteq replies
      /\ \/ trial' = SetFailure(Back)
         \/ r.ok /\ trial' = Accepted(r.quiz)
  BY DEF Answered, Failed, Continue, Becomes
<1>2. trial' \in Trials /\ RecordedBy(trial', quiz)
  <2>1. CASE trial' = SetFailure(Back)
    BY <2>1, FailureKeeps
  <2>2. CASE r.ok /\ trial' = Accepted(r.quiz)
    <3>1. CASE awaiting.kind = "prepare"
      BY <2>2, <3>1, BlankTrial DEF Accepted
    <3>2. CASE awaiting.kind = "snapshot"
      <4>1. trial' = Recovered(r.quiz)
        BY <2>2, <3>2 DEF Accepted
      <4>. QED
        BY <4>1, RecoveredHolds, Outdated
    <3>3. CASE awaiting.kind = "initial"
      <4>1. trial' = InitialResult(r.quiz)
        BY <2>2, <3>3 DEF Accepted
      <4>. QED
        BY <2>2, <3>3, <4>1, InitialResultHolds
    <3>4. CASE awaiting.kind = "revision"
      <4>1. trial' = FinalResult(r.quiz)
        BY <2>2, <3>4 DEF Accepted
      <4>. QED
        BY <2>2, <3>4, <4>1, FinalResultHolds
    <3>. QED
      BY <3>1, <3>2, <3>3, <3>4 DEF Calls
  <2>. QED
    BY <1>1, <2>1, <2>2
<1>. QED
  BY <1>1, <1>2, Forgets

\* Answers, and the calls that get none.
LEMMA ControllerStep ==
    ASSUME TrialInv,
           \/ Receive \/ (\E c \in net \cup {NoCall} : Disconnect(c))
           \/ TimeOut \/ Die
    PROVE  TrialInv'
<1>1. ASSUME NEW r \in replies, Answered(r) \/ Ignored(r)
      PROVE  TrialInv'
  <2>1. CASE Ignored(r)
    BY <2>1, Loses DEF Ignored, client, service
  <2>. QED
    BY <1>1, <2>1, AnsweredStep
<1>2. ASSUME awaiting # NoCall, Failed, net' \subseteq net, replies' \subseteq replies
      PROVE  TrialInv'
  <2>1. /\ trial' = SetFailure(Back) /\ awaiting' = NoCall /\ UNCHANGED service
    BY <1>2 DEF Failed, Continue, Becomes
  <2>. QED
    BY <1>2, <2>1, FailureKeeps, Forgets
<1>3. CASE NoAnswer
  BY <1>2, <1>3 DEF NoAnswer, wire
<1>4. ASSUME NEW c, Disconnect(c)
      PROVE  TrialInv'
  BY <1>2, <1>4 DEF Disconnect
<1>5. CASE TimeOut
  <2>1. /\ awaiting # NoCall /\ awaiting' = NoCall /\ UNCHANGED <<wire, service>>
        /\ trial' = trial \/ trial' = [trial EXCEPT !.state = Back]
    BY <1>5 DEF TimeOut, Becomes
  <2>2. trial' \in Trials /\ RecordedBy(trial', quiz)
    BY <2>1, FailureKeeps DEF TrialInv, Shape
  <2>. QED
    BY <2>1, <2>2, Forgets DEF wire
<1>6. CASE Die
  BY <1>6, Loses DEF Die, client
<1>. QED
  BY <1>1, <1>3, <1>4, <1>5, <1>6 DEF Receive

LEMMA Stutters ==
    ASSUME TrialInv, UNCHANGED vars
    PROVE  TrialInv'
  BY Loses DEF vars, client, wire, service

LEMMA TrialBegins ==
    ASSUME Requests # {}, Init
    PROVE  TrialInv
<1>1. awaiting \in Calls /\ net = {awaiting}
  BY DEF Init, Calls
<1>2. quiz \in Quizzes /\ quiz.initial = NoSubmission /\ quiz.state = "ready"
  <2>1. quiz = ReadyMachine
    BY DEF Init
  <2>. QED
    BY <2>1 DEF ReadyMachine, Quizzes, States
<1>3. Shape
  BY <1>1, <1>2, BlankTrial DEF Init, Shape
<1>4. Sound(quiz) /\ ServesStored /\ RepliesHold
  BY <1>2 DEF Init, Sound, ServesStored, RepliesHold
<1>5. Identified
  BY <1>1 DEF Init, Identified
<1>. QED
  BY <1>3, <1>4, <1>5, BlankTrial DEF TrialInv, Init

LEMMA TrialSteps == TrialInv /\ [Next]_vars => TrialInv'
  BY LearnerStep, ServiceStep, ControllerStep, Stutters DEF Next

\* Whatever is lost, late or overtaken between QuizController and the service,
\* the submissions, the count and the truth the controller holds are those of
\* the stored quiz.
THEOREM ShownStays == Spec => []ShownIsRecorded
<1>1. Init => TrialInv
  BY TrialBegins, ClientBounds
<1>2. TrialInv /\ [Next]_vars => TrialInv'
  BY TrialSteps
<1>3. TrialInv => ShownIsRecorded
  BY DEF TrialInv, RecordedBy, ShownIsRecorded
<1>. QED
  BY <1>1, <1>2, <1>3, PTL DEF Spec

-----------------------------------------------------------------------------
(* What the learner meets is the two-pass quiz.                             *)

\* A revision is stored with the reveal and not before.
Unrevised == ~Revealed(quiz) => quiz.revision = NoSubmission

\* What the two-pass quiz says of the stored quiz.
Phase == CASE quiz.state = "ready" -> "open"
           [] quiz.state = "initial_locked" -> "locked"
           [] quiz.state = "revision_open" -> "revising"
           [] OTHER -> quiz.state

FirstSheet == IF quiz.initial = NoSubmission THEN NoSubmission ELSE quiz.initial.sheet

ScoredSheet == IF Revealed(quiz) THEN FinalSheet(quiz) ELSE NoSubmission

\* Steps of the learner, of the wire and of a service that dies or is busy.
Elsewhere == Press \/ (\E s \in Sheets : Choose(s)) \/ ReturnToMap \/ Receive
                \/ (\E c \in net \cup {NoCall} : Disconnect(c)) \/ TimeOut \/ Die
                \/ StorageBusy

\* They leave the stored quiz alone, and tell what the controller holds.
LEMMA ToldElsewhere ==
    ASSUME Elsewhere
    PROVE  /\ quiz' = quiz
           /\ told' = told \/ told' = told \cup Disclosed(trial')
<1>1. CASE Press \/ (\E s \in Sheets : Choose(s)) \/ ReturnToMap
  <2>1. UNCHANGED service
    BY <1>1 DEF Press, Choose, ReturnToMap, AcknowledgeWrongCount, AdvanceFinalFeedback,
       SubmitInitialAsync, SubmitRevisionAsync, SubmitPass, RecoverAsync,
       RetryPreparation, Send
  <2>2. \E t, p, q : Becomes(t, p, q)
    BY <1>1 DEF Press, Choose, ReturnToMap, AcknowledgeWrongCount, AdvanceFinalFeedback,
       SubmitInitialAsync, SubmitRevisionAsync, SubmitPass, RecoverAsync,
       RetryPreparation
  <2>. QED
    BY <2>1, <2>2 DEF Becomes, service
<1>2. ASSUME Failed
      PROVE  quiz' = quiz /\ told' = told \cup Disclosed(trial')
  BY <1>2 DEF Failed, Continue, Becomes, service
<1>3. CASE Receive
  <2>1. ASSUME NEW r \in replies, Answered(r)
        PROVE  quiz' = quiz /\ told' = told \cup Disclosed(trial')
    BY <1>2, <2>1 DEF Answered, Continue, Becomes, service
  <2>. QED
    BY <1>2, <1>3, <2>1 DEF Receive, Ignored, NoAnswer, service, history
<1>4. CASE (\E c \in net \cup {NoCall} : Disconnect(c)) \/ TimeOut \/ Die \/ StorageBusy
  BY <1>2, <1>4 DEF Disconnect, TimeOut, Becomes, Die, StorageBusy, service
<1>. QED
  BY <1>1, <1>3, <1>4 DEF Elsewhere

\* A controller that holds what the quiz says tells no more than it may.
LEMMA TellingRefines ==
    ASSUME RecordedBy(trial', quiz'), quiz' = quiz, told' = told \cup Disclosed(trial')
    PROVE  TwoPass!TellCount \/ TwoPass!TellTruth \/ UNCHANGED told
<1>1. /\ "count" \in Disclosed(trial') => Resolved(quiz)
      /\ "truth" \in Disclosed(trial') => Revealed(quiz)
      /\ Disclosed(trial') \subseteq {"count", "truth"}
  BY DEF RecordedBy, Disclosed
<1>2. UNCHANGED <<Phase, FirstSheet, ScoredSheet>>
  BY DEF Phase, FirstSheet, ScoredSheet
<1>3. CASE "truth" \in Disclosed(trial')
  <2>1. Phase \in {"revealed", "closed"}
    BY <1>1, <1>3 DEF Phase, Revealed
  <2>2. \E also \in SUBSET {"count"} : told' = told \cup {"truth"} \cup also
    <3>1. told' = told \cup {"truth"} \cup (Disclosed(trial') \cap {"count"})
      BY <1>1, <1>3
    <3>. QED
      BY <3>1
  <2>. QED
    BY <1>2, <2>1, <2>2 DEF TwoPass!TellTruth, Phase, FirstSheet, ScoredSheet
<1>4. CASE Disclosed(trial') = {"count"}
  <2>1. Phase \in {"revising", "revealed", "closed"}
    BY <1>1, <1>4 DEF Phase, Resolved
  <2>. QED
    BY <1>2, <1>4, <2>1 DEF TwoPass!TellCount, Phase, FirstSheet, ScoredSheet
<1>5. CASE Disclosed(trial') = {}
  BY <1>5
<1>. QED
  BY <1>1, <1>3, <1>4, <1>5

\* The three moves of the stored quiz are those of the two-pass quiz.
LEMMA ServingRefines ==
    ASSUME TrialInv, Unrevised, Serve
    PROVE  /\ Unrevised'
           /\ TwoPass!Next \/ UNCHANGED <<quiz, told>>
<1>. quiz \in Quizzes /\ net \subseteq Calls /\ Sound(quiz) /\ ServesStored
  BY DEF TrialInv, Shape
<1>0. told' = told
  BY DEF Serve, PrepareBatch, GetQuizSnapshot, LockFirstPass, Score, ReviseOnce, history
<1>1. CASE quiz' = quiz
  BY <1>0, <1>1 DEF Unrevised, Revealed
<1>2. ASSUME NEW c \in net, LockFirstPass(c), LockAccepts(quiz)
      PROVE  Unrevised' /\ TwoPass!Next
  <2>1. quiz' = LockInitial(quiz, Submitted(c)) /\ c.kind = "initial" /\ c \in Calls
    BY <1>2 DEF LockFirstPass, Takes
  <2>2. Submitted(c) \in Submissions /\ Submitted(c).sheet \in Sheets
    BY <2>1 DEF Submitted, Submissions, Calls
  <2>3. /\ quiz'.state = "initial_locked" /\ quiz'.initial = Submitted(c)
        /\ quiz'.revision = quiz.revision
    BY <2>1, <2>2, NextQuizzes
  <2>4. quiz.state = "ready" /\ quiz.initial = NoSubmission
    BY <1>2 DEF LockAccepts
  <2>5. /\ Phase = "open" /\ Phase' = "locked"
        /\ FirstSheet' \in Sheets
        /\ ScoredSheet = NoSubmission /\ ScoredSheet' = NoSubmission
    BY <2>2, <2>3, <2>4, NoSubmissionAssumption
       DEF Phase, FirstSheet, ScoredSheet, Revealed
  <2>6. TwoPass!Lock
    BY <1>0, <2>5 DEF TwoPass!Lock, Phase, FirstSheet, ScoredSheet
  <2>. QED
    BY <2>3, <2>4, <2>6 DEF Unrevised, Revealed, TwoPass!Next
<1>3. CASE Score
  <2>1. /\ serving # NoCall /\ quiz' = ResolveInitial(quiz)
        /\ quiz.state = "initial_locked" /\ quiz.initial \in Submissions
    BY <1>3 DEF Score, ServesStored, Sound
  <2>2. /\ quiz'.state = IF ZeroWrong(quiz) THEN "revealed" ELSE "revision_open"
        /\ quiz'.initial = quiz.initial /\ quiz'.revision = quiz.revision
    BY <2>1, NextQuizzes
  <2>3. quiz.revision = NoSubmission
    BY <2>1 DEF Unrevised, Revealed
  <2>4. /\ Phase = "locked" /\ FirstSheet' = FirstSheet /\ FirstSheet = quiz.initial.sheet
        /\ ScoredSheet = NoSubmission
        /\ IF FirstSheet = Items
           THEN Phase' = "revealed" /\ ScoredSheet' = FirstSheet
           ELSE Phase' = "revising" /\ ScoredSheet' = NoSubmission
    BY <2>1, <2>2, <2>3, NoSubmissionAssumption
       DEF Phase, FirstSheet, ScoredSheet, Revealed, FinalSheet, ZeroWrong
  <2>5. TwoPass!Score
    BY <1>0, <2>4 DEF TwoPass!Score, Phase, FirstSheet, ScoredSheet
  <2>. QED
    BY <2>2, <2>3, <2>5 DEF Unrevised, TwoPass!Next
<1>4. ASSUME NEW c \in net, ReviseOnce(c), RevisionAccepts(quiz)
      PROVE  Unrevised' /\ TwoPass!Next
  <2>1. quiz' = SubmitRevision(quiz, Submitted(c)) /\ c.kind = "revision" /\ c \in Calls
    BY <1>4 DEF ReviseOnce, Takes
  <2>2. Submitted(c) \in Submissions /\ Submitted(c).sheet \in Sheets
    BY <2>1 DEF Submitted, Submissions, Calls
  <2>3. /\ quiz'.state = "revealed" /\ quiz'.initial = quiz.initial
        /\ quiz'.revision = Submitted(c)
    BY <2>1, <2>2, NextQuizzes
  <2>4. quiz.state = "revision_open"
    BY <1>4 DEF RevisionAccepts
  <2>5. /\ Phase = "revising" /\ Phase' = "revealed"
        /\ FirstSheet' = FirstSheet
        /\ ScoredSheet' \in Sheets
    BY <2>2, <2>3, <2>4, NoSubmissionAssumption
       DEF Phase, FirstSheet, ScoredSheet, Revealed, FinalSheet
  <2>6. TwoPass!Revise
    BY <1>0, <2>5 DEF TwoPass!Revise, Phase, FirstSheet, ScoredSheet
  <2>. QED
    BY <2>3, <2>6 DEF Unrevised, Revealed, TwoPass!Next
<1>5. ASSUME NEW c \in net, ReviseOnce(c), ~RevisionAccepts(quiz)
      PROVE  quiz' = quiz
  BY <1>5 DEF ReviseOnce
<1>. QED
  BY <1>1, <1>2, <1>3, <1>4, <1>5 DEF Serve, PrepareBatch, GetQuizSnapshot, LockFirstPass,
     service

\* Every step of the trial is one of the two-pass quiz, or is none of its
\* concern.
LEMMA TrialRefines ==
    ASSUME TrialInv, Unrevised, [Next]_vars
    PROVE  /\ Unrevised'
           /\ [TwoPass!Next]_(TwoPass!vars)
<1>1. RecordedBy(trial', quiz')
  BY TrialSteps DEF TrialInv
<1>2. ASSUME UNCHANGED <<quiz, told>>
      PROVE  Unrevised' /\ UNCHANGED TwoPass!vars
  BY <1>2 DEF Unrevised, Revealed, FinalSheet, TwoPass!vars
<1>3. CASE Elsewhere
  <2>1. quiz' = quiz /\ (told' = told \/ told' = told \cup Disclosed(trial'))
    BY <1>3, ToldElsewhere
  <2>. QED
    BY <1>1, <1>2, <2>1, TellingRefines DEF TwoPass!Next, Unrevised, Revealed
<1>4. CASE Serve
  BY <1>2, <1>4, ServingRefines
<1>5. CASE UNCHANGED vars
  BY <1>2, <1>5 DEF vars, service, history
<1>. QED
  BY <1>3, <1>4, <1>5 DEF Next, Elsewhere

\* The game between learner and service keeps the promise the service makes:
\* with calls lost, late and repeated, deaths, timeouts and a recovery from a
\* snapshot, the learner is told a count only after the first pass was scored
\* and the truth only after the reveal, and the quiz told of is revised once.
THEOREM TrialIsTwoPass == Spec => ImplementsTwoPass
<1>1. Init => TrialInv /\ Unrevised /\ TwoPass!Init
  <2>1. Init => TrialInv
    BY TrialBegins, ClientBounds
  <2>2. Init => quiz = ReadyMachine /\ told = {}
    BY DEF Init
  <2>3. quiz = ReadyMachine /\ told = {} => Unrevised /\ TwoPass!Init
    BY DEF ReadyMachine, Unrevised, Revealed, TwoPass!Init
  <2>. QED
    BY <2>1, <2>2, <2>3
<1>2. /\ TrialInv /\ [Next]_vars => TrialInv'
      /\ TrialInv /\ Unrevised /\ [Next]_vars
             => Unrevised' /\ [TwoPass!Next]_(TwoPass!vars)
  BY TrialSteps, TrialRefines
<1>. QED
  BY <1>1, <1>2, PTL DEF Spec, ImplementsTwoPass, TwoPass!Spec
=============================================================================
