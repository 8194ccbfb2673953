----------------------- MODULE QuizSubmissionsProofs -----------------------
(* Theorems of QuizSubmissions and QuizContract, for any number of          *)
(* processes, items, requests, sessions, competing events and crashes.      *)
EXTENDS QuizContract, FiniteSetTheorems, FunctionTheorems, WellFoundedInduction, TLAPS

-----------------------------------------------------------------------------
(* Facts about the operators of the model.                                  *)

\* A nonempty set of naturals has a least element.
LEMMA LeastNatural ==
    ASSUME NEW S \in SUBSET Nat, S # {}
    PROVE  \E m \in S : \A n \in S : m <= n
<1>1. PICK m \in S : \A n \in S : ~(<<n, m>> \in OpToRel(<, Nat))
      BY NatLessThanWellFounded, WFMin
<1>2. \A n \in S : ~(n < m)
      BY <1>1 DEF OpToRel
<1>3. QED BY <1>2

\* A bounded, nonempty set of naturals has its Max as an element.
LEMMA MaxIsElement ==
    ASSUME NEW S \in SUBSET Nat, S # {}, NEW b \in Nat, \A s \in S : s <= b
    PROVE  Max(S) \in S /\ \A s \in S : s <= Max(S)
<1> DEFINE B == {m \in Nat : \A s \in S : s <= m}
<1>1. PICK m \in B : \A n \in B : m <= n
      BY LeastNatural
<1>2. m \in S
  <2> SUFFICES ASSUME m \notin S PROVE FALSE
      OBVIOUS
  <2>1. PICK s \in S : TRUE
      OBVIOUS
  <2>2. \A t \in S : t <= m - 1 /\ t \in Nat
      OBVIOUS
  <2>3. m - 1 \in Nat
      BY <2>1, <2>2
  <2>4. m - 1 \in B
      BY <2>2, <2>3
  <2>5. QED BY <1>1, <2>4
<1>3. QED BY <1>2 DEF Max

\* The earliest row of a nonempty set of rows exists.
LEMMA EarliestIsElement ==
    ASSUME NEW R \in SUBSET Observations, R # {}
    PROVE  Earliest(R) \in R /\ \A q \in R : Earliest(R).ordinal <= q.ordinal
<1> DEFINE T == {r.ordinal : r \in R}
<1>1. T \in SUBSET Nat /\ T # {}
      BY DEF Observations
<1>2. PICK m \in T : \A n \in T : m <= n
  <2> HIDE DEF T
  <2> QED BY <1>1, LeastNatural
<1>3. PICK r \in R : \A q \in R : r.ordinal <= q.ordinal
      BY <1>2
<1>4. QED BY <1>3 DEF Earliest

\* A locked first pass has between no and all of its items wrong.
LEMMA WrongCountType ==
    ASSUME NEW m \in Machines, m.initial # NoSubmission
    PROVE  WrongCount(m) \in 0..NumItems
<1>1. IsFiniteSet(Items) /\ Cardinality(Items) = NumItems
      BY FS_Interval, NumItemsAssumption DEF Items
<1>2. Items \ m.initial.sheet \in SUBSET Items
      OBVIOUS
<1>3. /\ IsFiniteSet(Items \ m.initial.sheet)
      /\ Cardinality(Items \ m.initial.sheet) <= NumItems
      BY <1>1, <1>2, FS_Subset
<1>4. QED BY <1>3, FS_CardinalityType, NumItemsAssumption DEF WrongCount

\* NextOrdinal is an ordinal when the reserved ones are bounded.
LEMMA NextOrdinalType ==
    ASSUME outbox \subseteq Observations, log \in Seq(Events),
           NEW b \in Nat, \A r \in outbox : r.ordinal <= b
    PROVE  NextOrdinal \in Nat \ {0}
<1> DEFINE S == {Len(log)} \cup {r.ordinal : r \in outbox}
<1>1. S \in SUBSET Nat /\ S # {}
      BY DEF Observations
<1>2. \A s \in S : s <= Len(log) + b
      BY DEF Observations
<1>3. Len(log) + b \in Nat
      OBVIOUS
<1>4. Max(S) \in Nat
  <2> HIDE DEF S
  <2> QED BY <1>1, <1>2, <1>3, MaxIsElement
<1>5. QED BY <1>4 DEF NextOrdinal

-----------------------------------------------------------------------------
(* The snapshot functions map coherent snapshots to coherent ones.          *)

\* A quiz command carries a submission, never its absence.
LEMMA SubmissionType ==
    ASSUME NEW c \in QuizCommands
    PROVE  Submission(c) \in Submissions /\ Submission(c) # NoSubmission
BY NoSubmissionAssumption DEF QuizCommands, Submission, Submissions

\* Locking accepts only the untouched batch and yields a coherent locked one.
LEMMA LockInitialOK ==
    ASSUME NEW m \in Machines, Coherent(m), LockAccepts(m),
           NEW sub \in Submissions
    PROVE  /\ m = ReadyMachine
           /\ LockInitial(m, sub) \in Machines
           /\ Coherent(LockInitial(m, sub))
           /\ LockInitial(m, sub).state = "initial_locked"
           /\ LockInitial(m, sub).initial = sub
<1> DEFINE r == LockInitial(m, sub)
<1>1. m = ReadyMachine /\ m.version = 1 /\ m.revision = NoSubmission
      BY DEF Coherent, LockAccepts, ReadyMachine
<1>2. "initial_locked" \in States /\ m.version + 1 \in 1..5
      BY <1>1 DEF States
<1>3. r = [m EXCEPT !.state = "initial_locked", !.version = m.version + 1,
                    !.initial = sub]
      BY DEF LockInitial
<1>4. /\ r \in Machines /\ r.state = "initial_locked"
      /\ r.version = m.version + 1 /\ r.initial = sub
      /\ r.revision = m.revision
  <2> HIDE DEF r
  <2> QED BY <1>2, <1>3 DEF Machines
<1>5. Coherent(r)
  <2> HIDE DEF r
  <2> QED BY <1>1, <1>4, NoSubmissionAssumption DEF Coherent, Revealed
<1>6. QED BY <1>1, <1>4, <1>5

\* Scoring a locked batch opens the revision or reveals it, coherently.
LEMMA ResolveInitialOK ==
    ASSUME NEW m \in Machines, Coherent(m), m.state = "initial_locked"
    PROVE  /\ ResolveInitial(m) \in Machines
           /\ Coherent(ResolveInitial(m))
           /\ ResolveInitial(m).state =
                  IF ZeroWrong(m) THEN "revealed" ELSE "revision_open"
           /\ ResolveInitial(m).version = m.version + 1
           /\ ResolveInitial(m).initial = m.initial
           /\ ResolveInitial(m).revision = NoSubmission
<1> DEFINE s == IF ZeroWrong(m) THEN "revealed" ELSE "revision_open"
           r == ResolveInitial(m)
<1>1. m.version = 2 /\ m.revision = NoSubmission /\ m.initial # NoSubmission
      BY DEF Coherent
<1>2. s \in States /\ m.version + 1 \in 1..5
      BY <1>1 DEF States
<1>3. r = [m EXCEPT !.state = s, !.version = m.version + 1]
      BY DEF ResolveInitial
<1>4. /\ r \in Machines /\ r.state = s /\ r.version = m.version + 1
      /\ r.initial = m.initial /\ r.revision = m.revision
  <2> HIDE DEF s, r
  <2> QED BY <1>2, <1>3 DEF Machines
<1>5. ZeroWrong(r) = ZeroWrong(m)
      BY <1>4 DEF ZeroWrong
<1>6. Coherent(r)
  <2> HIDE DEF r
  <2> QED BY <1>1, <1>4, <1>5 DEF Coherent, Revealed
<1>7. QED BY <1>1, <1>4, <1>6

\* The one revision turns an open batch into a coherent revealed one.
LEMMA SubmitRevisionOK ==
    ASSUME NEW m \in Machines, Coherent(m), RevisionAccepts(m),
           NEW sub \in Submissions
    PROVE  /\ SubmitRevision(m, sub) \in Machines
           /\ Coherent(SubmitRevision(m, sub))
           /\ SubmitRevision(m, sub).state = "revealed"
           /\ SubmitRevision(m, sub).version = m.version + 1
           /\ SubmitRevision(m, sub).initial = m.initial
           /\ SubmitRevision(m, sub).revision = sub
<1> DEFINE r == SubmitRevision(m, sub)
<1>1. /\ m.version = 3 /\ ~ZeroWrong(m) /\ m.initial # NoSubmission
      /\ m.version + 1 \in 1..5 /\ "revealed" \in States
      BY DEF Coherent, RevisionAccepts, States
<1>2. r = [m EXCEPT !.state = "revealed", !.version = m.version + 1,
                    !.revision = sub]
      BY DEF SubmitRevision
<1>3. /\ r \in Machines /\ r.state = "revealed" /\ r.version = m.version + 1
      /\ r.initial = m.initial /\ r.revision = sub
  <2> HIDE DEF r
  <2> QED BY <1>1, <1>2 DEF Machines
<1>4. ZeroWrong(r) = ZeroWrong(m)
      BY <1>3 DEF ZeroWrong
<1>5. Coherent(r)
  <2> HIDE DEF r
  <2> QED BY <1>1, <1>3, <1>4, NoSubmissionAssumption DEF Coherent, Revealed
<1>6. QED BY <1>3, <1>5

\* Closing a revealed batch keeps everything but its state and version.
LEMMA CloseQuizOK ==
    ASSUME NEW m \in Machines, Coherent(m), m.state = "revealed"
    PROVE  /\ CloseQuiz(m) \in Machines
           /\ Coherent(CloseQuiz(m))
           /\ CloseQuiz(m).state = "closed"
           /\ CloseQuiz(m).initial = m.initial
           /\ CloseQuiz(m).revision = m.revision
<1> DEFINE r == CloseQuiz(m)
<1>1. /\ m.version = 3 + (IF ZeroWrong(m) THEN 0 ELSE 1)
      /\ m.revision = NoSubmission <=> ZeroWrong(m)
      /\ m.initial # NoSubmission
      /\ m.version + 1 \in 1..5 /\ "closed" \in States
      BY DEF Coherent, Revealed, States
<1>2. r = [m EXCEPT !.state = "closed", !.version = m.version + 1]
      BY DEF CloseQuiz
<1>3. /\ r \in Machines /\ r.state = "closed" /\ r.version = m.version + 1
      /\ r.initial = m.initial /\ r.revision = m.revision
  <2> HIDE DEF r
  <2> QED BY <1>1, <1>2 DEF Machines
<1>4. ZeroWrong(r) = ZeroWrong(m)
      BY <1>3 DEF ZeroWrong
<1>5. Coherent(r)
  <2> HIDE DEF r
  <2> QED BY <1>1, <1>3, <1>4 DEF Coherent, Revealed
<1>6. QED BY <1>3, <1>5

-----------------------------------------------------------------------------
(* The inductive invariant.                                                 *)

\* The reserved ordinals, and every plan to reserve some, are bounded.
OrdinalsBounded ==
    /\ \E b \in Nat : \A r \in outbox : r.ordinal <= b
    /\ \A p \in Procs : \E b \in Nat : \A r \in rows[p] : r.ordinal <= b

IInv == /\ TypeOK
        /\ ReadsHold
        /\ PlansInsideTheirSession
        /\ OrdinalsBounded
        /\ EventsInsideTheirSession
        /\ OneAnswerDisclosed

\* The invariant holds initially.
LEMMA InitInv == Init => IInv
<1> SUFFICES ASSUME Init PROVE IInv
    OBVIOUS
<1> USE DEF Init
<1>1. ReadyMachine \in Machines /\ Coherent(ReadyMachine)
      BY DEF ReadyMachine, Machines, States, Coherent, Revealed
<1>2. TypeOK
  <2>1. session \in Sessions
        BY BoundsAssumption DEF Sessions
  <2>2. log \in Seq(Events)
        BY <2>1 DEF CampaignEvent, Events, CampaignEvents
  <2>3. failed \subseteq Procs /\ crashes \in 0..MaxCrashes
        BY BoundsAssumption
  <2>4. /\ pc \in [Procs -> Locations]
        /\ cmd \in [Procs -> Commands \cup {NoCommand}]
        /\ snap \in [Procs -> Machines]
        /\ pend \in [Procs -> SUBSET Observations]
        /\ rows \in [Procs -> SUBSET Observations]
        BY <1>1 DEF Locations
  <2>5. QED BY <1>1, <2>1, <2>2, <2>3, <2>4 DEF TypeOK
<1>3. ReadsHold
      BY <1>1 DEF ReadsHold, Reads, CommandFits
<1>4. PlansInsideTheirSession /\ OrdinalsBounded /\ OneAnswerDisclosed
      BY DEF PlansInsideTheirSession, OrdinalsBounded, OneAnswerDisclosed
<1>5. EventsInsideTheirSession
      BY DEF EventsInsideTheirSession, CampaignEvent
<1>6. QED BY <1>2, <1>3, <1>4, <1>5 DEF IInv

-----------------------------------------------------------------------------
(* Type correctness.                                                        *)

DbTypeOK == /\ quiz \in Machines
            /\ outbox \subseteq Observations
            /\ delivered \subseteq Items
            /\ log \in Seq(Events)
            /\ session \in Sessions

LocalTypeOK == /\ pc \in [Procs -> Locations]
               /\ cmd \in [Procs -> Commands \cup {NoCommand}]
               /\ snap \in [Procs -> Machines]
               /\ pend \in [Procs -> SUBSET Observations]
               /\ rows \in [Procs -> SUBSET Observations]
               /\ acked \subseteq Disclosures
               /\ failed \subseteq Procs

\* The unanswered batch is a coherent snapshot.
LEMMA ReadyMachineOK == ReadyMachine \in Machines /\ Coherent(ReadyMachine)
BY DEF ReadyMachine, Machines, States, Coherent, Revealed

\* Going on with a snapshot keeps the types of what processes hold.
LEMMA KeepType ==
    ASSUME LocalTypeOK, NEW p \in Procs, NEW m \in Machines,
           NEW l \in Locations, Keep(p, m, l)
    PROVE  LocalTypeOK'
BY DEF LocalTypeOK, Keep, Goto

\* Answering with a typed error keeps them.
LEMMA RefuseType ==
    ASSUME LocalTypeOK, NEW p \in Procs, Refuse(p)
    PROVE  LocalTypeOK'
BY ReadyMachineOK DEF LocalTypeOK, Refuse, Finish, Goto, Locations

\* Answering with integrity_failure keeps them.
LEMMA FailType ==
    ASSUME LocalTypeOK, NEW p \in Procs, Fail(p)
    PROVE  LocalTypeOK'
BY ReadyMachineOK DEF LocalTypeOK, Fail, Finish, Goto, Locations

\* The type invariant splits into the database, the processes and the bound.
LEMMA TypeSplit == TypeOK <=> DbTypeOK /\ LocalTypeOK /\ crashes \in 0..MaxCrashes
BY DEF TypeOK, DbTypeOK, LocalTypeOK

\* An observation planned at a stamp.
LEMMA ObservationType ==
    ASSUME DbTypeOK, NEW m \in Machines, NEW n \in Nat \ {0},
           NEW s \in Sessions, NEW i \in Items
    PROVE  Observation(i, m, n, s) \in Observations
BY NumItemsAssumption DEF Observation, Observations, DbTypeOK, Items

\* What is disclosed of a scored snapshot.
LEMMA DisclosureType ==
    ASSUME NEW m \in Machines, m.initial # NoSubmission,
           NEW part \in {"count", "truth"}
    PROVE  Disclosure(part, m) \in Disclosures
<1>1. m.initial.sheet \in Sheets /\ FinalSheet(m) \in Sheets
      BY DEF Machines, Submissions, FinalSheet
<1>2. CASE part = "count"
      BY <1>2, WrongCountType DEF Disclosure, Disclosures
<1>3. CASE part = "truth"
      BY <1>1, <1>3 DEF Disclosure, Disclosures
<1>4. QED BY <1>2, <1>3

\* A step of a process keeps the types.
LEMMA StepType ==
    ASSUME IInv, NEW p \in Procs, Step(p)
    PROVE  TypeOK'
<1> USE DEF IInv
<1>0. DbTypeOK /\ LocalTypeOK /\ crashes \in 0..MaxCrashes
      BY TypeSplit
<1>a. /\ snap[p] \in Machines /\ Coherent(snap[p]) /\ quiz \in Machines
      /\ Coherent(quiz)
      BY <1>0 DEF DbTypeOK, LocalTypeOK, ReadsHold, Reads
<1>b. pc[p] # "idle" => cmd[p] \in Commands /\ cmd[p].session \in Sessions
      BY DEF ReadsHold, Reads, CommandFits, Commands, QuizCommands, Completions
<1>c. cmd[p].kind \in {"initial", "revision"} /\ pc[p] # "idle" =>
          Submission(cmd[p]) \in Submissions
      BY <1>b, SubmissionType DEF Commands, Completions
<1>d. DbTypeOK' /\ LocalTypeOK' /\ UNCHANGED crashes => TypeOK'
      BY <1>0, TypeSplit DEF TypeOK, DbTypeOK, LocalTypeOK
<1>e. UNCHANGED db => DbTypeOK'
      BY <1>0 DEF db, DbTypeOK
<1>1. CASE Authenticate(p)
      BY <1>0, <1>1, <1>a, <1>d, <1>e, KeepType, RefuseType
         DEF Authenticate, Locations
<1>2. CASE PendingObservations(p)
  <2>1. Pending \subseteq Observations
        BY <1>0 DEF Pending, DbTypeOK
  <2>2. LocalTypeOK'
        BY <1>0, <1>2, <2>1 DEF PendingObservations, LocalTypeOK, Goto,
           AfterDrain, Locations
  <2>3. QED BY <1>2, <2>2, <1>d, <1>e DEF PendingObservations
<1>3. CASE AppendObservation(p)
  <2>1. pend[p] \in SUBSET Observations /\ pend[p] # {}
        BY <1>0, <1>3 DEF LocalTypeOK, ReadsHold, Reads, CommandFits, AppendObservation
  <2>2. Earliest(pend[p]) \in Events
        BY <2>1, EarliestIsElement DEF Events
  <2>3. LocalTypeOK'
        BY <1>0, <1>3, <1>a, KeepType, FailType DEF AppendObservation, Locations
  <2>4. log' \in Seq(Events)
        BY <1>0, <1>3, <2>2 DEF AppendObservation, DbTypeOK
  <2>5. QED BY <1>0, <1>3, <2>3, <2>4, <1>d DEF AppendObservation, DbTypeOK
<1>4. CASE MarkDelivered(p)
  <2>1. pend[p] \in SUBSET Observations /\ pend[p] # {}
        BY <1>0, <1>4 DEF LocalTypeOK, ReadsHold, Reads, CommandFits, MarkDelivered
  <2>2. Earliest(pend[p]).item \in Items
        BY <2>1, EarliestIsElement DEF Observations
  <2>3. CASE Earliest(pend[p]) \in outbox
    <3>1. LocalTypeOK'
          BY <1>0, <1>4, <2>3 DEF MarkDelivered, LocalTypeOK, Goto, AfterDrain,
             Locations
    <3>2. QED BY <1>0, <1>4, <2>2, <2>3, <3>1, <1>d DEF MarkDelivered, DbTypeOK
  <2>4. CASE Earliest(pend[p]) \notin outbox
    <3>1. LocalTypeOK'
          BY <1>0, <1>4, <2>4, FailType DEF MarkDelivered
    <3>2. QED BY <1>0, <1>4, <2>4, <3>1, <1>d DEF MarkDelivered, DbTypeOK
  <2>5. QED BY <2>3, <2>4
<1>5. CASE LoadForInitial(p)
  <2>1. LockAccepts(quiz) => LockInitial(quiz, Submission(cmd[p])) \in Machines
        BY <1>5, <1>a, <1>c, LockInitialOK DEF LoadForInitial
  <2>2. QED BY <1>0, <1>5, <2>1, <1>a, <1>d, <1>e, KeepType, RefuseType
            DEF LoadForInitial, FromLocked, Locations
<1>6. CASE SaveLock(p)
  <2>1. LocalTypeOK'
        BY <1>0, <1>6, <1>a, KeepType DEF SaveLock, Locations
  <2>2. quiz' \in Machines
        BY <1>6, <1>a DEF SaveLock
  <2>3. QED BY <1>0, <1>6, <2>1, <2>2, <1>d DEF SaveLock, DbTypeOK
<1>7. CASE ReloadLock(p)
      BY <1>0, <1>7, <1>a, <1>d, <1>e, KeepType, RefuseType
         DEF ReloadLock, FromLocked, Locations
<1>8. CASE Resolve(p)
  <2>1. ResolveInitial(snap[p]) \in Machines
        BY <1>8, <1>a, ResolveInitialOK DEF Resolve, ReadsHold, Reads
  <2>2. QED BY <1>0, <1>8, <2>1, <1>d, <1>e, KeepType, RefuseType
            DEF Resolve, Locations
<1>9. CASE LoadForRevision(p)
  <2>1. RevisionAccepts(quiz) => SubmitRevision(quiz, Submission(cmd[p])) \in Machines
        BY <1>9, <1>a, <1>c, SubmitRevisionOK DEF LoadForRevision
  <2>2. QED BY <1>0, <1>9, <2>1, <1>a, <1>d, <1>e, KeepType, RefuseType
            DEF LoadForRevision, Locations
<1>10. CASE Stamp(p)
  <2>1. NextOrdinal \in Nat \ {0}
        BY <1>0, NextOrdinalType DEF OrdinalsBounded, DbTypeOK
  <2>2. \A i \in Items :
            Observation(i, snap[p], NextOrdinal, cmd[p].session) \in Observations
        BY <1>0, <1>10, <1>a, <1>b, <2>1, ObservationType DEF Stamp
  <2>3. LocalTypeOK'
        BY <1>0, <1>10, <2>2 DEF Stamp, LocalTypeOK, Goto, Locations
  <2>4. QED BY <1>10, <2>3, <1>d, <1>e DEF Stamp
<1>11. CASE Reauthenticate(p)
      BY <1>0, <1>11, <1>a, <1>d, <1>e, KeepType, RefuseType
         DEF Reauthenticate, Locations
<1>12. CASE SaveTransition(p)
  <2>1. LocalTypeOK'
        BY <1>0, <1>12, <1>a, KeepType, RefuseType DEF SaveTransition, Locations
  <2>2. quiz' \in Machines /\ outbox' \subseteq Observations
        BY <1>0, <1>12, <1>a DEF SaveTransition, DbTypeOK, LocalTypeOK
  <2>3. QED BY <1>0, <1>12, <2>1, <2>2, <1>d DEF SaveTransition, DbTypeOK
<1>13. CASE ReloadOutcome(p)
      BY <1>0, <1>13, <1>a, <1>d, <1>e, KeepType, RefuseType
         DEF ReloadOutcome, Locations
<1>14. CASE Reply(p)
  <2>1. snap[p].initial # NoSubmission
        BY <1>14, <1>a DEF Reply, ReadsHold, Reads, Settled, Coherent, Resolved
  <2>2. \A part \in Answer(p) : Disclosure(part, snap[p]) \in Disclosures
        BY <2>1, <1>a, DisclosureType DEF Answer
  <2>3. acked' \subseteq Disclosures
        BY <1>0, <1>14, <2>2 DEF Reply, LocalTypeOK
  <2>4. LocalTypeOK'
        BY <1>0, <1>14, <2>3, ReadyMachineOK
           DEF Reply, Finish, Goto, LocalTypeOK, Locations
  <2>5. QED BY <1>14, <2>4, <1>d, <1>e DEF Reply
<1>15. CASE CheckReplay(p)
      BY <1>0, <1>15, <1>a, <1>d, <1>e, KeepType, RefuseType
         DEF CheckReplay, Locations
<1>16. CASE LoadForCompletion(p)
      BY <1>0, <1>16, <1>a, <1>d, <1>e, KeepType, RefuseType
         DEF LoadForCompletion, Locations
<1>17. CASE Complete(p)
  <2>1. CompletionEvent(cmd[p]) \in Events
        BY <1>0, <1>17, <1>b DEF Complete, ReadsHold, Reads, CommandFits, DbTypeOK,
           CompletionEvent, Events, CompletionEvents, Commands, QuizCommands,
           Completions
  <2>2. LocalTypeOK'
        BY <1>0, <1>17, <1>a, KeepType, RefuseType DEF Complete, Locations
  <2>3. log' \in Seq(Events)
        BY <1>0, <1>17, <2>1 DEF Complete, DbTypeOK
  <2>4. QED BY <1>0, <1>17, <2>2, <2>3, <1>d DEF Complete, DbTypeOK
<1>18. CASE Close(p)
  <2>1. quiz' \in Machines
        BY <1>18, <1>a, CloseQuizOK DEF Close
  <2>2. QED BY <1>0, <1>18, <2>1, <1>d, RefuseType DEF Close, DbTypeOK
<1>19. QED BY <1>1, <1>2, <1>3, <1>4, <1>5, <1>6, <1>7, <1>8, <1>9, <1>10,
              <1>11, <1>12, <1>13, <1>14, <1>15, <1>16, <1>17, <1>18 DEF Step

\* Everything else keeps the types too.
LEMMA OtherType ==
    ASSUME IInv, \/ \E p \in Procs : Abandon(p) \/ \E c \in Commands : Begin(p, c)
                 \/ OpenSession \/ OtherProgression \/ UNCHANGED vars
    PROVE  TypeOK'
<1> USE DEF IInv
<1>0. DbTypeOK /\ LocalTypeOK /\ crashes \in 0..MaxCrashes
      BY TypeSplit
<1>1. CASE \E p \in Procs : Abandon(p)
  <2>1. LocalTypeOK' /\ crashes' \in 0..MaxCrashes
        BY <1>0, <1>1, RefuseType, BoundsAssumption DEF Abandon
  <2>2. QED BY <1>0, <1>1, <2>1 DEF Abandon, db, TypeOK, DbTypeOK, LocalTypeOK
<1>2. CASE \E p \in Procs, c \in Commands : Begin(p, c)
      BY <1>0, <1>2 DEF Begin, Goto, db, TypeOK, DbTypeOK, LocalTypeOK, Locations
<1>3. CASE OpenSession
      BY <1>0, <1>3, BoundsAssumption
         DEF OpenSession, local, TypeOK, DbTypeOK, LocalTypeOK, Sessions
<1>4. CASE OtherProgression
  <2>1. CampaignEvent("campaign") \in Events
        BY <1>0 DEF CampaignEvent, Events, CampaignEvents, DbTypeOK
  <2>2. QED BY <1>0, <1>4, <2>1
            DEF OtherProgression, local, TypeOK, DbTypeOK, LocalTypeOK
<1>5. CASE UNCHANGED vars
      BY <1>0, <1>5 DEF vars, db, local, TypeOK, DbTypeOK, LocalTypeOK
<1>6. QED BY <1>1, <1>2, <1>3, <1>4, <1>5

-----------------------------------------------------------------------------
(* What others read survives a step: the stored quiz only moves forward.    *)

DbMoves == /\ Coherent(quiz')
           /\ quiz.initial # NoSubmission => quiz'.initial = quiz.initial
           /\ Resolved(quiz) => Resolved(quiz')
           /\ Revealed(quiz) => Revealed(quiz') /\ quiz'.revision = quiz.revision
           /\ outbox \subseteq outbox'
           /\ session <= session'

\* A step of a process moves the database forward.
LEMMA StepMoves ==
    ASSUME IInv, NEW p \in Procs, Step(p)
    PROVE  DbMoves
<1> USE DEF IInv
<1>0. /\ snap[p] \in Machines /\ Coherent(snap[p]) /\ quiz \in Machines
      /\ Coherent(quiz) /\ Reads(p) /\ session \in Int
      BY DEF TypeOK, ReadsHold, Reads, Sessions
<1>1. CASE SaveLock(p)
  <2>1. quiz' = quiz \/ (quiz.version = 1 /\ quiz' = snap[p])
    <3>1. CASE quiz.version = snap[p].version - 1 /\ quiz' = snap[p]
      <4>1. snap[p] = [ReadyMachine EXCEPT !.state = "initial_locked",
                                           !.version = ReadyMachine.version + 1,
                                           !.initial = Submission(cmd[p])]
            BY <1>0, <1>1 DEF SaveLock, Reads, LockInitial
      <4>a. snap[p].version = 2
            BY <4>1 DEF ReadyMachine
      <4>2. QED BY <3>1, <4>a, <1>0 DEF Machines
    <3>2. CASE quiz = snap[p] /\ UNCHANGED quiz
          BY <3>2
    <3>3. CASE UNCHANGED quiz
          BY <3>3
    <3>4. QED BY <1>1, <3>1, <3>2, <3>3 DEF SaveLock
  <2>2. CASE quiz' = quiz
        BY <1>0, <1>1, <2>2 DEF SaveLock, DbMoves
  <2>3. CASE quiz.version = 1 /\ quiz' = snap[p]
    <3>1. quiz.state = "ready"
          BY <1>0, <2>3 DEF Coherent, Revealed, Machines, States
    <3>2. quiz = ReadyMachine
          BY <1>0, <3>1 DEF Coherent
    <3>3. QED BY <1>0, <1>1, <2>3, <3>2
              DEF SaveLock, DbMoves, ReadyMachine, Resolved, Revealed
  <2>4. QED BY <2>1, <2>2, <2>3
<1>2. CASE SaveTransition(p)
  <2>1. CASE UNCHANGED quiz
        BY <1>0, <1>2, <2>1 DEF SaveTransition, DbMoves
  <2>2. CASE quiz.version = snap[p].version - 1 /\ quiz' = snap[p]
    <3>1. /\ snap[p].initial = quiz.initial /\ quiz.initial # NoSubmission
          /\ Resolved(snap[p])
          /\ ZeroWrong(snap[p]) <=> ZeroWrong(quiz)
          BY <1>0, <1>2 DEF SaveTransition, Reads, Coherent, Resolved, ZeroWrong
    <3>2. quiz.state # "ready"
          BY <1>0, <3>1 DEF Coherent, ReadyMachine
    <3>3. ~Revealed(quiz)
      <4> SUFFICES ASSUME Revealed(quiz) PROVE FALSE
          OBVIOUS
      <4>1. snap[p].version \in {4, 5, 6} /\ snap[p].state \in {"revision_open", "revealed"}
            BY <1>0, <1>2, <2>2 DEF Coherent, Machines, SaveTransition, Reads
      <4>2. snap[p].state = "revealed" /\ ~ZeroWrong(snap[p]) /\ snap[p].version = 4
            BY <1>0, <4>1 DEF Coherent, Revealed
      <4>3. QED BY <1>0, <2>2, <3>1, <4>2 DEF Coherent, Revealed, Machines
    <3>4. outbox \subseteq outbox' /\ session <= session'
          BY <1>0, <1>2 DEF SaveTransition
    <3>5. Coherent(quiz') /\ Resolved(quiz') /\ quiz'.initial = quiz.initial
          BY <1>0, <2>2, <3>1
    <3>6. QED BY <3>3, <3>4, <3>5 DEF DbMoves
  <2>3. QED BY <1>2, <2>1, <2>2 DEF SaveTransition
<1>3. CASE Close(p)
      BY <1>0, <1>3, CloseQuizOK DEF Close, DbMoves, Resolved, Revealed
<1>4. CASE UNCHANGED <<quiz, outbox, session>>
      BY <1>0, <1>4 DEF DbMoves
<1>5. QED BY <1>1, <1>2, <1>3, <1>4 DEF Step, db, Authenticate,
          PendingObservations, AppendObservation, MarkDelivered, LoadForInitial,
          ReloadLock, Resolve, LoadForRevision, Stamp, Reauthenticate,
          ReloadOutcome, Reply, CheckReplay, LoadForCompletion, Complete

\* A process that a step leaves alone can still rely on what it read.
LEMMA ReadsSurvive ==
    ASSUME IInv, TypeOK', DbMoves, NEW q \in Procs,
           UNCHANGED <<pc[q], cmd[q], snap[q], pend[q], rows[q]>>
    PROVE  Reads(q)'
<1> USE DEF IInv
<1>1. Reads(q) /\ CommandFits(q) /\ Coherent(snap[q]) /\ Coherent(quiz)
      BY DEF ReadsHold, Reads
<1>2. session \in Nat /\ session' \in Nat
      BY DEF TypeOK, Sessions, DbMoves
<1>3. pc[q] # "idle" => cmd[q].session \in Nat
      BY <1>1 DEF CommandFits, Commands, QuizCommands, Completions, Sessions
<1>4. CommandFits(q)'
      BY <1>1, <1>2, <1>3 DEF CommandFits, DbMoves
<1>5. \A m \in {snap[q]} : m.state \in {"initial_locked", "revision_open", "revealed"}
             => m.initial # NoSubmission
      BY <1>1 DEF Coherent
<1>6. Settled(q) => Settled(q)'
  <2> SUFFICES ASSUME Settled(q) PROVE Settled(q)'
      OBVIOUS
  <2>1. snap[q].initial # NoSubmission
        BY <1>1 DEF Settled, Coherent, Resolved
  <2>2. cmd[q].kind = "revision" => Revealed(quiz)
        BY <1>1 DEF Settled, Coherent, Resolved, Revealed
  <2>3. QED BY <2>1, <2>2 DEF Settled, DbMoves
<1>7. QED BY <1>1, <1>4, <1>5, <1>6 DEF Reads, DbMoves

\* A process that gives up its command relies on nothing.
LEMMA IdleReads ==
    ASSUME IInv, NEW p \in Procs, Finish(p)
    PROVE  Reads(p)'
<1>1. /\ pc'[p] = "idle" /\ snap'[p] = ReadyMachine
      /\ pend'[p] = {} /\ rows'[p] = {}
      BY DEF IInv, TypeOK, Finish, Goto
<1>2. QED BY <1>1, ReadyMachineOK DEF Reads, CommandFits

\* What going on changes of the process, and what it leaves alone.
LEMMA KeepEffect ==
    ASSUME IInv, NEW p \in Procs, NEW m, NEW l, Keep(p, m, l)
    PROVE  /\ pc'[p] = l /\ snap'[p] = m /\ cmd'[p] = cmd[p]
           /\ pend'[p] = pend[p] /\ rows'[p] = rows[p]
BY DEF IInv, TypeOK, Keep, Goto

\* Only the process that takes a step changes what it holds.
LEMMA StepIsLocal ==
    ASSUME IInv, NEW p \in Procs, Step(p), NEW q \in Procs, q # p
    PROVE  UNCHANGED <<pc[q], cmd[q], snap[q], pend[q], rows[q]>>
BY DEF IInv, TypeOK, Step, Authenticate, PendingObservations, AppendObservation,
       MarkDelivered, LoadForInitial, SaveLock, ReloadLock, FromLocked, Resolve,
       LoadForRevision, Stamp, Reauthenticate, SaveTransition, ReloadOutcome,
       Reply, CheckReplay, LoadForCompletion, Complete, Close, Keep, Goto,
       Refuse, Fail, Finish, local

\* The process that takes a step can rely on what it then holds.
LEMMA StepReads ==
    ASSUME IInv, NEW p \in Procs, Step(p), TypeOK', DbMoves
    PROVE  Reads(p)'
<1> USE DEF IInv
<1>1. /\ Reads(p) /\ CommandFits(p) /\ Coherent(snap[p]) /\ Coherent(quiz)
      /\ quiz \in Machines /\ snap[p] \in Machines /\ Coherent(quiz')
      BY DEF TypeOK, ReadsHold, Reads, DbMoves
<1>2. session \in Nat /\ session' \in Nat /\ session <= session'
      BY DEF TypeOK, Sessions, DbMoves
<1>3. pc[p] # "idle" => cmd[p] \in Commands /\ cmd[p].session \in Nat
      BY <1>1 DEF CommandFits, Commands, QuizCommands, Completions, Sessions
<1>4. pc[p] # "idle" => cmd[p].kind \in {"initial", "revision", "complete"}
      BY <1>3 DEF Commands, QuizCommands, Completions
<1>5. cmd[p].kind \in {"initial", "revision"} /\ pc[p] # "idle" =>
          Submission(cmd[p]) \in Submissions /\ Submission(cmd[p]) # NoSubmission
      BY <1>3, SubmissionType DEF Commands, Completions
<1>6. Refuse(p) \/ Fail(p) => Reads(p)'
      BY IdleReads DEF Refuse, Fail
<1>7. pc[p] \in {"authenticate", "load", "lock", "reload_lock", "resolve",
                 "stamp", "replay", "complete", "close"} => rows[p] = {}
      BY <1>1 DEF CommandFits
<1>8. ASSUME NEW m, NEW l \in Locations, Keep(p, m, l), Coherent(m), pc[p] # "idle",
             l \in {"lock", "reload_lock", "resolve"} => cmd[p].kind = "initial",
             l \in {"stamp", "reauthenticate", "save", "reload", "reply"} =>
                 cmd[p].kind \in {"initial", "revision"},
             l \in {"replay", "complete", "close"} => cmd[p].kind = "complete",
             l \in {"append", "mark"} => pend[p] # {},
             rows[p] # {} => l \in {"reauthenticate", "save", "reload", "drain",
                                    "append", "mark", "reply"}
      PROVE  /\ CommandFits(p)'
             /\ Coherent(snap[p]')
             /\ pend'[p] \subseteq outbox'
  <2>1. /\ pc'[p] = l /\ snap'[p] = m /\ cmd'[p] = cmd[p]
        /\ pend'[p] = pend[p] /\ rows'[p] = rows[p]
        BY <1>8, KeepEffect
  <2>2. QED BY <1>1, <1>2, <1>3, <1>8, <2>1 DEF CommandFits, Reads, DbMoves
<1>a. CASE Authenticate(p)
  <2>1. SUFFICES ASSUME NEW l \in {"replay", "drain"}, Keep(p, snap[p], l),
                        l = "replay" <=> cmd[p].kind = "complete"
                 PROVE  Reads(p)'
        BY <1>6, <1>a DEF Authenticate
  <2>2. pc[p] = "authenticate"
        BY <1>a DEF Authenticate
  <2>3. QED BY <1>1, <1>4, <1>7, <1>8, <2>1, <2>2, KeepEffect DEF Reads, Locations
<1>b. CASE PendingObservations(p)
  <2>1. /\ pc[p] = "drain" /\ pend'[p] = Pending /\ cmd'[p] = cmd[p]
        /\ snap'[p] = snap[p] /\ rows'[p] = rows[p]
        /\ pc'[p] = IF Pending = {} THEN AfterDrain(p) ELSE "append"
        /\ UNCHANGED db
        BY <1>b DEF PendingObservations, TypeOK, Goto
  <2>2. Pending \subseteq outbox
        BY DEF Pending
  <2>3. CommandFits(p)'
        BY <1>1, <2>1 DEF CommandFits, AfterDrain, db
  <2>4. rows[p] # {} => Settled(p)'
        BY <1>1, <2>1 DEF Reads, Settled, db
  <2>5. QED BY <1>1, <2>1, <2>2, <2>3, <2>4 DEF Reads, AfterDrain, db
<1>c. CASE AppendObservation(p)
  <2>1. SUFFICES ASSUME Keep(p, snap[p], "mark") PROVE Reads(p)'
        BY <1>6, <1>c DEF AppendObservation
  <2>2. pc[p] = "append" /\ UNCHANGED quiz
        BY <1>c DEF AppendObservation
  <2>3. pend[p] # {}
        BY <1>1, <2>2 DEF CommandFits
  <2>4. rows[p] # {} => Settled(p)'
        BY <1>1, <2>1, <2>2, KeepEffect DEF Reads, Settled
  <2>5. QED BY <1>1, <1>8, <2>1, <2>2, <2>3, <2>4, KeepEffect DEF Reads, Locations
<1>d. CASE MarkDelivered(p)
  <2>1. SUFFICES ASSUME Earliest(pend[p]) \in outbox PROVE Reads(p)'
        BY <1>6, <1>d DEF MarkDelivered
  <2> DEFINE r == Earliest(pend[p])
  <2>2. /\ pc[p] = "mark" /\ pend'[p] = pend[p] \ {r} /\ cmd'[p] = cmd[p]
        /\ snap'[p] = snap[p] /\ rows'[p] = rows[p]
        /\ pc'[p] = IF pend[p] = {r} THEN AfterDrain(p) ELSE "append"
        /\ UNCHANGED <<quiz, outbox, session>>
        BY <1>d, <2>1 DEF MarkDelivered, TypeOK, Goto
  <2>3. pend[p] # {r} => pend'[p] # {}
        BY <1>1, <2>2 DEF CommandFits
  <2>4. CommandFits(p)'
        BY <1>1, <2>2, <2>3 DEF CommandFits, AfterDrain
  <2>5. rows[p] # {} => Settled(p)'
        BY <1>1, <2>2 DEF Reads, Settled
  <2>6. QED BY <1>1, <2>2, <2>4, <2>5 DEF Reads, AfterDrain
<1>e. CASE LoadForInitial(p)
  <2>1. /\ pc[p] = "load" /\ cmd[p].kind = "initial" /\ rows[p] = {}
        /\ UNCHANGED quiz
        BY <1>7, <1>e DEF LoadForInitial, db
  <2>2. CASE FromLocked(p) /\ LockReplays(quiz, Submission(cmd[p]))
    <3>1. quiz.initial # NoSubmission
          BY <1>5, <2>1, <2>2 DEF LockReplays
    <3>2. CASE Resolved(quiz) /\ Keep(p, quiz, "reply")
      <4>1. Settled(p)'
            BY <2>1, <3>2, KeepEffect DEF Settled
      <4>2. QED BY <1>1, <1>8, <2>1, <3>2, <4>1, KeepEffect DEF Reads, Locations
    <3>3. CASE ~Resolved(quiz) /\ Keep(p, quiz, "resolve")
      <4>1. quiz.state = "initial_locked"
            BY <1>1, <3>1, <3>3 DEF Resolved, Machines, States, Coherent, ReadyMachine
      <4>2. QED BY <1>1, <1>8, <2>1, <3>3, <4>1, KeepEffect DEF Reads, Locations
    <3>4. QED BY <2>2, <3>2, <3>3 DEF FromLocked
  <2>3. CASE LockAccepts(quiz) /\ Keep(p, LockInitial(quiz, Submission(cmd[p])), "lock")
    <3>1. /\ quiz = ReadyMachine
          /\ Coherent(LockInitial(quiz, Submission(cmd[p])))
          BY <1>1, <1>5, <2>1, <2>3, LockInitialOK
    <3>2. QED BY <1>1, <1>8, <2>1, <2>3, <3>1, KeepEffect DEF Reads, Locations
  <2>4. QED BY <1>6, <1>e, <2>2, <2>3 DEF LoadForInitial
<1>f. CASE SaveLock(p)
  <2>1. /\ pc[p] = "lock" /\ cmd[p].kind = "initial" /\ rows[p] = {}
        /\ snap[p] = LockInitial(ReadyMachine, Submission(cmd[p]))
        BY <1>1, <1>7, <1>f DEF SaveLock, CommandFits, Reads
  <2>2. snap[p].state = "initial_locked"
        BY <2>1, <1>5, ReadyMachineOK, LockInitialOK DEF LockAccepts, ReadyMachine
  <2>3. CASE quiz' = snap[p] /\ Keep(p, snap[p], "resolve")
        BY <1>1, <1>8, <2>1, <2>2, <2>3, KeepEffect DEF Reads, Locations
  <2>4. CASE Keep(p, snap[p], "reload_lock")
        BY <1>1, <1>8, <2>1, <2>4, KeepEffect DEF Reads, Locations
  <2>5. QED BY <1>f, <2>3, <2>4 DEF SaveLock
<1>g. CASE ReloadLock(p)
  <2>1. /\ pc[p] = "reload_lock" /\ cmd[p].kind = "initial" /\ rows[p] = {}
        /\ UNCHANGED quiz
        BY <1>1, <1>7, <1>g DEF ReloadLock, CommandFits, db
  <2>2. SUFFICES ASSUME FromLocked(p), LockReplays(quiz, Submission(cmd[p]))
                 PROVE  Reads(p)'
        BY <1>6, <1>g DEF ReloadLock
  <2>3. quiz.initial # NoSubmission
        BY <1>5, <2>1, <2>2 DEF LockReplays
  <2>4. CASE Resolved(quiz) /\ Keep(p, quiz, "reply")
    <3>1. Settled(p)'
          BY <2>1, <2>4, KeepEffect DEF Settled
    <3>2. QED BY <1>1, <1>8, <2>1, <2>4, <3>1, KeepEffect DEF Reads, Locations
  <2>5. CASE ~Resolved(quiz) /\ Keep(p, quiz, "resolve")
    <3>1. quiz.state = "initial_locked"
          BY <1>1, <2>3, <2>5 DEF Resolved, Machines, States, Coherent, ReadyMachine
    <3>2. QED BY <1>1, <1>8, <2>1, <2>5, <3>1, KeepEffect DEF Reads, Locations
  <2>6. QED BY <2>2, <2>4, <2>5 DEF FromLocked
<1>h. CASE Resolve(p)
  <2> DEFINE m == ResolveInitial(snap[p])
             l == IF ZeroWrong(snap[p]) THEN "stamp" ELSE "save"
  <2>1. /\ pc[p] = "resolve" /\ cmd[p].kind = "initial" /\ rows[p] = {}
        /\ snap[p].state = "initial_locked" /\ snap[p].initial = quiz.initial
        /\ UNCHANGED quiz
        BY <1>1, <1>7, <1>h DEF Resolve, CommandFits, Reads, db
  <2>2. /\ Coherent(m) /\ m.initial = snap[p].initial /\ m.revision = NoSubmission
        /\ m.state = IF ZeroWrong(snap[p]) THEN "revealed" ELSE "revision_open"
        BY <1>1, <2>1, ResolveInitialOK
  <2>3. SUFFICES ASSUME Keep(p, m, l) PROVE Reads(p)'
        BY <1>6, <1>h DEF Resolve
  <2> HIDE DEF m
  <2>4. QED BY <1>1, <1>8, <2>1, <2>2, <2>3, KeepEffect DEF Reads, Locations
<1>i. CASE LoadForRevision(p)
  <2> DEFINE m == SubmitRevision(quiz, Submission(cmd[p]))
  <2>1. /\ pc[p] = "load" /\ cmd[p].kind = "revision" /\ rows[p] = {}
        /\ UNCHANGED quiz
        BY <1>7, <1>i DEF LoadForRevision, db
  <2>2. CASE RevisionReplays(quiz, Submission(cmd[p])) /\ Keep(p, quiz, "reply")
    <3>1. quiz.revision # NoSubmission
          BY <1>5, <2>1, <2>2 DEF RevisionReplays
    <3>2. Resolved(quiz)
          BY <1>1, <3>1 DEF Coherent, Resolved, Machines, States, ReadyMachine
    <3>3. Settled(p)'
          BY <2>1, <2>2, <3>1, <3>2, KeepEffect DEF Settled
    <3>4. QED BY <1>1, <1>8, <2>1, <2>2, <3>3, KeepEffect DEF Reads, Locations
  <2>3. CASE RevisionAccepts(quiz) /\ Keep(p, m, "stamp")
    <3>1. /\ Coherent(m) /\ m.state = "revealed" /\ m.initial = quiz.initial
          /\ m.revision # NoSubmission
          BY <1>1, <1>5, <2>1, <2>3, SubmitRevisionOK
    <3> HIDE DEF m
    <3>2. QED BY <1>1, <1>8, <2>1, <2>3, <3>1, KeepEffect DEF Reads, Locations
  <2>4. QED BY <1>6, <1>i, <2>2, <2>3 DEF LoadForRevision
<1>j. CASE Stamp(p)
  <2>1. /\ pc[p] = "stamp" /\ pc'[p] = "reauthenticate" /\ cmd'[p] = cmd[p]
        /\ snap'[p] = snap[p] /\ pend'[p] = pend[p]
        /\ rows'[p] = {Observation(i, snap[p], NextOrdinal, cmd[p].session) : i \in Items}
        /\ UNCHANGED <<quiz, outbox, session>>
        BY <1>j DEF Stamp, TypeOK, Goto, db
  <2>2. rows'[p] # {}
        BY <2>1, NumItemsAssumption DEF Items
  <2>3. CommandFits(p)'
        BY <1>1, <2>1 DEF CommandFits
  <2>4. QED BY <1>1, <2>1, <2>2, <2>3 DEF Reads
<1>k. CASE Reauthenticate(p)
  <2>1. pc[p] = "reauthenticate" /\ UNCHANGED quiz
        BY <1>k DEF Reauthenticate, db
  <2>2. SUFFICES ASSUME Keep(p, snap[p], "save") PROVE Reads(p)'
        BY <1>6, <1>k DEF Reauthenticate
  <2>3. cmd[p].kind \in {"initial", "revision"}
        BY <1>1, <2>1 DEF CommandFits
  <2>4. QED BY <1>1, <1>8, <2>1, <2>2, <2>3, KeepEffect DEF Reads, Locations
<1>l. CASE SaveTransition(p)
  <2>1. /\ pc[p] = "save" /\ cmd[p].kind \in {"initial", "revision"}
        /\ snap[p].initial = quiz.initial /\ quiz.initial # NoSubmission
        /\ snap[p].revision # NoSubmission <=> cmd[p].kind = "revision"
        /\ Resolved(snap[p])
        BY <1>1, <1>l DEF SaveTransition, CommandFits, Reads, Coherent, Resolved
  <2>2. CASE quiz' = snap[p] /\ Keep(p, snap[p], IF rows[p] = {} THEN "reply" ELSE "drain")
    <3>1. Settled(p)'
          BY <2>1, <2>2, KeepEffect DEF Settled
    <3>2. QED BY <1>1, <1>8, <2>1, <2>2, <3>1, KeepEffect DEF Reads, Locations
  <2>3. CASE /\ quiz.version # snap[p].version - 1 /\ rows[p] = {}
             /\ Keep(p, quiz, "reply") /\ UNCHANGED quiz
    <3>1. snap[p].state = "revision_open" /\ snap[p].version = 3
          BY <1>1, <2>1, <2>3 DEF Reads, Coherent
    <3>2. Resolved(quiz)
          BY <1>1, <2>1, <2>3, <3>1
             DEF Coherent, ReadyMachine, Resolved, Machines, States
    <3>3. cmd[p].kind = "initial"
          BY <1>1, <2>1, <3>1 DEF Coherent
    <3>4. Settled(p)'
          BY <2>1, <2>3, <3>2, <3>3, KeepEffect DEF Settled
    <3>5. QED BY <1>1, <1>8, <2>1, <2>3, <3>4, KeepEffect DEF Reads, Locations
  <2>4. CASE Keep(p, snap[p], "reload")
        BY <1>1, <1>8, <2>1, <2>4, KeepEffect DEF Reads, Locations
  <2>5. QED BY <1>6, <1>l, <2>2, <2>3, <2>4 DEF SaveTransition
<1>m. CASE ReloadOutcome(p)
  <2>1. /\ pc[p] = "reload" /\ cmd[p].kind \in {"initial", "revision"}
        /\ UNCHANGED quiz
        BY <1>1, <1>m DEF ReloadOutcome, CommandFits, db
  <2>2. SUFFICES ASSUME Keep(p, quiz, "drain"),
                        IF cmd[p].kind = "initial" THEN Resolved(quiz)
                        ELSE RevisionReplays(quiz, Submission(cmd[p]))
                 PROVE  Reads(p)'
        BY <1>6, <1>m DEF ReloadOutcome
  <2>3. cmd[p].kind = "revision" => quiz.revision # NoSubmission
        BY <1>5, <2>1, <2>2 DEF RevisionReplays
  <2>4. Resolved(quiz)
        BY <1>1, <2>1, <2>2, <2>3 DEF Coherent, Resolved, Machines, States, ReadyMachine
  <2>5. Settled(p)'
        BY <2>1, <2>2, <2>3, <2>4, KeepEffect DEF Settled
  <2>6. QED BY <1>1, <1>8, <2>1, <2>2, <2>5, KeepEffect DEF Reads, Locations
<1>n. CASE Reply(p)
      BY <1>n, IdleReads DEF Reply
<1>o. CASE CheckReplay(p)
  <2>1. pc[p] = "replay" /\ cmd[p].kind = "complete" /\ rows[p] = {}
        BY <1>1, <1>7, <1>o DEF CheckReplay, CommandFits
  <2>2. SUFFICES ASSUME NEW l \in {"close", "drain"}, Keep(p, snap[p], l)
                 PROVE  Reads(p)'
        BY <1>6, <1>o DEF CheckReplay
  <2>3. QED BY <1>1, <1>8, <2>1, <2>2, KeepEffect DEF Reads, Locations
<1>p. CASE LoadForCompletion(p)
  <2>1. pc[p] = "load" /\ cmd[p].kind = "complete" /\ rows[p] = {}
        BY <1>7, <1>p DEF LoadForCompletion
  <2>2. SUFFICES ASSUME Keep(p, snap[p], "complete") PROVE Reads(p)'
        BY <1>6, <1>p DEF LoadForCompletion
  <2>3. QED BY <1>1, <1>8, <2>1, <2>2, KeepEffect DEF Reads, Locations
<1>q. CASE Complete(p)
  <2>1. pc[p] = "complete" /\ cmd[p].kind = "complete" /\ rows[p] = {}
        BY <1>1, <1>7, <1>q DEF Complete, CommandFits
  <2>2. SUFFICES ASSUME Keep(p, snap[p], "close") PROVE Reads(p)'
        BY <1>6, <1>q DEF Complete
  <2>3. QED BY <1>1, <1>8, <2>1, <2>2, KeepEffect DEF Reads, Locations
<1>r. CASE Close(p)
      BY <1>6, <1>r DEF Close
<1>s. QED BY <1>a, <1>b, <1>c, <1>d, <1>e, <1>f, <1>g, <1>h, <1>i, <1>j, <1>k,
             <1>l, <1>m, <1>n, <1>o, <1>p, <1>q, <1>r DEF Step

-----------------------------------------------------------------------------
(* The remaining conjuncts.                                                 *)

\* The actions of a process that touch neither the evidence nor a plan for it.
Bookkeeping(p) == \/ Authenticate(p) \/ PendingObservations(p) \/ LoadForInitial(p)
                  \/ SaveLock(p) \/ ReloadLock(p) \/ Resolve(p)
                  \/ LoadForRevision(p) \/ ReloadOutcome(p) \/ Reply(p)
                  \/ CheckReplay(p) \/ LoadForCompletion(p) \/ Close(p)
                  \/ MarkDelivered(p) \/ AppendObservation(p) \/ Complete(p)

\* Such an action leaves the outbox alone, and each process either keeps its
\* plan or drops it.
LEMMA BookkeepingKeeps ==
    ASSUME IInv, NEW p \in Procs, Bookkeeping(p)
    PROVE  /\ UNCHANGED <<outbox, session>>
           /\ \A q \in Procs : rows'[q] = {} \/ UNCHANGED <<rows[q], cmd[q]>>
           /\ \A q \in Procs : rows'[q] # {} /\ pc'[q] # "reauthenticate" =>
                  pc[q] # "reauthenticate"
<1>1. UNCHANGED <<outbox, session>>
      BY DEF Bookkeeping, db, Authenticate, PendingObservations, LoadForInitial,
         SaveLock, ReloadLock, Resolve, LoadForRevision, ReloadOutcome, Reply,
         CheckReplay, LoadForCompletion, Close, MarkDelivered,
         AppendObservation, Complete
<1>2. pc[p] # "reauthenticate"
      BY DEF Bookkeeping, Authenticate, PendingObservations, LoadForInitial,
         SaveLock, ReloadLock, Resolve, LoadForRevision, ReloadOutcome, Reply,
         CheckReplay, LoadForCompletion, Close, MarkDelivered,
         AppendObservation, Complete
<1>3. rows'[p] = {} \/ UNCHANGED <<rows[p], cmd[p]>>
      BY DEF IInv, TypeOK, Bookkeeping, Authenticate, PendingObservations,
         LoadForInitial, SaveLock, ReloadLock, FromLocked, Resolve,
         LoadForRevision, ReloadOutcome, Reply, CheckReplay, LoadForCompletion,
         Close, MarkDelivered, AppendObservation, Complete, Keep, Refuse, Fail,
         Finish
<1>4. Step(p)
      BY DEF Bookkeeping, Step
<1>5. \A q \in Procs \ {p} : UNCHANGED <<pc[q], cmd[q], rows[q]>>
      BY <1>4, StepIsLocal
<1>6. QED BY <1>1, <1>2, <1>3, <1>5

\* Every plan stays inside the session of its command.
LEMMA StepPlans ==
    ASSUME IInv, NEW p \in Procs, Step(p), TypeOK'
    PROVE  PlansInsideTheirSession'
<1> USE DEF IInv
<1>1. session \in Nat /\ session' \in Nat
      BY DEF TypeOK, Sessions
<1>2. \A q \in Procs : \A r \in rows[q] :
          /\ r.session = cmd[q].session /\ cmd[q].session <= r.openAt
          /\ r.openAt <= session
          /\ pc[q] # "reauthenticate" => r.openAt = r.session
      BY DEF PlansInsideTheirSession
<1>3. CASE Bookkeeping(p)
      BY <1>1, <1>2, <1>3, BookkeepingKeeps DEF PlansInsideTheirSession
<1>4. CASE Stamp(p)
  <2>1. /\ pc[p] = "stamp" /\ pc'[p] = "reauthenticate" /\ cmd'[p] = cmd[p]
        /\ rows'[p] = {Observation(i, snap[p], NextOrdinal, cmd[p].session) : i \in Items}
        /\ UNCHANGED session
        BY <1>4 DEF Stamp, TypeOK, Goto, db
  <2>2. cmd[p].session <= session
        BY <2>1 DEF ReadsHold, Reads, CommandFits
  <2>3. \A r \in rows'[p] : r.session = cmd[p].session /\ r.openAt = session
        BY <2>1 DEF Observation
  <2>4. \A q \in Procs \ {p} : UNCHANGED <<pc[q], cmd[q], rows[q]>>
        BY <1>4, StepIsLocal
  <2>5. QED BY <1>1, <1>2, <2>1, <2>2, <2>3, <2>4 DEF PlansInsideTheirSession
<1>5. CASE Reauthenticate(p)
  <2>1. pc[p] = "reauthenticate" /\ UNCHANGED session
        BY <1>5 DEF Reauthenticate, db
  <2>2. \A q \in Procs \ {p} : UNCHANGED <<pc[q], cmd[q], rows[q]>>
        BY <1>5, StepIsLocal
  <2>3. CASE Refuse(p)
    <3>1. rows'[p] = {}
          BY <2>3 DEF Refuse, Finish, TypeOK
    <3>2. QED BY <1>1, <1>2, <2>1, <2>2, <3>1 DEF PlansInsideTheirSession
  <2>4. CASE Current(p) /\ Keep(p, snap[p], "save")
    <3>1. rows'[p] = rows[p] /\ cmd'[p] = cmd[p] /\ cmd[p].session = session
          BY <2>4, KeepEffect DEF Current
    <3>2. \A r \in rows[p] : r.openAt \in Nat
          BY DEF TypeOK, Observations, Sessions
    <3>3. QED BY <1>1, <1>2, <2>1, <2>2, <3>1, <3>2 DEF PlansInsideTheirSession
  <2>5. QED BY <1>5, <2>3, <2>4 DEF Reauthenticate
<1>6. CASE SaveTransition(p)
  <2>1. pc[p] = "save" /\ UNCHANGED session
        BY <1>6 DEF SaveTransition
  <2>2. rows'[p] = {} \/ UNCHANGED <<rows[p], cmd[p]>>
        BY <1>6 DEF SaveTransition, TypeOK, Keep, Refuse, Finish
  <2>3. \A q \in Procs \ {p} : UNCHANGED <<pc[q], cmd[q], rows[q]>>
        BY <1>6, StepIsLocal
  <2>4. QED BY <1>1, <1>2, <2>1, <2>2, <2>3 DEF PlansInsideTheirSession
<1>7. QED BY <1>3, <1>4, <1>5, <1>6 DEF Step, Bookkeeping

\* The events of the log and of the outbox stay inside their sessions.
LEMMA StepEvents ==
    ASSUME IInv, NEW p \in Procs, Step(p)
    PROVE  EventsInsideTheirSession'
<1> USE DEF IInv
<1>1. /\ log \in Seq(Events)
      /\ \A n \in DOMAIN log : log[n].openAt = log[n].session
      /\ \A r \in outbox : r.openAt = r.session
      BY DEF TypeOK, EventsInsideTheirSession
<1>2. CASE AppendObservation(p)
  <2>1. pend[p] \in SUBSET Observations /\ pend[p] # {} /\ pend[p] \subseteq outbox
        BY <1>2 DEF TypeOK, ReadsHold, Reads, CommandFits, AppendObservation
  <2>2. Earliest(pend[p]).openAt = Earliest(pend[p]).session
        BY <1>1, <2>1, EarliestIsElement
  <2>3. UNCHANGED outbox /\ (UNCHANGED log \/ log' = Append(log, Earliest(pend[p])))
        BY <1>2 DEF AppendObservation
  <2>4. QED BY <1>1, <2>2, <2>3 DEF EventsInsideTheirSession
<1>3. CASE Complete(p)
  <2>1. UNCHANGED outbox /\ \/ UNCHANGED log
                            \/ Current(p) /\ log' = Append(log, CompletionEvent(cmd[p]))
        BY <1>3 DEF Complete
  <2>2. Current(p) => CompletionEvent(cmd[p]).openAt = CompletionEvent(cmd[p]).session
        BY DEF Current, CompletionEvent
  <2>3. QED BY <1>1, <2>1, <2>2 DEF EventsInsideTheirSession
<1>4. CASE SaveTransition(p)
  <2>1. \A r \in rows[p] : r.openAt = r.session
        BY <1>4 DEF SaveTransition, PlansInsideTheirSession
  <2>2. UNCHANGED log /\ outbox' \subseteq outbox \cup rows[p]
        BY <1>4 DEF SaveTransition
  <2>3. QED BY <1>1, <2>1, <2>2 DEF EventsInsideTheirSession
<1>5. CASE UNCHANGED <<log, outbox>>
      BY <1>1, <1>5 DEF EventsInsideTheirSession
<1>6. QED BY <1>2, <1>3, <1>4, <1>5 DEF Step, db, Authenticate,
          PendingObservations, MarkDelivered, LoadForInitial, SaveLock,
          ReloadLock, Resolve, LoadForRevision, Stamp, Reauthenticate,
          ReloadOutcome, Reply, CheckReplay, LoadForCompletion, Close

\* What is reserved, or planned to be, stays bounded.
LEMMA StepOrdinals ==
    ASSUME IInv, NEW p \in Procs, Step(p), TypeOK'
    PROVE  OrdinalsBounded'
<1> USE DEF IInv
<1>1. /\ outbox \subseteq Observations /\ rows \in [Procs -> SUBSET Observations]
      /\ \E b \in Nat : \A r \in outbox : r.ordinal <= b
      /\ \A q \in Procs : \E b \in Nat : \A r \in rows[q] : r.ordinal <= b
      BY DEF TypeOK, OrdinalsBounded
<1>2. \A q \in Procs \ {p} : UNCHANGED rows[q]
      BY StepIsLocal
<1>3. CASE Bookkeeping(p)
      BY <1>1, <1>3, BookkeepingKeeps DEF OrdinalsBounded
<1>4. CASE Stamp(p)
  <2>1. NextOrdinal \in Nat
        BY NextOrdinalType DEF TypeOK, OrdinalsBounded
  <2>2. /\ rows'[p] = {Observation(i, snap[p], NextOrdinal, cmd[p].session) : i \in Items}
        /\ UNCHANGED outbox
        BY <1>4 DEF Stamp, TypeOK, db
  <2>3. \A r \in rows'[p] : r.ordinal <= NextOrdinal + NumItems
        BY <2>1, <2>2, NumItemsAssumption DEF Observation, Items
  <2>4. NextOrdinal + NumItems \in Nat
        BY <2>1, NumItemsAssumption
  <2>5. \E b \in Nat : \A r \in rows'[p] : r.ordinal <= b
        BY <2>3, <2>4
  <2>6. QED BY <1>1, <1>2, <2>2, <2>5 DEF OrdinalsBounded
<1>5. CASE Reauthenticate(p)
  <2>1. rows'[p] = {} \/ UNCHANGED rows[p]
        BY <1>5 DEF Reauthenticate, TypeOK, Keep, Refuse, Finish
  <2>2. UNCHANGED outbox
        BY <1>5 DEF Reauthenticate, db
  <2>3. QED BY <1>1, <1>2, <2>1, <2>2 DEF OrdinalsBounded
<1>6. CASE SaveTransition(p)
  <2>1. rows'[p] = {} \/ UNCHANGED rows[p]
        BY <1>6 DEF SaveTransition, TypeOK, Keep, Refuse, Finish
  <2>2. outbox' \subseteq outbox \cup rows[p]
        BY <1>6 DEF SaveTransition
  <2>3. PICK b \in Nat : \A r \in outbox : r.ordinal <= b
        BY <1>1
  <2>4. PICK c \in Nat : \A r \in rows[p] : r.ordinal <= c
        BY <1>1
  <2>5. \A r \in outbox \cup rows[p] : r.ordinal <= b + c
        BY <1>1, <2>3, <2>4 DEF Observations
  <2>6. \E d \in Nat : \A r \in outbox' : r.ordinal <= d
        BY <2>2, <2>5
  <2>7. QED BY <1>1, <1>2, <2>1, <2>6 DEF OrdinalsBounded
<1>7. QED BY <1>3, <1>4, <1>5, <1>6 DEF Step, Bookkeeping

\* What was disclosed stays true of a stored quiz that only moves forward.
LEMMA AnswersSurvive ==
    ASSUME IInv, DbMoves, NEW d \in acked
    PROVE  /\ Resolved(quiz')
           /\ d.part = "truth" => Revealed(quiz')
           /\ d = Disclosure(d.part, quiz')
<1>1. /\ Resolved(quiz)
      /\ d.part = "truth" => Revealed(quiz)
      /\ d = Disclosure(d.part, quiz)
      BY DEF IInv, OneAnswerDisclosed
<1>2. quiz.initial # NoSubmission /\ quiz'.initial = quiz.initial
      BY <1>1 DEF IInv, ReadsHold, Coherent, Resolved, DbMoves
<1>3. d.part \in {"count", "truth"}
      BY DEF IInv, TypeOK, Disclosures
<1>4. CASE d.part = "count"
      BY <1>1, <1>2, <1>4 DEF DbMoves, Disclosure, WrongCount
<1>5. CASE d.part = "truth"
      BY <1>1, <1>2, <1>5 DEF DbMoves, Disclosure, FinalSheet
<1>6. QED BY <1>3, <1>4, <1>5

\* A step of a process discloses nothing the stored quiz contradicts.
LEMMA StepAnswers ==
    ASSUME IInv, NEW p \in Procs, Step(p), DbMoves
    PROVE  OneAnswerDisclosed'
<1>1. CASE UNCHANGED acked
      BY <1>1, AnswersSurvive DEF OneAnswerDisclosed
<1>2. CASE Reply(p)
  <2>1. /\ pc[p] = "reply" /\ UNCHANGED quiz
        /\ acked' = acked \cup {Disclosure(part, snap[p]) : part \in Answer(p)}
        BY <1>2 DEF Reply, db
  <2>2. /\ Settled(p) /\ Coherent(snap[p]) /\ Coherent(quiz)
        /\ cmd[p].kind \in {"initial", "revision"}
        /\ snap[p] \in Machines /\ quiz \in Machines
        BY <2>1 DEF IInv, TypeOK, ReadsHold, Reads, CommandFits
  <2>3. ASSUME NEW part \in Answer(p)
        PROVE  /\ part = "truth" => Revealed(quiz)
               /\ Disclosure(part, snap[p]) = Disclosure(part, quiz)
    <3>1. snap[p].initial = quiz.initial /\ Resolved(quiz)
          BY <2>2 DEF Settled
    <3>2. CASE part = "count"
          BY <3>1, <3>2 DEF Disclosure, WrongCount
    <3>3. CASE part = "truth" /\ cmd[p].kind = "revision"
      <4>1. snap[p].revision = quiz.revision /\ quiz.revision # NoSubmission
            BY <2>2, <3>3 DEF Settled
      <4>2. Revealed(quiz)
            BY <2>2, <3>1, <4>1 DEF Coherent, Resolved, Revealed
      <4>3. QED BY <3>1, <3>3, <4>1, <4>2 DEF Disclosure, FinalSheet
    <3>4. CASE part = "truth" /\ cmd[p].kind # "revision"
      <4>1. ZeroWrong(snap[p]) /\ ZeroWrong(quiz)
            BY <2>3, <3>1, <3>4 DEF Answer, ZeroWrong
      <4>2. Revealed(quiz) /\ Revealed(snap[p])
            BY <2>2, <3>1, <4>1 DEF Settled, Coherent, Resolved, Revealed
      <4>3. quiz.revision = NoSubmission /\ snap[p].revision = NoSubmission
            BY <2>2, <4>1, <4>2 DEF Coherent
      <4>4. QED BY <3>1, <3>4, <4>2, <4>3 DEF Disclosure, FinalSheet
    <3>5. part \in {"count", "truth"}
          BY <2>3 DEF Answer
    <3>6. QED BY <3>2, <3>3, <3>4, <3>5
  <2>4. Resolved(quiz)
        BY <2>2 DEF Settled
  <2>5. \A part \in Answer(p) : Disclosure(part, snap[p]).part = part
        BY DEF Disclosure, Answer
  <2>6. ASSUME NEW d \in acked' PROVE /\ Resolved(quiz)
                                      /\ d.part = "truth" => Revealed(quiz)
                                      /\ d = Disclosure(d.part, quiz)
    <3>1. CASE d \in acked
          BY <3>1 DEF IInv, OneAnswerDisclosed
    <3>2. CASE \E part \in Answer(p) : d = Disclosure(part, snap[p])
          BY <2>3, <2>4, <2>5, <3>2
    <3>3. QED BY <2>1, <2>6, <3>1, <3>2
  <2>7. QED BY <2>1, <2>6 DEF OneAnswerDisclosed
<1>3. QED BY <1>1, <1>2 DEF Step, Authenticate, PendingObservations,
          AppendObservation, MarkDelivered, LoadForInitial, SaveLock, ReloadLock,
          FromLocked, Resolve, LoadForRevision, Stamp, Reauthenticate,
          SaveTransition, ReloadOutcome, CheckReplay, LoadForCompletion,
          Complete, Close, Keep, Refuse, Fail

-----------------------------------------------------------------------------
(* The steps that are not a command's own, and the theorems.                *)

Others == \/ \E p \in Procs : Abandon(p) \/ \E c \in Commands : Begin(p, c)
          \/ OpenSession
          \/ OtherProgression
          \/ UNCHANGED vars

\* A process that such a step touches begins a command or gives one up.
LEMMA OthersAreLocal ==
    ASSUME IInv, Others, NEW q \in Procs
    PROVE  \/ UNCHANGED <<pc[q], cmd[q], snap[q], pend[q], rows[q]>>
           \/ Abandon(q)
           \/ \E c \in Commands : Begin(q, c)
<1>1. CASE \E p \in Procs : Abandon(p)
  <2>1. PICK p \in Procs : Abandon(p)
        BY <1>1
  <2>2. CASE p # q
        BY <2>1, <2>2 DEF IInv, TypeOK, Abandon, Refuse, Finish, Goto
  <2>3. QED BY <2>1, <2>2
<1>2. CASE \E p \in Procs : \E c \in Commands : Begin(p, c)
  <2>1. PICK p \in Procs, c \in Commands : Begin(p, c)
        BY <1>2
  <2>2. CASE p # q
        BY <2>1, <2>2 DEF IInv, TypeOK, Begin, Goto
  <2>3. QED BY <2>1, <2>2
<1>3. CASE OpenSession \/ OtherProgression \/ UNCHANGED vars
      BY <1>3 DEF OpenSession, OtherProgression, vars, local
<1>4. QED BY <1>1, <1>2, <1>3 DEF Others

\* None of them touches the stored quiz, the outbox or the answers.
LEMMA OthersMove ==
    ASSUME IInv, Others
    PROVE  DbMoves /\ UNCHANGED <<quiz, outbox, acked>>
<1>1. UNCHANGED <<quiz, outbox, acked>> /\ (session' = session \/ session' = session + 1)
      BY DEF Others, Abandon, Refuse, Begin, OpenSession, OtherProgression, vars, db
<1>2. Coherent(quiz) /\ session \in Nat
      BY DEF IInv, TypeOK, ReadsHold, Sessions
<1>3. QED BY <1>1, <1>2 DEF DbMoves

\* A command begins with an empty plan.
LEMMA BeginReads ==
    ASSUME IInv, NEW p \in Procs, NEW c \in Commands, Begin(p, c)
    PROVE  Reads(p)' /\ rows'[p] = {}
<1>1. /\ pc'[p] = "authenticate" /\ cmd'[p] = c /\ c.session <= session
      /\ pc[p] = "idle" /\ snap'[p] = snap[p] /\ pend'[p] = pend[p]
      /\ rows'[p] = rows[p] /\ UNCHANGED <<outbox, session>>
      BY DEF IInv, TypeOK, Begin, Goto, db
<1>2. rows[p] = {} /\ Coherent(snap[p]) /\ pend[p] \subseteq outbox
      BY <1>1 DEF IInv, ReadsHold, Reads, CommandFits
<1>3. QED BY <1>1, <1>2 DEF Reads, CommandFits

\* They keep the invariant.
LEMMA OthersKeep ==
    ASSUME IInv, Others
    PROVE  IInv'
<1>1. TypeOK'
      BY OtherType DEF Others
<1>2. DbMoves /\ UNCHANGED <<quiz, outbox, acked>>
      BY OthersMove
<1>3. ASSUME NEW q \in Procs
      PROVE  /\ Reads(q)'
             /\ rows'[q] = {} \/ UNCHANGED <<pc[q], cmd[q], rows[q]>>
  <2>1. CASE UNCHANGED <<pc[q], cmd[q], snap[q], pend[q], rows[q]>>
        BY <1>1, <1>2, <2>1, ReadsSurvive
  <2>2. CASE Abandon(q)
        BY <2>2, IdleReads DEF Abandon, Refuse, Finish, IInv, TypeOK
  <2>3. CASE \E c \in Commands : Begin(q, c)
        BY <2>3, BeginReads
  <2>4. QED BY <2>1, <2>2, <2>3, OthersAreLocal
<1>4. ReadsHold'
      BY <1>2, <1>3 DEF ReadsHold, DbMoves
<1>5. PlansInsideTheirSession'
  <2>1. session \in Nat /\ session' \in Nat /\ session <= session'
        BY <1>1, <1>2 DEF IInv, TypeOK, Sessions, DbMoves
  <2>2. \A q \in Procs : \A r \in rows[q] : r.openAt \in Nat
        BY DEF IInv, TypeOK, Observations, Sessions
  <2>3. QED BY <1>3, <2>1, <2>2 DEF IInv, PlansInsideTheirSession
<1>6. OrdinalsBounded'
      BY <1>2, <1>3 DEF IInv, OrdinalsBounded
<1>7. EventsInsideTheirSession'
  <2>1. log' = log \/ log' = Append(log, CampaignEvent("campaign"))
        BY DEF Others, Abandon, Begin, OpenSession, OtherProgression, vars, db
  <2>2. CampaignEvent("campaign").openAt = CampaignEvent("campaign").session
        BY DEF CampaignEvent
  <2>3. log \in Seq(Events)
        BY DEF IInv, TypeOK
  <2>4. QED BY <1>2, <2>1, <2>2, <2>3 DEF IInv, EventsInsideTheirSession
<1>8. OneAnswerDisclosed'
      BY <1>2, AnswersSurvive DEF OneAnswerDisclosed
<1>9. QED BY <1>1, <1>4, <1>5, <1>6, <1>7, <1>8 DEF IInv

\* Every step keeps the invariant.
LEMMA NextInv == IInv /\ [Next]_vars => IInv'
<1> SUFFICES ASSUME IInv, [Next]_vars PROVE IInv'
    OBVIOUS
<1>1. CASE Others
      BY <1>1, OthersKeep
<1>2. CASE \E p \in Procs : Step(p)
  <2>1. PICK p \in Procs : Step(p)
        BY <1>2
  <2>2. TypeOK' /\ DbMoves
        BY <2>1, StepType, StepMoves
  <2>3. \A q \in Procs \ {p} : Reads(q)'
        BY <2>1, <2>2, StepIsLocal, ReadsSurvive
  <2>4. Reads(p)'
        BY <2>1, <2>2, StepReads
  <2>5. ReadsHold'
        BY <2>2, <2>3, <2>4 DEF ReadsHold, DbMoves
  <2>6. PlansInsideTheirSession' /\ OrdinalsBounded'
        BY <2>1, <2>2, StepPlans, StepOrdinals
  <2>7. EventsInsideTheirSession' /\ OneAnswerDisclosed'
        BY <2>1, <2>2, StepEvents, StepAnswers
  <2>8. QED BY <2>2, <2>5, <2>6, <2>7 DEF IInv
<1>3. QED BY <1>1, <1>2 DEF Next, Others

\* The invariant holds in every reachable state.
THEOREM Invariance == Spec => []IInv
BY InitInv, NextInv, PTL DEF Spec

\* Every variable of the submission service keeps its shape.
THEOREM TypeCorrect == Spec => []TypeOK
<1>1. IInv => TypeOK
      BY DEF IInv
<1>2. QED BY Invariance, <1>1, PTL

\* What a command read stays true until it uses it: the snapshot it resolves,
\* stores or answers from is never contradicted by the database.
THEOREM ReadsCorrect == Spec => []ReadsHold
<1>1. IInv => ReadsHold
      BY DEF IInv
<1>2. QED BY Invariance, <1>1, PTL

\* An observation is planned for the session of its command, and stored only
\* if that session was open when it occurred.
THEOREM PlansCorrect == Spec => []PlansInsideTheirSession
<1>1. IInv => PlansInsideTheirSession
      BY DEF IInv
<1>2. QED BY Invariance, <1>1, PTL

\* Every event recorded or reserved lies within the session it names, so the
\* next create_session always accepts the history.
THEOREM SessionsCorrect == Spec => []EventsInsideTheirSession
<1>1. IInv => EventsInsideTheirSession
      BY DEF IInv
<1>2. QED BY Invariance, <1>1, PTL

\* All answers ever given agree with the stored quiz, whichever process gave
\* them, and no truth is told before the reveal.
THEOREM OneAnswer == Spec => []OneAnswerDisclosed
<1>1. IInv => OneAnswerDisclosed
      BY DEF IInv
<1>2. QED BY Invariance, <1>1, PTL
-----------------------------------------------------------------------------
(* The outbox and the log.                                                  *)

\* A set of observations of one reveal: one per item, with consecutive
\* ordinals in the order of the items.
WholeReveal(R) == /\ \A i \in Items : \E r \in R : r.item = i
                  /\ \A q, r \in R : q.item = r.item => q = r
                  /\ \A q, r \in R : q.ordinal - q.item = r.ordinal - r.item

\* A process plans a whole reveal, and only for a snapshot that is revealed.
PlansReveal(p) ==
    /\ rows[p] # {} => WholeReveal(rows[p])
    /\ pc[p] \in {"stamp", "reauthenticate"} \/ (pc[p] = "save" /\ rows[p] # {})
           => snap[p].state = "revealed"

\* What the outbox holds is one reveal, and the log takes its rows in their
\* order: what is not logged yet comes next, with no gap.
OutboxLeads ==
    /\ outbox # {} => WholeReveal(outbox) /\ Revealed(quiz)
    /\ delivered \subseteq {r.item : r \in outbox}
    /\ DeliveredAreLogged
    /\ \A n \in DOMAIN log : log[n].kind = "observation" => log[n] \in outbox
    /\ \A r \in outbox : /\ r.ordinal <= Len(log) + r.item
                         /\ Logged(r) <=> r.ordinal <= Len(log)

\* A drain has not passed over a row that is still pending, and marks only
\* what is in the log.
DrainsInOrder(p) ==
    /\ pc[p] \in {"append", "mark"} => Pending \subseteq pend[p]
    /\ pc[p] = "mark" => Logged(Earliest(pend[p]))

DrainInv == /\ \A p \in Procs : PlansReveal(p) /\ DrainsInOrder(p)
            /\ OutboxLeads
            /\ DrainNeverFails

\* What has been logged stays logged.
LEMMA LoggedStays ==
    ASSUME log \in Seq(Events), NEW e, log' = log \/ log' = Append(log, e),
           NEW r, Logged(r)
    PROVE  Logged(r)'
BY DEF Logged

\* Rows of one reveal that have the same item, or ordinal, are the same.
LEMMA OneRowEach ==
    ASSUME NEW R \in SUBSET Observations, WholeReveal(R), NEW q \in R, NEW r \in R,
           q.item = r.item \/ q.ordinal = r.ordinal
    PROVE  q = r
<1>1. /\ q.ordinal - q.item = r.ordinal - r.item
      /\ q.item \in Int /\ r.item \in Int /\ q.ordinal \in Int /\ r.ordinal \in Int
      BY DEF WholeReveal, Observations, Items
<1>2. q.item = r.item
      BY <1>1
<1>3. QED BY <1>2 DEF WholeReveal

\* The earliest row of a set of one reveal is the only one before all others.
LEMMA EarliestIsLeast ==
    ASSUME NEW R \in SUBSET Observations, WholeReveal(R),
           NEW S \in SUBSET R, NEW r \in S, \A q \in S : r.ordinal <= q.ordinal
    PROVE  Earliest(S) = r
<1>1. Earliest(S) \in S /\ \A q \in S : Earliest(S).ordinal <= q.ordinal
      BY EarliestIsElement
<1>2. Earliest(S).ordinal = r.ordinal
      BY <1>1 DEF Observations
<1>3. QED BY <1>1, <1>2, OneRowEach

\* A drain that appends finds its row in the log, or the log ready for it.
LEMMA AppendsNext ==
    ASSUME IInv, DrainInv, NEW p \in Procs, pc[p] = "append"
    PROVE  /\ Earliest(pend[p]) \in outbox
           /\ Logged(Earliest(pend[p])) \/ Appendable(Earliest(pend[p]))
<1> DEFINE r == Earliest(pend[p])
<1>0. /\ pend[p] \in SUBSET Observations /\ pend[p] # {} /\ pend[p] \subseteq outbox
      /\ outbox \in SUBSET Observations /\ log \in Seq(Events)
      BY DEF IInv, TypeOK, ReadsHold, Reads, CommandFits
<1>1. r \in pend[p] /\ \A q \in pend[p] : r.ordinal <= q.ordinal
      BY <1>0, EarliestIsElement
<1>2. WholeReveal(outbox) /\ Pending \subseteq pend[p]
      BY <1>0, <1>1 DEF DrainInv, OutboxLeads, DrainsInOrder
<1> SUFFICES ASSUME ~Logged(r) PROVE Appendable(r)
    BY <1>0, <1>1
<1> HIDE DEF r
<1>3. r \in Pending
      BY <1>0, <1>1 DEF DrainInv, OutboxLeads, DeliveredAreLogged, Pending
<1>4. r = Earliest(Pending)
      BY <1>0, <1>1, <1>2, <1>3, EarliestIsLeast DEF Pending
<1>5. r.item \notin Recorded
  <2> SUFFICES ASSUME NEW n \in DOMAIN log, log[n].kind = "observation", log[n].item = r.item
               PROVE  FALSE
      BY DEF Recorded
  <2>1. log[n] \in outbox
        BY DEF DrainInv, OutboxLeads
  <2>2. log[n] = r
        BY <1>0, <1>1, <1>2, <2>1, OneRowEach
  <2>3. QED BY <2>2 DEF Logged
<1>6. r.ordinal = Len(log) + 1
  <2>1. /\ r.item \in Int /\ r.ordinal \in Int /\ r.item \in Items
        /\ Len(log) < r.ordinal /\ r.ordinal <= Len(log) + r.item /\ Len(log) \in Nat
        BY <1>0, <1>1 DEF DrainInv, OutboxLeads, Observations, Items
  <2>2. CASE r.item = 1
        BY <2>1, <2>2
  <2>3. CASE r.item # 1
    <3>1. r.item - 1 \in Items
          BY <2>1, <2>3, NumItemsAssumption DEF Items
    <3>2. PICK q \in outbox : q.item = r.item - 1
          BY <1>2, <3>1 DEF WholeReveal
    <3>3. q.ordinal = r.ordinal - 1
          BY <1>0, <1>1, <1>2, <2>1, <3>2 DEF WholeReveal, Observations
    <3>4. q \notin Pending
          BY <1>1, <1>2, <2>1, <3>3
    <3>5. Logged(q)
          BY <3>4 DEF DrainInv, OutboxLeads, DeliveredAreLogged, Pending
    <3>6. q.ordinal <= Len(log)
          BY <3>5 DEF DrainInv, OutboxLeads
    <3>7. QED BY <2>1, <3>3, <3>6
  <2>4. QED BY <2>2, <2>3
<1>7. QED BY <1>4, <1>5, <1>6 DEF Appendable

\* Initially nothing is planned, reserved or being drained.
LEMMA InitDrain == Init => DrainInv
<1> SUFFICES ASSUME Init PROVE DrainInv
    OBVIOUS
<1> USE DEF Init
<1>1. \A p \in Procs : PlansReveal(p) /\ DrainsInOrder(p)
      BY DEF PlansReveal, DrainsInOrder
<1>2. OutboxLeads
      BY DEF OutboxLeads, DeliveredAreLogged, CampaignEvent
<1>3. QED BY <1>1, <1>2 DEF DrainInv, DrainNeverFails

\* The rows stamped for a snapshot are a whole reveal.
LEMMA StampsReveal ==
    ASSUME NEW m, NEW n \in Nat, NEW s
    PROVE  WholeReveal({Observation(i, m, n, s) : i \in Items})
<1>1. \A i \in Items : /\ Observation(i, m, n, s).item = i
                       /\ Observation(i, m, n, s).ordinal = n + i - 1
                       /\ i \in Int
      BY DEF Observation, Items
<1>2. QED BY <1>1 DEF WholeReveal

\* A step plans a reveal only for a snapshot that it found, or made, revealed.
LEMMA StepPlansReveal ==
    ASSUME IInv, NEW p \in Procs, Step(p), PlansReveal(p)
    PROVE  PlansReveal(p)'
<1> USE DEF IInv
<1>1. /\ snap[p] \in Machines /\ Coherent(snap[p]) /\ quiz \in Machines
      /\ Coherent(quiz) /\ CommandFits(p) /\ Reads(p)
      BY DEF TypeOK, ReadsHold, Reads
<1>2. CASE Stamp(p)
  <2>1. NextOrdinal \in Nat
        BY NextOrdinalType DEF TypeOK, OrdinalsBounded
  <2>2. /\ pc[p] = "stamp" /\ pc'[p] = "reauthenticate" /\ snap'[p] = snap[p]
        /\ rows'[p] = {Observation(i, snap[p], NextOrdinal, cmd[p].session) : i \in Items}
        BY <1>2 DEF Stamp, TypeOK, Goto
  <2>3. WholeReveal(rows'[p])
        BY <2>1, <2>2, StampsReveal
  <2>4. QED BY <2>2, <2>3 DEF PlansReveal
<1>3. CASE Resolve(p)
  <2>1. CASE Refuse(p)
        BY <2>1 DEF Refuse, Finish, Goto, TypeOK, PlansReveal
  <2>2. CASE Keep(p, ResolveInitial(snap[p]), IF ZeroWrong(snap[p]) THEN "stamp" ELSE "save")
    <3>1. pc[p] = "resolve" /\ snap[p].state = "initial_locked" /\ rows[p] = {}
          BY <1>1, <1>3 DEF Resolve, Reads, CommandFits
    <3>2. ZeroWrong(snap[p]) => ResolveInitial(snap[p]).state = "revealed"
          BY <1>1, <3>1, ResolveInitialOK
    <3>3. QED BY <2>2, <3>1, <3>2, KeepEffect DEF PlansReveal
  <2>3. QED BY <1>3, <2>1, <2>2 DEF Resolve
<1>4. CASE LoadForRevision(p)
  <2>1. CASE Refuse(p)
        BY <2>1 DEF Refuse, Finish, Goto, TypeOK, PlansReveal
  <2>2. CASE Keep(p, quiz, "reply")
        BY <2>2, KeepEffect DEF PlansReveal
  <2>3. CASE RevisionAccepts(quiz) /\ Keep(p, SubmitRevision(quiz, Submission(cmd[p])), "stamp")
    <3>1. SubmitRevision(quiz, Submission(cmd[p])).state = "revealed"
      <4>1. cmd[p] \in QuizCommands
            BY <1>1, <1>4 DEF LoadForRevision, CommandFits, Commands, Completions
      <4>2. QED BY <1>1, <2>3, <4>1, SubmissionType, SubmitRevisionOK
    <3>2. QED BY <2>3, <3>1, KeepEffect DEF PlansReveal
  <2>4. QED BY <1>4, <2>1, <2>2, <2>3 DEF LoadForRevision
<1>5. CASE Reauthenticate(p)
  <2>1. CASE Refuse(p)
        BY <2>1 DEF Refuse, Finish, Goto, TypeOK, PlansReveal
  <2>2. CASE Keep(p, snap[p], "save")
        BY <1>5, <2>2, KeepEffect DEF Reauthenticate, PlansReveal
  <2>3. QED BY <1>5, <2>1, <2>2 DEF Reauthenticate
<1>6. CASE ~(Stamp(p) \/ Resolve(p) \/ LoadForRevision(p) \/ Reauthenticate(p))
  <2>1. /\ rows'[p] = {} \/ UNCHANGED rows[p]
        /\ pc'[p] \notin {"stamp", "reauthenticate", "save"}
        BY <1>6 DEF TypeOK, Step, Authenticate, PendingObservations, AppendObservation,
           MarkDelivered, LoadForInitial, SaveLock, ReloadLock, FromLocked,
           SaveTransition, ReloadOutcome, Reply, CheckReplay, LoadForCompletion,
           Complete, Close, Keep, Goto, Refuse, Fail, Finish, AfterDrain
  <2>2. QED BY <2>1 DEF PlansReveal
<1>7. QED BY <1>2, <1>3, <1>4, <1>5, <1>6

\* A step that leaves the outbox and the log alone keeps the agreement.
LEMMA OutboxRests ==
    ASSUME OutboxLeads, DbMoves, UNCHANGED <<outbox, delivered, log>>
    PROVE  OutboxLeads'
<1>1. \A r : Logged(r)' <=> Logged(r)
      BY DEF Logged
<1>2. DeliveredAreLogged'
      BY <1>1 DEF OutboxLeads, DeliveredAreLogged
<1>3. QED BY <1>1, <1>2 DEF OutboxLeads, DbMoves

\* The log takes another event only when every reserved ordinal is taken.
LEMMA OtherEvents ==
    ASSUME IInv, OutboxLeads, DbMoves, UNCHANGED <<outbox, delivered>>,
           NEW e \in Events, e.kind # "observation", ~OrdinalReserved,
           log' = Append(log, e)
    PROVE  OutboxLeads' /\ Pending' = Pending
<1>1. log \in Seq(Events) /\ Len(log) \in Nat /\ Len(log)' = Len(log) + 1
      BY DEF IInv, TypeOK
<1>2. \A r \in outbox : /\ Logged(r) /\ r.ordinal <= Len(log)
                        /\ r.ordinal \in Nat /\ r.item \in Nat
      BY DEF IInv, TypeOK, OrdinalReserved, Pending, OutboxLeads,
         DeliveredAreLogged, Observations, Items
<1>3. \A r \in outbox : Logged(r)' /\ r.ordinal <= Len(log)' /\ r.ordinal <= Len(log)' + r.item
      BY <1>1, <1>2, LoggedStays
<1>4. \A n \in DOMAIN log' : log'[n].kind = "observation" => log'[n] \in outbox
      BY <1>1 DEF OutboxLeads
<1>5. QED BY <1>3, <1>4 DEF OutboxLeads, DeliveredAreLogged, DbMoves, Pending

\* A row that is next in the log is appended without leaving a gap.
LEMMA RowIsLogged ==
    ASSUME IInv, OutboxLeads, DbMoves, UNCHANGED <<outbox, delivered>>,
           NEW r \in outbox, r.ordinal = Len(log) + 1, log' = Append(log, r)
    PROVE  OutboxLeads' /\ Pending' = Pending /\ Logged(r)'
<1>1. /\ log \in Seq(Events) /\ Len(log) \in Nat /\ Len(log)' = Len(log) + 1
      /\ outbox \in SUBSET Observations /\ WholeReveal(outbox)
      /\ \A q \in outbox : q \in Events /\ q.ordinal \in Nat /\ q.item \in Nat
      BY DEF IInv, TypeOK, OutboxLeads, Observations, Items, Events
<1>2. Logged(r)'
      BY <1>1 DEF Logged
<1>3. ASSUME NEW q \in outbox
      PROVE  /\ q.ordinal <= Len(log)' + q.item
             /\ Logged(q)' <=> q.ordinal <= Len(log)'
  <2>1. q.ordinal <= Len(log) + q.item /\ (Logged(q) <=> q.ordinal <= Len(log))
        BY DEF OutboxLeads
  <2>2. Logged(q)' <=> Logged(q) \/ q = r
    <3>1. Logged(q) => Logged(q)'
          BY <1>1, LoggedStays
    <3>2. Logged(q)' => Logged(q) \/ q = r
          BY <1>1 DEF Logged
    <3>3. QED BY <1>2, <3>1, <3>2
  <2>3. q.ordinal = Len(log) + 1 => q = r
        BY <1>1, OneRowEach
  <2>4. QED BY <1>1, <2>1, <2>2, <2>3
<1>4. \A n \in DOMAIN log' : log'[n].kind = "observation" => log'[n] \in outbox
      BY <1>1 DEF OutboxLeads
<1>5. DeliveredAreLogged'
      BY <1>1, LoggedStays DEF OutboxLeads, DeliveredAreLogged
<1>6. QED BY <1>2, <1>3, <1>4, <1>5 DEF OutboxLeads, DbMoves, Pending

\* A logged row that is marked leaves the pending ones.
LEMMA RowIsMarked ==
    ASSUME IInv, OutboxLeads, DbMoves, UNCHANGED <<outbox, log>>,
           NEW r \in outbox, Logged(r), delivered' = delivered \cup {r.item}
    PROVE  OutboxLeads' /\ Pending' \subseteq Pending \ {r}
<1>1. outbox \in SUBSET Observations /\ WholeReveal(outbox)
      BY DEF IInv, TypeOK, OutboxLeads
<1>2. \A q : Logged(q)' <=> Logged(q)
      BY DEF Logged
<1>3. \A q \in outbox : q.item = r.item => q = r
      BY <1>1, OneRowEach
<1>4. DeliveredAreLogged'
      BY <1>2, <1>3 DEF OutboxLeads, DeliveredAreLogged
<1>5. QED BY <1>2, <1>4 DEF OutboxLeads, DbMoves, Pending

\* A snapshot that is revealed follows only a quiz that is not.
LEMMA RevealIsNew ==
    ASSUME NEW m \in Machines, Coherent(m), m.state = "revealed",
           NEW q \in Machines, Coherent(q), m.initial = q.initial,
           q.version = m.version - 1
    PROVE  ~Revealed(q)
BY DEF Machines, Coherent, Revealed, ZeroWrong

\* A reveal is stored once, with the ordinals right after the log.
LEMMA RevealIsReserved ==
    ASSUME IInv, OutboxLeads, DbMoves, UNCHANGED <<delivered, log>>,
           NEW p \in Procs, PlansReveal(p), pc[p] = "save", rows[p] # {},
           quiz.version = snap[p].version - 1, OrdinalsFree(p),
           quiz' = snap[p], outbox' = outbox \cup rows[p]
    PROVE  OutboxLeads' /\ outbox = {}
<1>1. /\ snap[p] \in Machines /\ Coherent(snap[p]) /\ quiz \in Machines
      /\ Coherent(quiz) /\ snap[p].initial = quiz.initial
      /\ snap[p].state = "revealed" /\ WholeReveal(rows[p])
      /\ log \in Seq(Events) /\ Len(log) \in Nat
      /\ rows[p] \in SUBSET Observations
      BY DEF IInv, TypeOK, ReadsHold, Reads, PlansReveal
<1>2. outbox = {} /\ delivered = {}
      BY <1>1, RevealIsNew DEF OutboxLeads
<1>3. NextOrdinal = Len(log) + 1
  <2>1. {Len(log)} \cup {r.ordinal : r \in outbox} = {Len(log)}
        BY <1>2
  <2>2. Max({Len(log)}) = Len(log)
    <3>1. Len(log) \in Nat /\ {Len(log)} \in SUBSET Nat
          BY <1>1
    <3>2. {Len(log)} # {} /\ \A s \in {Len(log)} : s <= Len(log)
          BY <3>1
    <3>3. QED BY <3>1, <3>2, MaxIsElement
  <2>3. NextOrdinal = 1 + Max({Len(log)})
        BY <2>1 DEF NextOrdinal
  <2>4. NextOrdinal = 1 + Len(log) /\ Len(log) \in Nat
        BY <1>1, <2>2, <2>3
  <2>5. QED BY <2>4
<1>4. \A r \in rows[p] : /\ r.ordinal = Len(log) + r.item /\ r.item \in Nat \ {0}
                         /\ r.kind = "observation"
  <2>1. \A r \in rows[p] : r.item \in Nat \ {0} /\ r.kind = "observation"
        BY <1>1 DEF Observations, Items
  <2>2. \A r \in rows[p] : r.ordinal = Len(log) + 1 + r.item - 1
        BY <1>3 DEF OrdinalsFree
  <2>3. Len(log) \in Nat
        BY <1>1
  <2>4. QED BY <2>1, <2>2, <2>3
<1>5. \A r \in rows[p] : ~Logged(r)'
      BY <1>2, <1>4 DEF Logged, OutboxLeads
<1>6. \A n \in DOMAIN log : log[n].kind # "observation"
      BY <1>2 DEF OutboxLeads
<1>7. Revealed(quiz')
      BY <1>1 DEF Revealed
<1>8. outbox' = rows[p] /\ delivered' = {} /\ Len(log)' = Len(log)
      BY <1>2
<1>9. \A r \in rows[p] : r.ordinal <= Len(log)' + r.item /\ ~(r.ordinal <= Len(log)')
      BY <1>1, <1>4, <1>8
<1>10. QED BY <1>1, <1>2, <1>5, <1>6, <1>7, <1>8, <1>9 DEF OutboxLeads, DeliveredAreLogged

\* A drain that a step leaves alone stays in order.
LEMMA DrainsSurvive ==
    ASSUME IInv, NEW q \in Procs, DrainsInOrder(q), UNCHANGED <<pc[q], pend[q]>>,
           pc[q] \in {"append", "mark"} => Pending' \subseteq pend[q],
           log' = log \/ \E e \in Events : log' = Append(log, e)
    PROVE  DrainsInOrder(q)'
<1>1. log \in Seq(Events)
      BY DEF IInv, TypeOK
<1>2. \A r : Logged(r) => Logged(r)'
      BY <1>1, LoggedStays
<1>3. QED BY <1>2 DEF DrainsInOrder

\* The steps of a process that read the stores, or write the quiz alone.
Quiet(p) == ~(\/ AppendObservation(p) \/ MarkDelivered(p) \/ SaveTransition(p)
              \/ Complete(p))

\* A step of a process keeps every drain in order, and fails none.
LEMMA StepDrains ==
    ASSUME IInv, DrainInv, DbMoves, NEW p \in Procs, Step(p)
    PROVE  OutboxLeads' /\ UNCHANGED failed /\ \A q \in Procs : DrainsInOrder(q)'
<1> USE DEF IInv
<1>1. OutboxLeads /\ \A q \in Procs : PlansReveal(q) /\ DrainsInOrder(q)
      BY DEF DrainInv
<1>2. \A q \in Procs \ {p} : UNCHANGED <<pc[q], pend[q]>>
      BY StepIsLocal
<1>3. /\ log \in Seq(Events) /\ outbox \in SUBSET Observations
      /\ pend[p] \in SUBSET Observations /\ pend[p] \subseteq outbox
      /\ pc[p] \in {"append", "mark"} => pend[p] # {}
      BY DEF TypeOK, ReadsHold, Reads, CommandFits
<1>4. CASE Quiet(p)
  <2>1. UNCHANGED <<outbox, delivered, log, failed>>
        BY <1>4 DEF Step, Quiet, Authenticate, PendingObservations, LoadForInitial, SaveLock,
           ReloadLock, FromLocked, Resolve, LoadForRevision, Stamp, Reauthenticate,
           ReloadOutcome, Reply, CheckReplay, LoadForCompletion, Close, db, Keep, Refuse
  <2>2. OutboxLeads' /\ Pending' = Pending
        BY <1>1, <2>1, OutboxRests DEF Pending
  <2>3. \A q \in Procs \ {p} : DrainsInOrder(q)'
        BY <1>1, <1>2, <2>1, <2>2, DrainsSurvive DEF DrainsInOrder
  <2>4. DrainsInOrder(p)'
    <3>1. CASE PendingObservations(p)
      <4>1. pend'[p] = Pending /\ pc'[p] # "mark"
            BY <3>1 DEF PendingObservations, TypeOK, Goto, AfterDrain
      <4>2. QED BY <2>2, <4>1 DEF DrainsInOrder
    <3>2. CASE ~PendingObservations(p)
      <4>1. pc'[p] \notin {"append", "mark"}
            BY <1>4, <3>2 DEF TypeOK, Quiet, Step, Authenticate, LoadForInitial, SaveLock, ReloadLock,
               FromLocked, Resolve, LoadForRevision, Stamp, Reauthenticate,
               ReloadOutcome, Reply, CheckReplay, LoadForCompletion, Close, Keep,
               Goto, Refuse, Finish
      <4>2. QED BY <4>1 DEF DrainsInOrder
    <3>3. QED BY <3>1, <3>2
  <2>5. QED BY <2>1, <2>2, <2>3, <2>4
<1>5. CASE AppendObservation(p)
  <2>0. PICK r : r = Earliest(pend[p])
        OBVIOUS
  <2>1. /\ r \in outbox /\ r \in Events /\ DeliveredAreLogged
        /\ Logged(r) \/ Appendable(r)
        /\ pc[p] = "append"
        BY <1>1, <1>3, <1>5, <2>0, AppendsNext DEF AppendObservation, OutboxLeads, Events
  <2>2. /\ Keep(p, snap[p], "mark") /\ UNCHANGED <<outbox, delivered, failed>>
        /\ \/ Logged(r) /\ UNCHANGED log
           \/ r.ordinal = Len(log) + 1 /\ log' = Append(log, r)
        BY <1>5, <2>0, <2>1 DEF AppendObservation, Keep, Appendable
  <2>3. OutboxLeads' /\ Pending' = Pending /\ Logged(r)'
    <3>1. CASE Logged(r) /\ UNCHANGED log
          BY <1>1, <2>2, <3>1, OutboxRests DEF Pending, Logged
    <3>2. CASE r.ordinal = Len(log) + 1 /\ log' = Append(log, r)
          BY <1>1, <2>1, <2>2, <3>2, RowIsLogged
    <3>3. QED BY <2>2, <3>1, <3>2
  <2>4. \A q \in Procs \ {p} : DrainsInOrder(q)'
        BY <1>1, <1>2, <2>1, <2>2, <2>3, DrainsSurvive DEF DrainsInOrder
  <2>5. DrainsInOrder(p)'
    <3>1. pend'[p] = pend[p] /\ Pending \subseteq pend[p]
          BY <1>1, <2>1, <2>2, KeepEffect DEF DrainsInOrder
    <3>2. Earliest(pend'[p]) = r
          BY <2>0, <3>1
    <3>3. QED BY <2>3, <3>1, <3>2 DEF DrainsInOrder
  <2>6. QED BY <2>2, <2>3, <2>4, <2>5
<1>6. CASE MarkDelivered(p)
  <2> DEFINE r == Earliest(pend[p])
  <2>1. r \in outbox /\ r \in pend[p] /\ Logged(r) /\ pc[p] = "mark"
        BY <1>1, <1>3, <1>6, EarliestIsElement DEF MarkDelivered, DrainsInOrder
  <2>2. /\ delivered' = delivered \cup {r.item}
        /\ pend'[p] = pend[p] \ {r} /\ pc'[p] # "mark"
        /\ UNCHANGED <<outbox, log, failed>>
        BY <1>6, <2>1 DEF MarkDelivered, TypeOK, Goto, AfterDrain
  <2> HIDE DEF r
  <2>3. OutboxLeads' /\ Pending' \subseteq Pending \ {r}
        BY <1>1, <2>1, <2>2, RowIsMarked
  <2>4. \A q \in Procs \ {p} : DrainsInOrder(q)'
        BY <1>1, <1>2, <2>2, <2>3, DrainsSurvive DEF DrainsInOrder
  <2>5. DrainsInOrder(p)'
        BY <1>1, <2>1, <2>2, <2>3 DEF DrainsInOrder
  <2>6. QED BY <2>2, <2>3, <2>4, <2>5
<1>7. CASE SaveTransition(p)
  <2>1. pc[p] = "save" /\ pc'[p] \notin {"append", "mark"} /\ UNCHANGED <<delivered, log, failed>>
        BY <1>7 DEF SaveTransition, TypeOK, Keep, Goto, Refuse, Finish
  <2>2. DrainsInOrder(p)'
        BY <2>1 DEF DrainsInOrder
  <2>3. CASE UNCHANGED outbox
    <3>1. OutboxLeads' /\ Pending' = Pending
          BY <1>1, <2>1, <2>3, OutboxRests DEF Pending
    <3>2. QED BY <1>1, <1>2, <2>1, <2>2, <3>1, DrainsSurvive DEF DrainsInOrder
  <2>4. CASE /\ rows[p] # {} /\ quiz.version = snap[p].version - 1 /\ OrdinalsFree(p)
             /\ quiz' = snap[p] /\ outbox' = outbox \cup rows[p]
    <3>1. OutboxLeads' /\ outbox = {}
          BY <1>1, <2>1, <2>4, RevealIsReserved
    <3>2. \A q \in Procs : pc[q] \notin {"append", "mark"}
          BY <3>1 DEF ReadsHold, Reads, CommandFits
    <3>3. \A q \in Procs \ {p} : DrainsInOrder(q)'
          BY <1>2, <3>2 DEF DrainsInOrder
    <3>4. QED BY <2>1, <2>2, <3>1, <3>3
  <2>5. QED BY <1>7, <2>3, <2>4 DEF SaveTransition
<1>8. CASE Complete(p)
  <2>1. /\ pc[p] = "complete" /\ pc'[p] \notin {"append", "mark"}
        /\ UNCHANGED <<outbox, delivered, failed>>
        /\ UNCHANGED log \/ (~OrdinalReserved /\ log' = Append(log, CompletionEvent(cmd[p])))
        BY <1>8 DEF Complete, TypeOK, Keep, Goto, Refuse, Finish
  <2>2. /\ CompletionEvent(cmd[p]) \in Events
        /\ CompletionEvent(cmd[p]).kind # "observation"
    <3>1. cmd[p] \in Completions
          BY <2>1 DEF ReadsHold, Reads, CommandFits, Commands, QuizCommands
    <3>2. QED BY <3>1 DEF Completions, CompletionEvent, Events, CompletionEvents, TypeOK
  <2>3. OutboxLeads' /\ Pending' = Pending
        BY <1>1, <2>1, <2>2, OutboxRests, OtherEvents DEF Pending
  <2>4. \A q \in Procs \ {p} : DrainsInOrder(q)'
        BY <1>1, <1>2, <2>1, <2>2, <2>3, DrainsSurvive DEF DrainsInOrder
  <2>5. DrainsInOrder(p)'
        BY <2>1 DEF DrainsInOrder
  <2>6. QED BY <2>1, <2>3, <2>4, <2>5
<1>9. QED BY <1>4, <1>5, <1>6, <1>7, <1>8 DEF Quiet

\* So does every other step.
LEMMA OthersDrain ==
    ASSUME IInv, DrainInv, Others
    PROVE  DrainInv'
<1>1. /\ OutboxLeads /\ \A q \in Procs : PlansReveal(q) /\ DrainsInOrder(q)
      /\ DbMoves /\ UNCHANGED <<quiz, outbox, acked>>
      BY OthersMove DEF DrainInv
<1>2. /\ UNCHANGED <<delivered, failed>>
      /\ \/ UNCHANGED log
         \/ ~OrdinalReserved /\ log' = Append(log, CampaignEvent("campaign"))
      BY DEF Others, Abandon, Refuse, Begin, OpenSession, OtherProgression, vars, db
<1>3. CampaignEvent("campaign") \in Events /\ CampaignEvent("campaign").kind # "observation"
      BY DEF CampaignEvent, Events, CampaignEvents, IInv, TypeOK
<1>4. OutboxLeads' /\ Pending' = Pending
      BY <1>1, <1>2, <1>3, OutboxRests, OtherEvents DEF Pending
<1>5. ASSUME NEW q \in Procs PROVE PlansReveal(q)' /\ DrainsInOrder(q)'
  <2>1. CASE UNCHANGED <<pc[q], cmd[q], snap[q], pend[q], rows[q]>>
    <3>1. DrainsInOrder(q)'
          BY <1>1, <1>2, <1>3, <1>4, <2>1, DrainsSurvive DEF DrainsInOrder
    <3>2. QED BY <1>1, <2>1, <3>1 DEF PlansReveal
  <2>2. CASE Abandon(q)
    <3>1. pc'[q] = "idle" /\ rows'[q] = {}
          BY <2>2 DEF Abandon, Refuse, Finish, Goto, IInv, TypeOK
    <3>2. QED BY <3>1 DEF PlansReveal, DrainsInOrder
  <2>3. CASE \E c \in Commands : Begin(q, c)
    <3>1. pc'[q] = "authenticate" /\ rows'[q] = {}
          BY <2>3, BeginReads DEF Begin, Goto, IInv, TypeOK
    <3>2. QED BY <3>1 DEF PlansReveal, DrainsInOrder
  <2>4. QED BY <2>1, <2>2, <2>3, OthersAreLocal
<1>6. QED BY <1>2, <1>4, <1>5 DEF DrainInv, DrainNeverFails

\* Every step keeps the drains in order.
LEMMA NextDrain == IInv /\ DrainInv /\ [Next]_vars => DrainInv'
<1> SUFFICES ASSUME IInv, DrainInv, [Next]_vars PROVE DrainInv'
    OBVIOUS
<1>1. CASE Others
      BY <1>1, OthersDrain
<1>2. CASE \E p \in Procs : Step(p)
  <2>1. PICK p \in Procs : Step(p)
        BY <1>2
  <2>2. DbMoves
        BY <2>1, StepMoves
  <2>3. PlansReveal(p)'
        BY <2>1, StepPlansReveal DEF DrainInv
  <2>4. \A q \in Procs \ {p} : PlansReveal(q)'
        BY <2>1, StepIsLocal DEF DrainInv, PlansReveal
  <2>5. OutboxLeads' /\ UNCHANGED failed /\ \A q \in Procs : DrainsInOrder(q)'
        BY <2>1, <2>2, StepDrains
  <2>6. QED BY <2>3, <2>4, <2>5 DEF DrainInv, DrainNeverFails
<1>3. QED BY <1>1, <1>2 DEF Next, Others

\* The outbox and the log agree in every reachable state.
LEMMA DrainInvariance == Spec => [](IInv /\ DrainInv)
<1>1. Init => IInv /\ DrainInv
      BY InitInv, InitDrain
<1>2. IInv /\ DrainInv /\ [Next]_vars => IInv' /\ DrainInv'
      BY NextInv, NextDrain
<1>3. QED BY <1>1, <1>2, PTL DEF Spec

\* No drain is ever answered with integrity_failure, however many processes
\* drain the same rows, append competing events, die or start over: the profile
\* log always takes the row that the outbox has next.
THEOREM DrainsSucceed == Spec => []DrainNeverFails
<1>1. IInv /\ DrainInv => DrainNeverFails
      BY DEF DrainInv
<1>2. QED BY DrainInvariance, <1>1, PTL

-----------------------------------------------------------------------------
(* Every behaviour of the service is one of the two-pass quiz.              *)

AbstractVars == <<Phase, LockedSheet, ScoredSheet, Told, Recorded>>

\* A step that changes neither the stored quiz, nor the answers, nor what is
\* recorded is not seen by the learner.
LEMMA Unseen ==
    ASSUME UNCHANGED <<quiz, acked>>, UNCHANGED Recorded
    PROVE  UNCHANGED AbstractVars
BY DEF AbstractVars, Phase, LockedSheet, ScoredSheet, Told

\* Neither is a step that stores or tells nothing and appends no observation.
LEMMA RecordedStays ==
    ASSUME log \in Seq(Events), NEW e, e.kind # "observation",
           log' = log \/ log' = Append(log, e)
    PROVE  UNCHANGED Recorded
BY DEF Recorded

\* Appending an observation records its item.
LEMMA RecordedGrows ==
    ASSUME log \in Seq(Events), NEW r \in Observations, log' = Append(log, r)
    PROVE  Recorded' = Recorded \cup {r.item}
<1>1. r.kind = "observation" /\ r.item \in Items
      BY DEF Observations
<1>2. /\ Len(log') = Len(log) + 1 /\ Len(log) \in Nat
      /\ \A n \in DOMAIN log : n \in DOMAIN log' /\ log'[n] = log[n]
      /\ \A n \in DOMAIN log' : n \in DOMAIN log \/ n = Len(log) + 1
      /\ Len(log) + 1 \in DOMAIN log' /\ log'[Len(log) + 1] = r
      BY DEF Events
<1>3. QED BY <1>1, <1>2 DEF Recorded

\* Storing the lock locks the first pass.
LEMMA LockRefines ==
    ASSUME IInv, NEW p \in Procs, SaveLock(p), quiz' # quiz
    PROVE  TwoPass!Lock
<1> USE DEF IInv
<1>1. /\ snap[p] = LockInitial(ReadyMachine, Submission(cmd[p])) /\ quiz' = snap[p]
      /\ quiz.version = snap[p].version - 1 /\ UNCHANGED <<log, acked>>
      /\ Coherent(quiz) /\ quiz \in Machines
      BY DEF SaveLock, Reads, ReadsHold, TypeOK, Keep
<1>2. cmd[p] \in QuizCommands
      BY DEF SaveLock, ReadsHold, Reads, CommandFits, Commands, Completions
<1>3. Submission(cmd[p]) \in Submissions /\ Submission(cmd[p]) # NoSubmission
      BY <1>2, SubmissionType
<1>4. /\ quiz'.state = "initial_locked" /\ quiz'.version = 2
      /\ quiz'.initial = Submission(cmd[p])
  <2>1. snap[p] = [ReadyMachine EXCEPT !.state = "initial_locked",
                                       !.version = ReadyMachine.version + 1,
                                       !.initial = Submission(cmd[p])]
        BY <1>1 DEF LockInitial
  <2>2. /\ snap[p].state = "initial_locked" /\ snap[p].version = 2
        /\ snap[p].initial = Submission(cmd[p])
        BY <2>1 DEF ReadyMachine
  <2>3. QED BY <1>1, <2>2
<1>5. quiz.version = 1
      BY <1>1, <1>4 DEF Machines
<1>6. quiz.state = "ready" /\ quiz = ReadyMachine
      BY <1>1, <1>5 DEF Coherent, Revealed, Machines, States
<1>7. Phase = "open" /\ Phase' = "locked"
      BY <1>4, <1>6 DEF Phase
<1>8. LockedSheet' \in Sheets
      BY <1>3, <1>4 DEF LockedSheet, Submissions
<1>9. ScoredSheet = NoSubmission /\ ScoredSheet' = NoSubmission
      BY <1>4, <1>6 DEF ScoredSheet, Revealed
<1>10. UNCHANGED <<Told, Recorded>>
      BY <1>1 DEF Told, Recorded
<1>11. QED BY <1>7, <1>8, <1>9, <1>10 DEF TwoPass!Lock

\* Storing a score or a reveal scores the first pass, or revises it.
LEMMA SaveRefines ==
    ASSUME IInv, NEW p \in Procs, SaveTransition(p), quiz' # quiz
    PROVE  TwoPass!Score \/ TwoPass!Revise
<1> USE DEF IInv
<1>1. /\ quiz' = snap[p] /\ quiz.version = snap[p].version - 1
      /\ UNCHANGED <<log, acked>> /\ Reads(p) /\ pc[p] = "save"
      /\ Coherent(quiz) /\ quiz \in Machines
      /\ Coherent(snap[p]) /\ snap[p] \in Machines
      BY DEF SaveTransition, Reads, ReadsHold, TypeOK, Keep
<1>2. /\ snap[p].initial = quiz.initial /\ quiz.initial # NoSubmission
      /\ snap[p].state \in {"revision_open", "revealed"}
      BY <1>1 DEF Reads, Coherent
<1>3. quiz.initial \in Submissions /\ (ZeroWrong(snap[p]) <=> ZeroWrong(quiz))
      BY <1>1, <1>2 DEF Machines, ZeroWrong
<1>4. UNCHANGED <<Told, Recorded, LockedSheet>> /\ LockedSheet = quiz.initial.sheet
      BY <1>1, <1>2 DEF Told, Recorded, LockedSheet
<1>5. CASE snap[p].state = "revision_open" \/ ZeroWrong(snap[p])
  <2>1. quiz.version = 2
        BY <1>1, <1>2, <1>5 DEF Coherent, Revealed, Machines
  <2>2. quiz.state = "initial_locked"
        BY <1>1, <1>2, <2>1 DEF Coherent, ReadyMachine, Revealed, Machines, States
  <2>3. /\ Phase = "locked" /\ ScoredSheet = NoSubmission
        /\ Phase' = IF snap[p].state = "revealed" THEN "revealed" ELSE "revising"
        BY <1>1, <1>2, <2>2 DEF Phase, ScoredSheet, Revealed
  <2>4. snap[p].state = "revealed" <=> ZeroWrong(quiz)
        BY <1>1, <1>2, <1>3, <1>5 DEF Coherent
  <2>5. ScoredSheet' = IF ZeroWrong(quiz) THEN quiz.initial.sheet ELSE NoSubmission
        BY <1>1, <1>2, <1>3, <2>4 DEF ScoredSheet, Revealed, FinalSheet, Coherent
  <2>6. QED BY <1>4, <2>3, <2>4, <2>5 DEF TwoPass!Score, ZeroWrong
<1>6. CASE snap[p].state = "revealed" /\ ~ZeroWrong(snap[p])
  <2>1. quiz.version = 3 /\ snap[p].revision # NoSubmission
        BY <1>1, <1>6 DEF Coherent, Revealed, Machines
  <2>2. quiz.state = "revision_open"
        BY <1>1, <1>2, <1>3, <1>6, <2>1
           DEF Coherent, ReadyMachine, Revealed, Machines, States
  <2>3. Phase = "revising" /\ Phase' = "revealed" /\ ScoredSheet' = snap[p].revision.sheet
        BY <1>1, <1>6, <2>1, <2>2 DEF Phase, ScoredSheet, Revealed, FinalSheet
  <2>4. snap[p].revision.sheet \in Sheets
        BY <1>1, <2>1 DEF Machines, Submissions
  <2>5. QED BY <1>4, <2>3, <2>4 DEF TwoPass!Revise
<1>7. QED BY <1>2, <1>5, <1>6

\* Closing the batch closes the quiz.
LEMMA CloseRefines ==
    ASSUME IInv, NEW p \in Procs, Close(p), quiz' # quiz
    PROVE  TwoPass!Close
<1>1. /\ quiz.state = "revealed" /\ quiz' = CloseQuiz(quiz) /\ UNCHANGED <<log, acked>>
      /\ quiz \in Machines /\ Coherent(quiz)
      BY DEF Close, Refuse, IInv, TypeOK, ReadsHold
<1>2. /\ quiz'.state = "closed" /\ quiz'.initial = quiz.initial
      /\ quiz'.revision = quiz.revision
      BY <1>1, CloseQuizOK
<1>3. QED BY <1>1, <1>2 DEF TwoPass!Close, Phase, LockedSheet, ScoredSheet, Told,
          Recorded, Revealed, FinalSheet

\* An answer tells the count of a scored quiz, or the truth of a revealed one.
LEMMA ReplyRefines ==
    ASSUME IInv, NEW p \in Procs, Reply(p)
    PROVE  TwoPass!TellCount \/ TwoPass!TellTruth
<1> USE DEF IInv
<1>1. /\ pc[p] = "reply" /\ UNCHANGED <<quiz, log>>
      /\ acked' = acked \cup {Disclosure(part, snap[p]) : part \in Answer(p)}
      /\ Settled(p) /\ Coherent(quiz) /\ Coherent(snap[p])
      /\ quiz \in Machines /\ snap[p] \in Machines
      BY DEF Reply, db, ReadsHold, Reads, TypeOK
<1>2. Told' = Told \cup Answer(p)
  <2>1. \A part \in Answer(p) : Disclosure(part, snap[p]).part = part
        BY DEF Disclosure, Answer
  <2>2. QED BY <1>1, <2>1 DEF Told
<1>3. UNCHANGED <<Phase, LockedSheet, ScoredSheet, Recorded>>
      BY <1>1 DEF Phase, LockedSheet, ScoredSheet, Recorded
<1>4. Resolved(quiz) /\ snap[p].initial = quiz.initial
      BY <1>1 DEF Settled
<1>5. CASE "truth" \in Answer(p)
  <2>1. Revealed(quiz)
    <3>1. CASE cmd[p].kind = "revision"
          BY <1>1, <3>1 DEF Settled, Coherent, Resolved, Revealed
    <3>2. CASE ZeroWrong(quiz)
          BY <1>1, <1>4, <3>2 DEF Coherent, Resolved, Revealed
    <3>3. QED BY <1>4, <1>5, <3>1, <3>2 DEF Answer, ZeroWrong
  <2>2. Phase \in {"revealed", "closed"}
        BY <2>1 DEF Phase, Revealed
  <2>3. \E also \in SUBSET {"count"} : Answer(p) = {"truth"} \cup also
    <3>1. CASE Answer(p) = {"truth"}
      <4>1. {} \in SUBSET {"count"} /\ {"truth"} = {"truth"} \cup {}
            OBVIOUS
      <4>2. QED BY <3>1, <4>1
    <3>2. CASE Answer(p) = {"count", "truth"}
      <4>1. {"count"} \in SUBSET {"count"} /\ {"count", "truth"} = {"truth"} \cup {"count"}
            OBVIOUS
      <4>2. QED BY <3>2, <4>1
    <3>3. QED BY <1>5, <3>1, <3>2 DEF Answer
  <2>4. \E also \in SUBSET {"count"} : Told' = Told \cup {"truth"} \cup also
        BY <1>2, <2>3
  <2>5. QED BY <1>3, <2>2, <2>4 DEF TwoPass!TellTruth
<1>6. CASE "truth" \notin Answer(p)
  <2>1. Answer(p) = {"count"}
        BY <1>6 DEF Answer
  <2>2. Phase \in {"revising", "revealed", "closed"}
        BY <1>4 DEF Phase, Resolved
  <2>3. QED BY <1>2, <1>3, <2>1, <2>2 DEF TwoPass!TellCount
<1>7. QED BY <1>5, <1>6

\* An observation appended records an item of a revealed quiz, for the first
\* time.
LEMMA AppendRefines ==
    ASSUME IInv, DrainInv, NEW p \in Procs, AppendObservation(p), log' # log
    PROVE  \E i \in Items : TwoPass!Record(i)
<1>0. PICK r : r = Earliest(pend[p])
      OBVIOUS
<1>1. /\ r \in outbox /\ r \in Observations /\ log \in Seq(Events)
      /\ Logged(r) \/ Appendable(r)
      BY <1>0, AppendsNext DEF AppendObservation, IInv, TypeOK
<1>2. /\ UNCHANGED <<quiz, acked>> /\ log' = Append(log, r) /\ Appendable(r)
      BY <1>0 DEF AppendObservation, Keep
<1>3. Recorded' = Recorded \cup {r.item}
      BY <1>1, <1>2, RecordedGrows
<1>4. Revealed(quiz)
      BY <1>1 DEF DrainInv, OutboxLeads
<1>5. Phase \in {"revealed", "closed"}
      BY <1>4 DEF Phase, Revealed
<1>6. r.item \in Items /\ r.item \notin Recorded
      BY <1>1, <1>2 DEF Appendable, Observations
<1>7. UNCHANGED <<Phase, LockedSheet, ScoredSheet, Told>>
      BY <1>2 DEF Phase, LockedSheet, ScoredSheet, Told
<1>8. TwoPass!Record(r.item)
      BY <1>3, <1>5, <1>6, <1>7 DEF TwoPass!Record
<1>9. QED BY <1>6, <1>8

\* Initial states map to initial states.
LEMMA InitRefines == Init => TwoPass!Init
BY DEF Init, ReadyMachine, CampaignEvent, TwoPass!Init, Phase, LockedSheet,
       ScoredSheet, Told, Recorded, Revealed

\* Every step is one of the two-pass quiz, or is not seen by the learner.
LEMMA NextRefines ==
    ASSUME IInv, DrainInv, [Next]_vars
    PROVE  TwoPass!Next \/ UNCHANGED AbstractVars
<1>0. log \in Seq(Events)
      BY DEF IInv, TypeOK
<1>1. CASE Others
  <2>1. UNCHANGED <<quiz, acked>>
        BY <1>1, OthersMove
  <2>2. log' = log \/ log' = Append(log, CampaignEvent("campaign"))
        BY <1>1 DEF Others, Abandon, Begin, OpenSession, OtherProgression, vars, db
  <2>3. CampaignEvent("campaign").kind # "observation"
        BY DEF CampaignEvent
  <2>4. QED BY <1>0, <2>1, <2>2, <2>3, RecordedStays, Unseen
<1>2. ASSUME NEW p \in Procs, Step(p)
      PROVE  TwoPass!Next \/ UNCHANGED AbstractVars
  <2>1. CASE SaveLock(p)
    <3>1. UNCHANGED <<log, acked>>
          BY <2>1 DEF SaveLock, Keep
    <3>2. QED BY <2>1, <3>1, LockRefines, Unseen DEF TwoPass!Next, Recorded
  <2>2. CASE SaveTransition(p)
    <3>1. UNCHANGED <<log, acked>>
          BY <2>2 DEF SaveTransition, Keep, Refuse
    <3>2. QED BY <2>2, <3>1, SaveRefines, Unseen DEF TwoPass!Next, Recorded
  <2>3. CASE Close(p)
    <3>1. UNCHANGED <<log, acked>>
          BY <2>3 DEF Close, Refuse
    <3>2. QED BY <2>3, <3>1, CloseRefines, Unseen DEF TwoPass!Next, Recorded
  <2>4. CASE Reply(p)
        BY <2>4, ReplyRefines DEF TwoPass!Next
  <2>5. CASE AppendObservation(p)
    <3>1. UNCHANGED <<quiz, acked>>
          BY <2>5, AppendsNext DEF AppendObservation, Keep, Fail
    <3>2. QED BY <2>5, <3>1, AppendRefines, Unseen DEF TwoPass!Next, Recorded
  <2>6. CASE Complete(p)
    <3>1. /\ UNCHANGED <<quiz, acked>>
          /\ log' = log \/ log' = Append(log, CompletionEvent(cmd[p]))
          BY <2>6 DEF Complete, Keep, Refuse
    <3>2. CompletionEvent(cmd[p]).kind # "observation"
          BY DEF CompletionEvent
    <3>3. QED BY <1>0, <3>1, <3>2, RecordedStays, Unseen
  <2>7. CASE UNCHANGED <<quiz, acked, log>>
        BY <2>7, Unseen DEF Recorded
  <2>8. QED BY <1>2, <2>1, <2>2, <2>3, <2>4, <2>5, <2>6, <2>7
        DEF Step, Authenticate, PendingObservations, MarkDelivered, LoadForInitial,
            ReloadLock, FromLocked, Resolve, LoadForRevision, Stamp, Reauthenticate,
            ReloadOutcome, CheckReplay, LoadForCompletion, Keep, Refuse, Fail, db
<1>3. QED BY <1>1, <1>2 DEF Next, Others

\* The service, with all its processes, retries, crashes and sessions, is the
\* two-pass quiz: one first pass, scored once, at most one revision, the truth
\* told only after the reveal, and each item recorded once and only then.
THEOREM Refinement == Spec => ImplementsTwoPass
<1>1. Init => TwoPass!Init
      BY InitRefines
<1>2. IInv /\ DrainInv /\ [Next]_vars => [TwoPass!Next]_(TwoPass!vars)
      BY NextRefines DEF TwoPass!vars, AbstractVars
<1>3. QED BY <1>1, <1>2, DrainInvariance, PTL DEF Spec, ImplementsTwoPass, TwoPass!Spec

-----------------------------------------------------------------------------
(* The row that a snapshot stands for.                                      *)

\* What the row says of the first pass, and in the end.
Score(m) == [wrong |-> WrongCount(m), revisionRequired |-> WrongCount(m) > 0]

LastSubmission(m) == IF m.revision = None THEN m.initial ELSE m.revision

Truth(m) == IF m.revision = None THEN BuildFinalResult(m.initial, m.initial, FALSE)
                                 ELSE BuildFinalResult(m.initial, m.revision, TRUE)

TableRows == [state : States, version : 1..5,
              initial : Submissions \cup {None},
              initialResult : InitialResults \cup {None},
              initialReceipt : Receipts \cup {None},
              revision : Submissions \cup {None},
              revisionReceipt : Receipts \cup {None},
              final : FinalResults \cup {None}]

\* Items answered otherwise than by the key, counted.
LEMMA Counting ==
    ASSUME NEW sub \in Submissions
    PROVE  /\ Selections(sub) \in [Items -> Options]
           /\ \A i \in Items : Selections(sub)[i] = "key" <=> i \in sub.sheet
           /\ Wrong(Selections(sub)) = Cardinality(Items \ sub.sheet)
           /\ Wrong(Selections(sub)) \in 0..NumItems
           /\ NumItems - Wrong(Selections(sub)) = Cardinality(sub.sheet)
           /\ Wrong(Selections(sub)) = 0 <=> sub.sheet = Items
<1>1. sub.sheet \in SUBSET Items
  BY SheetsAssumption DEF Submissions
<1>2. \A i \in Items : /\ Selections(sub)[i] = IF i \in sub.sheet THEN "key" ELSE "other"
                       /\ Selections(sub)[i] \in Options
  BY DEF Selections, Options
<1>3. {i \in Items : Selections(sub)[i] # "key"} = Items \ sub.sheet
  BY <1>2
<1>4. IsFiniteSet(Items) /\ Cardinality(Items) = NumItems
  BY FS_Interval, NumItemsAssumption DEF Items
<1>5. IsFiniteSet(sub.sheet) /\ Cardinality(sub.sheet) \in Nat
  BY <1>1, <1>4, FS_Subset, FS_CardinalityType
<1>6. /\ IsFiniteSet(Items \ sub.sheet) /\ Cardinality(Items \ sub.sheet) \in Nat
      /\ Cardinality(Items \ sub.sheet) = NumItems - Cardinality(Items \cap sub.sheet)
  BY <1>4, FS_Difference, FS_CardinalityType
<1>7. Items \cap sub.sheet = sub.sheet
  BY <1>1
<1>8. Cardinality(Items \ sub.sheet) = 0 <=> Items \ sub.sheet = {}
  BY <1>6, FS_EmptySet
<1>9. Selections(sub) \in [Items -> Options]
  BY <1>2 DEF Selections
<1>10. Wrong(Selections(sub)) = Cardinality(Items \ sub.sheet)
  BY <1>3 DEF Wrong
<1>. QED  BY <1>1, <1>2, <1>5, <1>6, <1>7, <1>8, <1>9, <1>10, NumItemsAssumption

\* A judgement of an item says what it is about.
LEMMA JudgementIs ==
    ASSUME NEW a \in Options, NEW b \in Options
    PROVE  /\ ItemResult(a, b) \in ItemResults
           /\ ItemResult(a, b).first = a /\ ItemResult(a, b).final = b
           /\ ItemResult(a, b).firstCorrect = (a = "key")
           /\ ItemResult(a, b).finalCorrect = (b = "key")
           /\ ItemResult(a, b).selfCorrected = (a # "key" /\ b = "key")
<1>1. (a = "key" \/ a = "other") /\ (b = "key" \/ b = "other")
  BY DEF Options
<1>2. \A x, y, u, v, w, e :
        LET r == [first |-> x, final |-> y, firstCorrect |-> u, finalCorrect |-> v,
                  selfCorrected |-> w, possibleError |-> e] IN
        /\ r.first = x /\ r.final = y /\ r.firstCorrect = u
        /\ r.finalCorrect = v /\ r.selfCorrected = w
        /\ x \in Options /\ y \in Options /\ u \in BOOLEAN /\ v \in BOOLEAN
           /\ w \in BOOLEAN /\ e \in Options \cup {None} => r \in ItemResults
  BY DEF ItemResults
<1>. QED
  <2>1. (IF b = "key" THEN (IF a = "key" THEN None ELSE a) ELSE b) \in Options \cup {None}
    OBVIOUS
  <2>. QED  BY <1>2, <2>1 DEF ItemResult

\* A final result judges each item by both submissions.
Judges(f, one, two) ==
    /\ f \in FinalResults /\ f # None
    /\ f.firstWrong = Wrong(Selections(one))
    /\ f.finalCorrect = NumItems - Wrong(Selections(two))
    /\ \A i \in Items :
          /\ f.items[i].first = Selections(one)[i]
          /\ f.items[i].final = Selections(two)[i]
          /\ f.items[i].firstCorrect = (Selections(one)[i] = "key")
          /\ f.items[i].finalCorrect = (Selections(two)[i] = "key")
          /\ f.items[i].selfCorrected =
                 (Selections(one)[i] # "key" /\ Selections(two)[i] = "key")

\* The final result of two submissions judges every item by them.
LEMMA FinalResultIs ==
    ASSUME NEW one \in Submissions, NEW two \in Submissions, NEW used \in BOOLEAN
    PROVE  LET f == BuildFinalResult(one, two, used) IN
           f \in FinalResults /\ Judges(f, one, two) /\ f.revisionUsed = used
<1> DEFINE f == BuildFinalResult(one, two, used)
           items == [i \in Items |-> ItemResult(Selections(one)[i], Selections(two)[i])]
<1>1. /\ Wrong(Selections(one)) \in 0..NumItems
      /\ NumItems - Wrong(Selections(two)) \in 0..NumItems
      /\ \A i \in Items : Selections(one)[i] \in Options /\ Selections(two)[i] \in Options
  <2>1. Selections(one) \in [Items -> Options] /\ Wrong(Selections(one)) \in 0..NumItems
    BY Counting
  <2>2. Selections(two) \in [Items -> Options] /\ Wrong(Selections(two)) \in 0..NumItems
    BY Counting
  <2>. QED  BY <2>1, <2>2, NumItemsAssumption
<1>2. \A a \in Options, b \in Options :
          /\ ItemResult(a, b) \in ItemResults
          /\ ItemResult(a, b).first = a /\ ItemResult(a, b).final = b
          /\ ItemResult(a, b).firstCorrect = (a = "key")
          /\ ItemResult(a, b).finalCorrect = (b = "key")
          /\ ItemResult(a, b).selfCorrected = (a # "key" /\ b = "key")
  BY JudgementIs
<1>3. items \in [Items -> ItemResults]
  BY <1>1, <1>2
<1>4. f = [firstWrong |-> Wrong(Selections(one)),
           finalCorrect |-> NumItems - Wrong(Selections(two)),
           revisionUsed |-> used, items |-> items]
  BY DEF BuildFinalResult
<1>5. f \in FinalResults
  BY <1>1, <1>3, <1>4 DEF FinalResults
<1>6. f # None
  BY <1>5, NoneAssumption
<1>7. \A i \in Items : f.items[i] = ItemResult(Selections(one)[i], Selections(two)[i])
  BY <1>4
<1>. HIDE DEF f, items
<1>8. \A i \in Items :
          /\ f.items[i].first = Selections(one)[i]
          /\ f.items[i].final = Selections(two)[i]
          /\ f.items[i].firstCorrect = (Selections(one)[i] = "key")
          /\ f.items[i].finalCorrect = (Selections(two)[i] = "key")
          /\ f.items[i].selfCorrected =
                 (Selections(one)[i] # "key" /\ Selections(two)[i] = "key")
  BY <1>1, <1>2, <1>7
<1>9. /\ f.firstWrong = Wrong(Selections(one))
      /\ f.finalCorrect = NumItems - Wrong(Selections(two))
      /\ f.revisionUsed = used
  BY <1>4
<1>10. Judges(f, one, two)
  BY <1>5, <1>6, <1>8, <1>9 DEF Judges
<1>. QED  BY <1>5, <1>9, <1>10 DEF f

\* A first pass is scored as WrongCount scores it.
LEMMA ScoreIs ==
    ASSUME NEW m \in Machines, m.initial # NoSubmission
    PROVE  /\ m.initial \in Submissions
           /\ WrongCount(m) \in 0..NumItems
           /\ WrongCount(m) = Wrong(Selections(m.initial))
           /\ WrongCount(m) = 0 <=> ZeroWrong(m)
           /\ Score(m) \in InitialResults /\ Score(m) # None
<1>1. m.initial \in Submissions
  BY DEF Machines
<1>2. /\ WrongCount(m) \in 0..NumItems
      /\ WrongCount(m) = Wrong(Selections(m.initial))
      /\ WrongCount(m) = 0 <=> ZeroWrong(m)
  BY <1>1, Counting DEF WrongCount, ZeroWrong
<1>3. Score(m) \in InitialResults
  BY <1>2 DEF Score, InitialResults
<1>. QED  BY <1>1, <1>2, <1>3, NoneAssumption

\* A receipt is one.
LEMMA ReceiptIs ==
    ASSUME NEW action \in Actions, NEW sub \in Submissions,
           NEW from \in 1..5, NEW to \in 1..5,
           NEW output \in InitialResults \cup FinalResults
    PROVE  LET r == Receipt(action, sub, from, to, output) IN r \in Receipts /\ r # None
<1>1. sub.request \in Requests
  BY DEF Submissions
<1>2. Receipt(action, sub, from, to, output) \in Receipts
  BY <1>1 DEF Receipt, Receipts
<1>. QED  BY <1>2, NoneAssumption

-----------------------------------------------------------------------------
(* The functions of quiz_machine.py on rows.                                *)

\* The row of an unanswered batch is a row.
LEMMA NewRowIs == NewRow \in TableRows
BY DEF NewRow, TableRows, States

\* Locking a row that is new.
LEMMA LockRowIs ==
    ASSUME NEW r \in TableRows, r.version = 1, NEW sub \in Submissions
    PROVE  LET n == LockRow(r, sub) IN
           /\ n \in TableRows
           /\ n.state = "initial_locked" /\ n.version = 2 /\ n.initial = sub
           /\ n.initialResult = r.initialResult /\ n.initialReceipt = r.initialReceipt
           /\ n.revision = r.revision /\ n.revisionReceipt = r.revisionReceipt
           /\ n.final = r.final
<1>1. "initial_locked" \in States /\ 2 \in 1..5
  BY DEF States
<1>2. r \in TableRows /\ sub \in Submissions
  OBVIOUS
<1> DEFINE r1 == [r EXCEPT !.state = "initial_locked"]
           r2 == [r1 EXCEPT !.version = 2]
           r3 == [r2 EXCEPT !.initial = sub]
<1>3. /\ r1 \in TableRows /\ r1.state = "initial_locked"
      /\ r1.version = r.version /\ r1.initial = r.initial
      /\ r1.initialResult = r.initialResult /\ r1.initialReceipt = r.initialReceipt
      /\ r1.revision = r.revision /\ r1.revisionReceipt = r.revisionReceipt
      /\ r1.final = r.final
  BY <1>1, <1>2 DEF TableRows
<1>. HIDE DEF r1
<1>4. /\ r2 \in TableRows /\ r2.version = 2
      /\ r2.state = r1.state /\ r2.initial = r1.initial
      /\ r2.initialResult = r1.initialResult /\ r2.initialReceipt = r1.initialReceipt
      /\ r2.revision = r1.revision /\ r2.revisionReceipt = r1.revisionReceipt
      /\ r2.final = r1.final
  BY <1>1, <1>2, <1>3 DEF TableRows
<1>. HIDE DEF r2
<1>5. /\ r3 \in TableRows /\ r3.initial = sub
      /\ r3.state = r2.state /\ r3.version = r2.version
      /\ r3.initialResult = r2.initialResult /\ r3.initialReceipt = r2.initialReceipt
      /\ r3.revision = r2.revision /\ r3.revisionReceipt = r2.revisionReceipt
      /\ r3.final = r2.final
  BY <1>1, <1>2, <1>4 DEF TableRows
<1>. HIDE DEF r3
<1>6. LockRow(r, sub) = r3
  BY DEF LockRow, r1, r2, r3
<1>. QED  BY <1>3, <1>4, <1>5, <1>6

\* Scoring a row that is locked.
LEMMA ResolveRowIs ==
    ASSUME NEW r \in TableRows, r.initial \in Submissions, r.version = 2
    PROVE  LET n == ResolveRow(r)
               wrong == Wrong(Selections(r.initial))
               score == [wrong |-> wrong, revisionRequired |-> wrong > 0] IN
           /\ n \in TableRows
           /\ n.state = (IF wrong > 0 THEN "revision_open" ELSE "revealed")
           /\ n.version = 3 /\ n.initial = r.initial
           /\ n.initialResult = score
           /\ n.initialReceipt = Receipt("initial", r.initial, 1, 3, score)
           /\ n.revision = r.revision /\ n.revisionReceipt = r.revisionReceipt
           /\ n.final = IF wrong = 0 THEN BuildFinalResult(r.initial, r.initial, FALSE)
                                     ELSE None
<1> DEFINE wrong == Wrong(Selections(r.initial))
           score == [wrong |-> wrong, revisionRequired |-> wrong > 0]
           state == IF wrong > 0 THEN "revision_open" ELSE "revealed"
           receipt == Receipt("initial", r.initial, 1, 3, score)
           final == IF wrong = 0 THEN BuildFinalResult(r.initial, r.initial, FALSE) ELSE None
<1>1. wrong \in 0..NumItems /\ score \in InitialResults
  <2>1. wrong \in 0..NumItems
    BY Counting
  <2>. QED  BY <2>1 DEF InitialResults
<1>2. final \in FinalResults \cup {None}
  BY FinalResultIs
<1>3. receipt \in Receipts
  <2>. HIDE DEF score
  <2>. QED  BY <1>1, ReceiptIs DEF Actions
<1>4. state \in States /\ 3 \in 1..5
  BY DEF States
<1>5. ResolveRow(r) = [r EXCEPT !.state = state, !.version = 3, !.initialResult = score,
                                !.initialReceipt = receipt, !.final = final]
  <2>1. r.version + 1 = 3 /\ r.version - 1 = 1
    OBVIOUS
  <2>. QED  BY <2>1 DEF ResolveRow
<1>. HIDE DEF state, score, receipt, final
<1> DEFINE r1 == [r EXCEPT !.state = state]
           r2 == [r1 EXCEPT !.version = 3]
           r3 == [r2 EXCEPT !.initialResult = score]
           r4 == [r3 EXCEPT !.initialReceipt = receipt]
           r5 == [r4 EXCEPT !.final = final]
<1>6. /\ r1 \in TableRows /\ r1.state = state
      /\ r1.version = r.version /\ r1.initial = r.initial
      /\ r1.initialResult = r.initialResult /\ r1.initialReceipt = r.initialReceipt
      /\ r1.revision = r.revision /\ r1.revisionReceipt = r.revisionReceipt
      /\ r1.final = r.final
  BY <1>1, <1>2, <1>3, <1>4, <1>5 DEF TableRows
<1>. HIDE DEF r1
<1>7. /\ r2 \in TableRows /\ r2.version = 3
      /\ r2.state = r1.state /\ r2.initial = r1.initial
      /\ r2.initialResult = r1.initialResult /\ r2.initialReceipt = r1.initialReceipt
      /\ r2.revision = r1.revision /\ r2.revisionReceipt = r1.revisionReceipt
      /\ r2.final = r1.final
  BY <1>1, <1>2, <1>3, <1>4, <1>5, <1>6 DEF TableRows
<1>. HIDE DEF r2
<1>8. /\ r3 \in TableRows /\ r3.initialResult = score
      /\ r3.state = r2.state /\ r3.version = r2.version
      /\ r3.initial = r2.initial /\ r3.initialReceipt = r2.initialReceipt
      /\ r3.revision = r2.revision /\ r3.revisionReceipt = r2.revisionReceipt
      /\ r3.final = r2.final
  BY <1>1, <1>2, <1>3, <1>4, <1>5, <1>7 DEF TableRows
<1>. HIDE DEF r3
<1>9. /\ r4 \in TableRows /\ r4.initialReceipt = receipt
      /\ r4.state = r3.state /\ r4.version = r3.version
      /\ r4.initial = r3.initial /\ r4.initialResult = r3.initialResult
      /\ r4.revision = r3.revision /\ r4.revisionReceipt = r3.revisionReceipt
      /\ r4.final = r3.final
  BY <1>1, <1>2, <1>3, <1>4, <1>5, <1>8 DEF TableRows
<1>. HIDE DEF r4
<1>10. /\ r5 \in TableRows /\ r5.final = final
      /\ r5.state = r4.state /\ r5.version = r4.version
      /\ r5.initial = r4.initial /\ r5.initialResult = r4.initialResult
      /\ r5.initialReceipt = r4.initialReceipt /\ r5.revision = r4.revision
      /\ r5.revisionReceipt = r4.revisionReceipt
  BY <1>1, <1>2, <1>3, <1>4, <1>5, <1>9 DEF TableRows
<1>. HIDE DEF r5
<1>11. ResolveRow(r) = r5
  BY <1>5 DEF r1, r2, r3, r4, r5
<1>. QED
  <2>. HIDE DEF wrong
  <2>1. LET m == ResolveRow(r) IN
        /\ m \in TableRows /\ m.state = state /\ m.version = 3 /\ m.initial = r.initial
        /\ m.initialResult = score /\ m.initialReceipt = receipt
        /\ m.revision = r.revision /\ m.revisionReceipt = r.revisionReceipt
        /\ m.final = final
    BY <1>6, <1>7, <1>8, <1>9, <1>10, <1>11
  <2>. QED  BY <2>1 DEF wrong, state, score, receipt, final

\* Revising a row that was scored.
LEMMA ReviseRowIs ==
    ASSUME NEW r \in TableRows, r.initial \in Submissions, r.version = 3,
           NEW sub \in Submissions
    PROVE  LET n == ReviseRow(r, sub)
               final == BuildFinalResult(r.initial, sub, TRUE) IN
           /\ n \in TableRows
           /\ n.state = "revealed" /\ n.version = 4 /\ n.initial = r.initial
           /\ n.initialResult = r.initialResult /\ n.initialReceipt = r.initialReceipt
           /\ n.revision = sub
           /\ n.revisionReceipt = Receipt("revision", sub, 3, 4, final)
           /\ n.final = final
<1> DEFINE final == BuildFinalResult(r.initial, sub, TRUE)
           receipt == Receipt("revision", sub, 3, 4, final)
<1>1. final \in FinalResults
  BY FinalResultIs
<1>. HIDE DEF final
<1>2. receipt \in Receipts
  BY <1>1, ReceiptIs DEF Actions
<1>3. "revealed" \in States /\ 4 \in 1..5 /\ sub \in Submissions /\ r \in TableRows
  BY DEF States
<1>4. ReviseRow(r, sub) = [r EXCEPT !.state = "revealed", !.version = 4, !.revision = sub,
                                    !.revisionReceipt = receipt, !.final = final]
  <2>1. r.version + 1 = 4 /\ r.version = 3
    OBVIOUS
  <2>. QED  BY <2>1 DEF ReviseRow, final
<1>. HIDE DEF receipt
<1> DEFINE r1 == [r EXCEPT !.state = "revealed"]
           r2 == [r1 EXCEPT !.version = 4]
           r3 == [r2 EXCEPT !.revision = sub]
           r4 == [r3 EXCEPT !.revisionReceipt = receipt]
           r5 == [r4 EXCEPT !.final = final]
<1>5. /\ r1 \in TableRows /\ r1.state = "revealed"
      /\ r1.version = r.version /\ r1.initial = r.initial
      /\ r1.initialResult = r.initialResult /\ r1.initialReceipt = r.initialReceipt
      /\ r1.revision = r.revision /\ r1.revisionReceipt = r.revisionReceipt
      /\ r1.final = r.final
  BY <1>1, <1>2, <1>3 DEF TableRows
<1>. HIDE DEF r1
<1>6. /\ r2 \in TableRows /\ r2.version = 4
      /\ r2.state = r1.state /\ r2.initial = r1.initial
      /\ r2.initialResult = r1.initialResult /\ r2.initialReceipt = r1.initialReceipt
      /\ r2.revision = r1.revision /\ r2.revisionReceipt = r1.revisionReceipt
      /\ r2.final = r1.final
  BY <1>1, <1>2, <1>3, <1>5 DEF TableRows
<1>. HIDE DEF r2
<1>7. /\ r3 \in TableRows /\ r3.revision = sub
      /\ r3.state = r2.state /\ r3.version = r2.version
      /\ r3.initial = r2.initial /\ r3.initialResult = r2.initialResult
      /\ r3.initialReceipt = r2.initialReceipt /\ r3.revisionReceipt = r2.revisionReceipt
      /\ r3.final = r2.final
  BY <1>1, <1>2, <1>3, <1>6 DEF TableRows
<1>. HIDE DEF r3
<1>8. /\ r4 \in TableRows /\ r4.revisionReceipt = receipt
      /\ r4.state = r3.state /\ r4.version = r3.version
      /\ r4.initial = r3.initial /\ r4.initialResult = r3.initialResult
      /\ r4.initialReceipt = r3.initialReceipt /\ r4.revision = r3.revision
      /\ r4.final = r3.final
  BY <1>1, <1>2, <1>3, <1>7 DEF TableRows
<1>. HIDE DEF r4
<1>9. /\ r5 \in TableRows /\ r5.final = final
      /\ r5.state = r4.state /\ r5.version = r4.version
      /\ r5.initial = r4.initial /\ r5.initialResult = r4.initialResult
      /\ r5.initialReceipt = r4.initialReceipt /\ r5.revision = r4.revision
      /\ r5.revisionReceipt = r4.revisionReceipt
  BY <1>1, <1>2, <1>3, <1>8 DEF TableRows
<1>. HIDE DEF r5
<1>10. ReviseRow(r, sub) = r5
  BY <1>4 DEF r1, r2, r3, r4, r5
<1>. QED
  <2>1. LET m == ReviseRow(r, sub) IN
        /\ m \in TableRows /\ m.state = "revealed" /\ m.version = 4 /\ m.initial = r.initial
        /\ m.initialResult = r.initialResult /\ m.initialReceipt = r.initialReceipt
        /\ m.revision = sub /\ m.revisionReceipt = receipt /\ m.final = final
    BY <1>5, <1>6, <1>7, <1>8, <1>9, <1>10
  <2>. QED  BY <2>1 DEF receipt, final

\* Closing a row that is revealed.
LEMMA CloseRowIs ==
    ASSUME NEW r \in TableRows, r.version < 5
    PROVE  LET n == CloseRow(r) IN
           /\ n \in TableRows
           /\ n.state = "closed" /\ n.version = r.version + 1 /\ n.initial = r.initial
           /\ n.initialResult = r.initialResult /\ n.initialReceipt = r.initialReceipt
           /\ n.revision = r.revision /\ n.revisionReceipt = r.revisionReceipt
           /\ n.final = r.final
<1> DEFINE next == r.version + 1
<1>1. next \in 1..5 /\ "closed" \in States /\ r \in TableRows
  BY DEF TableRows, States
<1>. HIDE DEF next
<1> DEFINE r1 == [r EXCEPT !.state = "closed"]
           r2 == [r1 EXCEPT !.version = next]
<1>2. /\ r1 \in TableRows /\ r1.state = "closed"
      /\ r1.version = r.version /\ r1.initial = r.initial
      /\ r1.initialResult = r.initialResult /\ r1.initialReceipt = r.initialReceipt
      /\ r1.revision = r.revision /\ r1.revisionReceipt = r.revisionReceipt
      /\ r1.final = r.final
  BY <1>1 DEF TableRows
<1>. HIDE DEF r1
<1>3. /\ r2 \in TableRows /\ r2.version = next
      /\ r2.state = r1.state /\ r2.initial = r1.initial
      /\ r2.initialResult = r1.initialResult /\ r2.initialReceipt = r1.initialReceipt
      /\ r2.revision = r1.revision /\ r2.revisionReceipt = r1.revisionReceipt
      /\ r2.final = r1.final
  BY <1>1, <1>2 DEF TableRows
<1>. HIDE DEF r2
<1>4. CloseRow(r) = r2
  BY DEF CloseRow, r1, r2, next
<1>. QED  BY <1>2, <1>3, <1>4 DEF next
-----------------------------------------------------------------------------
(* What each field of the row of a coherent snapshot is.                    *)

\* Field by field, what the functions of quiz_machine.py have made of the row
\* of a coherent snapshot.
LEMMA RowIs ==
    ASSUME NEW m \in Machines, Coherent(m)
    PROVE  LET r == Row(m) IN
           /\ r.state = m.state /\ r.version = m.version
           /\ r.initial = m.initial /\ r.revision = m.revision
           /\ r.initialResult = IF Resolved(m) THEN Score(m) ELSE None
           /\ r.initialReceipt = IF Resolved(m) THEN Receipt("initial", m.initial, 1, 3, Score(m))
                                               ELSE None
           /\ r.revisionReceipt = IF m.revision = None THEN None
                                  ELSE Receipt("revision", m.revision, 3, 4, Truth(m))
           /\ r.final = IF Revealed(m) THEN Truth(m) ELSE None
<1> DEFINE locked == LockRow(NewRow, m.initial)
           scored == ResolveRow(locked)
           told == IF m.revision = None THEN scored ELSE ReviseRow(scored, m.revision)
<1>1. CASE m.state = "ready"
  <2>1. Row(m) = NewRow /\ m = ReadyMachine
    BY <1>1 DEF Row, Coherent
  <2>. QED  BY <1>1, <2>1 DEF NewRow, ReadyMachine, Resolved, Revealed, None
<1>2. CASE m.state # "ready"
  <2>1. m.initial \in Submissions /\ m.initial # None
    BY <1>2 DEF Coherent, Machines, None
  <2>2. /\ locked \in TableRows /\ locked.state = "initial_locked" /\ locked.version = 2
        /\ locked.initial = m.initial /\ locked.initialResult = None
        /\ locked.initialReceipt = None /\ locked.revision = None
        /\ locked.revisionReceipt = None /\ locked.final = None
    BY <2>1, NewRowIs, LockRowIs DEF NewRow
  <2>3. CASE m.state = "initial_locked"
    <3>1. Row(m) = locked
      BY <2>3 DEF Row
    <3>2. m.version = 2 /\ m.revision = None /\ ~Resolved(m) /\ ~Revealed(m)
      BY <2>3 DEF Coherent, Resolved, Revealed, None
    <3>. HIDE DEF locked
    <3>. QED  BY <2>2, <2>3, <3>1, <3>2
  <2>. HIDE DEF locked
  <2>4. /\ WrongCount(m) \in 0..NumItems /\ WrongCount(m) = Wrong(Selections(locked.initial))
        /\ WrongCount(m) = 0 <=> ZeroWrong(m)
        /\ Score(m) = [wrong |-> WrongCount(m), revisionRequired |-> WrongCount(m) > 0]
    BY <2>1, <2>2, ScoreIs DEF Score, None
  <2>5. /\ scored \in TableRows
        /\ scored.state = (IF ZeroWrong(m) THEN "revealed" ELSE "revision_open")
        /\ scored.version = 3 /\ scored.initial = m.initial
        /\ scored.initialResult = Score(m)
        /\ scored.initialReceipt = Receipt("initial", m.initial, 1, 3, Score(m))
        /\ scored.revision = None /\ scored.revisionReceipt = None
        /\ scored.final = IF ZeroWrong(m) THEN BuildFinalResult(m.initial, m.initial, FALSE)
                                          ELSE None
    <3>1. locked \in TableRows /\ locked.initial \in Submissions /\ locked.version = 2
      BY <2>1, <2>2
    <3>2. WrongCount(m) > 0 <=> ~ZeroWrong(m)
      BY <2>4, NumItemsAssumption
    <3>. HIDE DEF scored
    <3>3. LET n == scored
              wrong == WrongCount(m)
              score == [wrong |-> wrong, revisionRequired |-> wrong > 0] IN
          /\ n \in TableRows
          /\ n.state = (IF wrong > 0 THEN "revision_open" ELSE "revealed")
          /\ n.version = 3 /\ n.initial = locked.initial
          /\ n.initialResult = score
          /\ n.initialReceipt = Receipt("initial", locked.initial, 1, 3, score)
          /\ n.revision = locked.revision /\ n.revisionReceipt = locked.revisionReceipt
          /\ n.final = IF wrong = 0 THEN BuildFinalResult(locked.initial, locked.initial, FALSE)
                                    ELSE None
      BY <3>1, <2>4, ResolveRowIs DEF scored
    <3>. QED  BY <2>2, <2>4, <3>2, <3>3
  <2>. HIDE DEF scored
  <2>6. /\ told \in TableRows /\ told.initial = m.initial /\ told.revision = m.revision
        /\ told.initialResult = Score(m)
        /\ told.initialReceipt = Receipt("initial", m.initial, 1, 3, Score(m))
        /\ told.revisionReceipt = IF m.revision = None THEN None
                                  ELSE Receipt("revision", m.revision, 3, 4, Truth(m))
        /\ m.revision = None => /\ told.state = scored.state /\ told.version = 3
                                /\ told.final = scored.final
        /\ m.revision # None => /\ told.state = "revealed" /\ told.version = 4
                                /\ told.final = Truth(m)
    <3>1. CASE m.revision = None
      <4>1. told = scored
        BY <3>1
      <4>. HIDE DEF told
      <4>. QED  BY <2>5, <3>1, <4>1
    <3>2. CASE m.revision # None
      <4>1. m.revision \in Submissions
        BY <3>2 DEF Machines, None
      <4>2. told = ReviseRow(scored, m.revision)
        BY <3>2
      <4>3. Truth(m) = BuildFinalResult(scored.initial, m.revision, TRUE)
        BY <2>5, <3>2 DEF Truth, LastSubmission
      <4>. HIDE DEF told
      <4>4. /\ told \in TableRows
            /\ told.state = "revealed" /\ told.version = 4 /\ told.initial = scored.initial
            /\ told.initialResult = scored.initialResult
            /\ told.initialReceipt = scored.initialReceipt
            /\ told.revision = m.revision
            /\ told.revisionReceipt = Receipt("revision", m.revision, 3, 4, Truth(m))
            /\ told.final = Truth(m)
        <5>1. scored.initial \in Submissions /\ scored.version = 3 /\ scored \in TableRows
          BY <2>1, <2>5
        <5>2. LET n == told
                  final == BuildFinalResult(scored.initial, m.revision, TRUE) IN
              /\ n \in TableRows
              /\ n.state = "revealed" /\ n.version = 4 /\ n.initial = scored.initial
              /\ n.initialResult = scored.initialResult
              /\ n.initialReceipt = scored.initialReceipt
              /\ n.revision = m.revision
              /\ n.revisionReceipt = Receipt("revision", m.revision, 3, 4, final)
              /\ n.final = final
          BY <4>1, <4>2, <5>1, ReviseRowIs
        <5>. QED  BY <4>3, <5>2
      <4>. QED  BY <2>5, <3>2, <4>4
    <3>. QED  BY <3>1, <3>2
  <2>. HIDE DEF told
  <2>7. ZeroWrong(m) /\ m.revision = None => scored.final = Truth(m)
    BY <2>5 DEF Truth, LastSubmission
  <2>8. CASE m.state = "revision_open"
    <3>1. Row(m) = told
      BY <2>8 DEF Row, told, scored, locked
    <3>2. /\ m.version = 3 /\ m.revision = None /\ ~ZeroWrong(m)
          /\ Resolved(m) /\ ~Revealed(m)
      BY <2>8 DEF Coherent, Resolved, Revealed, None
    <3>. QED  BY <2>5, <2>6, <2>8, <3>1, <3>2
  <2>9. CASE Revealed(m)
    <3>1. /\ m.revision = None <=> ZeroWrong(m)
          /\ m.version = 3 + (IF ZeroWrong(m) THEN 0 ELSE 1)
                           + (IF m.state = "closed" THEN 1 ELSE 0)
          /\ Resolved(m) /\ m.state \in {"revealed", "closed"}
      BY <2>9 DEF Coherent, Resolved, Revealed, None
    <3>2. told.state = "revealed" /\ told.final = Truth(m)
          /\ told.version = 3 + (IF ZeroWrong(m) THEN 0 ELSE 1)
      <4>1. CASE ZeroWrong(m)
        <5>1. m.revision = None
          BY <3>1, <4>1
        <5>2. scored.state = "revealed" /\ scored.final = Truth(m)
          BY <2>5, <2>7, <4>1, <5>1
        <5>3. told.state = scored.state /\ told.version = 3 /\ told.final = scored.final
          BY <2>6, <5>1
        <5>. QED  BY <4>1, <5>2, <5>3
      <4>2. CASE ~ZeroWrong(m)
        BY <2>6, <3>1, <4>2
      <4>. QED  BY <4>1, <4>2
    <3>3. CASE m.state = "revealed"
      <4>1. Row(m) = told
        BY <3>3 DEF Row, told, scored, locked
      <4>. QED  BY <2>6, <2>9, <3>1, <3>2, <3>3, <4>1
    <3>4. CASE m.state = "closed"
      <4>1. Row(m) = CloseRow(told)
        BY <3>4 DEF Row, told, scored, locked
      <4>2. LET n == Row(m) IN
            /\ n.state = "closed" /\ n.version = told.version + 1 /\ n.initial = told.initial
            /\ n.initialResult = told.initialResult /\ n.initialReceipt = told.initialReceipt
            /\ n.revision = told.revision /\ n.revisionReceipt = told.revisionReceipt
            /\ n.final = told.final
        BY <2>6, <3>2, <4>1, CloseRowIs
      <4>. QED  BY <2>6, <2>9, <3>1, <3>2, <3>4, <4>2
    <3>. QED  BY <3>1, <3>3, <3>4
  <2>. QED  BY <1>2, <2>3, <2>8, <2>9 DEF Machines, States, Revealed
<1>. QED  BY <1>1, <1>2
-----------------------------------------------------------------------------
(* What goes out of a coherent snapshot is accepted.                        *)

\* The truth of a revealed quiz judges its first and its last submission, and
\* says a revision was used exactly if one was needed.
LEMMA TruthIs ==
    ASSUME NEW m \in Machines, Coherent(m), Revealed(m)
    PROVE  /\ m.initial \in Submissions /\ LastSubmission(m) \in Submissions
           /\ Judges(Truth(m), m.initial, LastSubmission(m))
           /\ Truth(m).firstWrong = WrongCount(m) /\ WrongCount(m) \in 0..NumItems
           /\ \/ /\ m.revision = None /\ WrongCount(m) = 0
                 /\ Truth(m).revisionUsed = FALSE /\ LastSubmission(m) = m.initial
              \/ /\ m.revision # None /\ WrongCount(m) > 0
                 /\ Truth(m).revisionUsed = TRUE /\ LastSubmission(m) = m.revision
<1> DEFINE last == LastSubmission(m)
<1>1. /\ m.initial # NoSubmission
      /\ m.revision = None <=> ZeroWrong(m)
  BY DEF Coherent, Revealed, None
<1>2. m.initial \in Submissions /\ last \in Submissions
  BY <1>1 DEF LastSubmission, Machines, None
<1>3. /\ WrongCount(m) \in 0..NumItems /\ WrongCount(m) = Wrong(Selections(m.initial))
      /\ WrongCount(m) = 0 <=> ZeroWrong(m)
  BY <1>1, ScoreIs
<1>4. CASE m.revision = None
  <2>1. Truth(m) = BuildFinalResult(m.initial, m.initial, FALSE) /\ last = m.initial
    BY <1>4 DEF Truth, LastSubmission
  <2>2. Judges(Truth(m), m.initial, m.initial) /\ Truth(m).revisionUsed = FALSE
    BY <1>2, <2>1, FinalResultIs
  <2>3. Truth(m).firstWrong = Wrong(Selections(m.initial))
    BY <2>2 DEF Judges
  <2>4. WrongCount(m) = 0
    BY <1>1, <1>3, <1>4
  <2>. QED  BY <1>2, <1>3, <1>4, <2>1, <2>2, <2>3, <2>4
<1>5. CASE m.revision # None
  <2>1. Truth(m) = BuildFinalResult(m.initial, m.revision, TRUE) /\ last = m.revision
    BY <1>5 DEF Truth, LastSubmission
  <2>2. Judges(Truth(m), m.initial, m.revision) /\ Truth(m).revisionUsed = TRUE
    BY <1>2, <2>1, FinalResultIs
  <2>3. Truth(m).firstWrong = Wrong(Selections(m.initial))
    BY <2>2 DEF Judges
  <2>4. WrongCount(m) > 0
    BY <1>1, <1>3, <1>5, NumItemsAssumption
  <2>. QED  BY <1>2, <1>3, <1>5, <2>1, <2>2, <2>3, <2>4
<1>. QED  BY <1>4, <1>5

\* Both programs count what the truth says.
LEMMA TruthCounts ==
    ASSUME NEW m \in Machines, Coherent(m), Revealed(m)
    PROVE  LET f == Truth(m) IN
           /\ Cardinality({i \in Items : ~f.items[i].firstCorrect}) = f.firstWrong
           /\ Cardinality({i \in Items : f.items[i].first # "key"}) = f.firstWrong
           /\ Cardinality({i \in Items : f.items[i].firstCorrect}) = NumItems - f.firstWrong
           /\ Cardinality({i \in Items : f.items[i].finalCorrect}) = f.finalCorrect
           /\ Cardinality({i \in Items : f.items[i].final = "key"}) = f.finalCorrect
<1> DEFINE f == Truth(m)
           last == LastSubmission(m)
<1>1. /\ m.initial \in Submissions /\ last \in Submissions
      /\ Judges(f, m.initial, last)
  BY TruthIs
<1>2. /\ \A i \in Items : Selections(m.initial)[i] = "key" <=> i \in m.initial.sheet
      /\ NumItems - Wrong(Selections(m.initial)) = Cardinality(m.initial.sheet)
      /\ Wrong(Selections(m.initial)) = Cardinality(Items \ m.initial.sheet)
      /\ Wrong(Selections(m.initial)) \in 0..NumItems
  BY <1>1, Counting
<1>3. /\ \A i \in Items : Selections(last)[i] = "key" <=> i \in last.sheet
      /\ NumItems - Wrong(Selections(last)) = Cardinality(last.sheet)
  BY <1>1, Counting
<1>4. m.initial.sheet \subseteq Items /\ last.sheet \subseteq Items
  BY <1>1, SheetsAssumption DEF Submissions
<1>5. /\ f.firstWrong = Wrong(Selections(m.initial))
      /\ f.finalCorrect = NumItems - Wrong(Selections(last))
      /\ \A i \in Items :
            /\ f.items[i].first = Selections(m.initial)[i]
            /\ f.items[i].final = Selections(last)[i]
            /\ f.items[i].firstCorrect <=> Selections(m.initial)[i] = "key"
            /\ f.items[i].finalCorrect <=> Selections(last)[i] = "key"
  BY <1>1 DEF Judges
<1>6. /\ {i \in Items : ~f.items[i].firstCorrect} = Items \ m.initial.sheet
      /\ {i \in Items : f.items[i].first # "key"} = Items \ m.initial.sheet
      /\ {i \in Items : f.items[i].firstCorrect} = m.initial.sheet
  BY <1>2, <1>4, <1>5
<1>7. /\ {i \in Items : f.items[i].finalCorrect} = last.sheet
      /\ {i \in Items : f.items[i].final = "key"} = last.sheet
  BY <1>3, <1>4, <1>5
<1>. QED  BY <1>2, <1>3, <1>5, <1>6, <1>7 DEF f

\* Each answer of the truth is judged as the submissions have it.
LEMMA TruthItems ==
    ASSUME NEW f, NEW one, NEW two, Judges(f, one, two), NEW i \in Items
    PROVE  /\ FinalItemHolds(f.items[i], Selections(one)[i], Selections(two)[i])
           /\ FinalItemHolds(f.items[i], f.items[i].first, f.items[i].final)
           /\ f.items[i].first = Selections(one)[i] /\ f.items[i].final = Selections(two)[i]
           /\ f.items[i].firstCorrect = (f.items[i].first = "key")
           /\ f.items[i].finalCorrect = (f.items[i].final = "key")
           /\ f.items[i].selfCorrected = (f.items[i].first # "key" /\ f.items[i].final = "key")
BY DEF Judges, FinalItemHolds

\* Either side, counting for itself, finds the truth consistent.
LEMMA TruthIsAccepted ==
    ASSUME NEW m \in Machines, Coherent(m), Revealed(m)
    PROVE  FinalIsTruthful(Truth(m)) /\ ValidateFinal(Truth(m))
<1> DEFINE f == Truth(m)
           last == LastSubmission(m)
<1>1. Judges(f, m.initial, last)
  BY TruthIs
<1>2. /\ Cardinality({i \in Items : f.items[i].first # "key"}) = f.firstWrong
      /\ Cardinality({i \in Items : f.items[i].firstCorrect}) = NumItems - f.firstWrong
      /\ Cardinality({i \in Items : f.items[i].finalCorrect}) = f.finalCorrect
      /\ Cardinality({i \in Items : f.items[i].final = "key"}) = f.finalCorrect
  BY TruthCounts
<1>3. /\ f.revisionUsed = (f.firstWrong > 0)
      /\ f.firstWrong \in 0..NumItems
      /\ ~f.revisionUsed => last = m.initial
  <2>1. /\ f.firstWrong = WrongCount(m) /\ WrongCount(m) \in 0..NumItems
        /\ \/ WrongCount(m) = 0 /\ f.revisionUsed = FALSE /\ last = m.initial
           \/ WrongCount(m) > 0 /\ f.revisionUsed = TRUE
    BY TruthIs
  <2>. HIDE DEF f, last
  <2>2. CASE WrongCount(m) = 0 /\ f.revisionUsed = FALSE /\ last = m.initial
    <3>1. (f.firstWrong > 0) = FALSE
      BY <2>1, <2>2
    <3>. QED  BY <2>1, <2>2, <3>1, Zenon
  <2>3. CASE WrongCount(m) > 0 /\ f.revisionUsed = TRUE
    <3>1. (f.firstWrong > 0) = TRUE
      BY <2>1, <2>3
    <3>. QED  BY <2>1, <2>3, <3>1, Zenon
  <2>. QED  BY <2>1, <2>2, <2>3
<1>. HIDE DEF f, last
<1>4. ~f.revisionUsed => \A i \in Items : f.items[i].first = f.items[i].final
  BY <1>1, <1>3, TruthItems
<1>5. ValidateFinal(f)
  BY <1>1, <1>2, <1>3, <1>4, TruthItems DEF ValidateFinal
<1>6. /\ f.firstWrong = NumItems - Cardinality({i \in Items : f.items[i].firstCorrect})
      /\ f.finalCorrect = Cardinality({i \in Items : f.items[i].finalCorrect})
  BY <1>2, <1>3, NumItemsAssumption
<1>7. FinalIsTruthful(f)
  BY <1>1, <1>3, <1>4, <1>6, TruthItems DEF FinalIsTruthful
<1>. QED  BY <1>5, <1>7 DEF f

\* What the wire says of a scored first pass.
Shown(m) == [wrong |-> WrongCount(m), revisionRequired |-> WrongCount(m) > 0,
             final |-> IF WrongCount(m) = 0 THEN Truth(m) ELSE None]

\* The wire says of a scored first pass its count, and the truth if nothing
\* was wrong.
LEMMA ShownIs ==
    ASSUME NEW m \in Machines, Coherent(m), Resolved(m)
    PROVE  /\ m.initial # None /\ Shown(m) # None
           /\ Shown(m).wrong = WrongCount(m) /\ WrongCount(m) \in 0..NumItems
           /\ Shown(m).revisionRequired = (WrongCount(m) > 0)
           /\ WrongCount(m) = 0 => Revealed(m) /\ Truth(m) # None /\ Shown(m).final = Truth(m)
           /\ WrongCount(m) # 0 => Shown(m).final = None
<1>1. /\ m.initial # NoSubmission /\ m.initial # None
      /\ Revealed(m) \/ ~ZeroWrong(m)
  BY DEF Coherent, Resolved, Revealed, None
<1>2. /\ WrongCount(m) \in 0..NumItems
      /\ WrongCount(m) = 0 <=> ZeroWrong(m)
  BY <1>1, ScoreIs
<1>3. WrongCount(m) = 0 => Revealed(m) /\ Truth(m) \in FinalResults /\ Truth(m) # None
  BY <1>1, <1>2, TruthIs DEF Judges
<1> DEFINE final == IF WrongCount(m) = 0 THEN Truth(m) ELSE None
<1>4. final \in FinalResults \cup {None}
  BY <1>3
<1>5. Shown(m) = [wrong |-> WrongCount(m), revisionRequired |-> WrongCount(m) > 0,
                  final |-> final]
  BY DEF Shown
<1>. HIDE DEF final
<1>6. Shown(m) \in PublicResults
  BY <1>2, <1>4, <1>5 DEF PublicResults
<1>7. /\ Shown(m).wrong = WrongCount(m) /\ Shown(m).final = final
      /\ Shown(m).revisionRequired = (WrongCount(m) > 0)
  <2>1. Shown(m).wrong = WrongCount(m) /\ Shown(m).final = final
    BY <1>5
  <2>2. Shown(m).revisionRequired = (WrongCount(m) > 0)
    BY Zenon DEF Shown
  <2>. QED  BY <2>1, <2>2
<1>. QED  BY <1>1, <1>2, <1>3, <1>6, <1>7, NoneAssumption DEF final

\* Field by field, the snapshot that goes out, and which fields it has.
LEMMA SnapshotIs ==
    ASSUME NEW m \in Machines, Coherent(m)
    PROVE  LET s == PublicSnapshot(Row(m)) IN
           /\ s.state = m.state /\ s.version = m.version
           /\ s.initial = m.initial /\ s.revision = m.revision
           /\ s.initialResult = IF Resolved(m) THEN Shown(m) ELSE None
           /\ s.final = IF Revealed(m) THEN Truth(m) ELSE None
           /\ \A f : f \in Present(s) <=>
                \/ f = "initial" /\ s.initial # None
                \/ f = "initialResult" /\ s.initialResult # None
                \/ f = "revision" /\ s.revision # None
                \/ f = "final" /\ s.final # None
<1> DEFINE r == Row(m)
           s == PublicSnapshot(r)
<1>1. /\ r.state = m.state /\ r.version = m.version
      /\ r.initial = m.initial /\ r.revision = m.revision
      /\ r.initialResult = IF Resolved(m) THEN Score(m) ELSE None
      /\ r.final = IF Revealed(m) THEN Truth(m) ELSE None
  BY RowIs
<1>. HIDE DEF r
<1>2. s = [state |-> r.state, version |-> r.version,
           initial |-> r.initial, initialResult |-> InitialResultContract(r),
           revision |-> r.revision, final |-> r.final]
  BY DEF PublicSnapshot
<1>3. InitialResultContract(r) = IF Resolved(m) THEN Shown(m) ELSE None
  <2>1. CASE ~Resolved(m)
    BY <1>1, <2>1 DEF InitialResultContract
  <2>2. CASE Resolved(m)
    <3>1. r.initialResult = Score(m) /\ Score(m) # None
      BY <1>1, <2>2, ShownIs, ScoreIs DEF None
    <3>2. Score(m).wrong = WrongCount(m) /\ Score(m).revisionRequired = (WrongCount(m) > 0)
      BY Zenon DEF Score
    <3>3. WrongCount(m) = 0 => r.final = Truth(m)
      BY <1>1, <2>2, ShownIs
    <3>4. InitialResultContract(r) =
              [wrong |-> WrongCount(m), revisionRequired |-> WrongCount(m) > 0,
               final |-> IF WrongCount(m) = 0 THEN r.final ELSE None]
      BY <3>1, <3>2, Zenon DEF InitialResultContract
    <3>5. (IF WrongCount(m) = 0 THEN r.final ELSE None)
              = (IF WrongCount(m) = 0 THEN Truth(m) ELSE None)
      BY <3>3
    <3>. QED  BY <2>2, <3>4, <3>5, Zenon DEF Shown
  <2>. QED  BY <2>1, <2>2
<1>. HIDE DEF s
<1>4. /\ s.state = m.state /\ s.version = m.version
      /\ s.initial = m.initial /\ s.revision = m.revision
      /\ s.initialResult = IF Resolved(m) THEN Shown(m) ELSE None
      /\ s.final = IF Revealed(m) THEN Truth(m) ELSE None
  BY <1>1, <1>2, <1>3
<1>5. /\ s["initial"] = s.initial /\ s["initialResult"] = s.initialResult
      /\ s["revision"] = s.revision /\ s["final"] = s.final
  OBVIOUS
<1>6. \A f : f \in Present(s) <=>
                \/ f = "initial" /\ s.initial # None
                \/ f = "initialResult" /\ s.initialResult # None
                \/ f = "revision" /\ s.revision # None
                \/ f = "final" /\ s.final # None
  BY <1>5 DEF Present, PublicFields
<1>. QED  BY <1>4, <1>6 DEF s, r

\* Either side accepts what the wire says of a scored first pass.
LEMMA ShownIsAccepted ==
    ASSUME NEW m \in Machines, Coherent(m), Resolved(m)
    PROVE  InitialIsTruthful(Shown(m)) /\ ValidateInitialResult(Shown(m))
<1> DEFINE r == Shown(m)
<1>1. /\ r.wrong = WrongCount(m) /\ WrongCount(m) \in 0..NumItems
      /\ r.revisionRequired = (WrongCount(m) > 0)
      /\ WrongCount(m) = 0 => Revealed(m) /\ Truth(m) # None /\ r.final = Truth(m)
      /\ WrongCount(m) # 0 => r.final = None
  BY ShownIs
<1>. HIDE DEF r
<1>2. r.wrong \in 0..NumItems /\ r.revisionRequired = (r.wrong > 0)
  BY <1>1
<1>3. CASE WrongCount(m) = 0
  <2>1. /\ FinalIsTruthful(r.final) /\ ValidateFinal(r.final)
        /\ r.final.firstWrong = 0 /\ ~r.final.revisionUsed
    <3>1. Truth(m).firstWrong = 0 /\ Truth(m).revisionUsed = FALSE
      <4>1. Revealed(m)
        BY <1>1, <1>3
      <4>2. /\ Truth(m).firstWrong = WrongCount(m)
            /\ WrongCount(m) > 0 \/ Truth(m).revisionUsed = FALSE
        BY <4>1, TruthIs
      <4>. QED  BY <1>3, <4>2
    <3>2. FinalIsTruthful(Truth(m)) /\ ValidateFinal(Truth(m))
      BY <1>1, <1>3, TruthIsAccepted
    <3>. QED  BY <1>1, <1>3, <3>1, <3>2
  <2>2. (r.final # None) = (r.wrong = 0)
    BY <1>1, <1>3
  <2>. QED  BY <1>2, <2>1, <2>2 DEF InitialIsTruthful, ValidateInitialResult, ValidateWrongCount, r
<1>4. CASE WrongCount(m) # 0
  <2>1. r.final = None /\ (r.final # None) = (r.wrong = 0)
    BY <1>1, <1>4
  <2>. QED  BY <1>2, <2>1 DEF InitialIsTruthful, ValidateInitialResult, ValidateWrongCount, r
<1>. QED  BY <1>3, <1>4

\* The truth that goes out is the one of the submissions beside it.
LEMMA TruthIsOfSubmissions ==
    ASSUME NEW m \in Machines, Coherent(m), Revealed(m)
    PROVE  /\ m.initial # None /\ LastSubmission(m) # None
           /\ ValidateAgainstSubmissions(Truth(m), m.initial, LastSubmission(m))
           /\ \A i \in Items : /\ Truth(m).items[i].first = Selections(m.initial)[i]
                               /\ Truth(m).items[i].final = Selections(LastSubmission(m))[i]
<1> DEFINE f == Truth(m)
           last == LastSubmission(m)
<1>1. m.initial \in Submissions /\ last \in Submissions /\ Judges(f, m.initial, last)
  BY TruthIs
<1>2. m.initial # None /\ last # None
  BY <1>1, NoSubmissionAssumption DEF None
<1>. HIDE DEF f, last
<1>3. \A i \in Items : /\ f.items[i].first = Selections(m.initial)[i]
                       /\ f.items[i].final = Selections(last)[i]
  BY <1>1, TruthItems
<1>4. \A i \in Items : Selections(m.initial)[i] \in Options /\ Selections(last)[i] \in Options
  <2>1. Selections(m.initial) \in [Items -> Options]
    BY <1>1, Counting
  <2>2. Selections(last) \in [Items -> Options]
    BY <1>1, Counting
  <2>. QED  BY <2>1, <2>2
<1>5. ValidateAgainstSubmissions(f, m.initial, last)
  BY <1>2, <1>3, <1>4 DEF ValidateAgainstSubmissions
<1>. QED  BY <1>2, <1>3, <1>5 DEF f, last

\* Either side accepts the snapshot of any coherent quiz.
LEMMA SnapshotIsAccepted ==
    ASSUME NEW m \in Machines, Coherent(m)
    PROVE  LET s == PublicSnapshot(Row(m)) IN ServerAccepts(s) /\ ClientAccepts(s)
<1> DEFINE s == PublicSnapshot(Row(m))
           last == LastSubmission(m)
<1>1. /\ s.state = m.state /\ s.version = m.version
      /\ s.initial = m.initial /\ s.revision = m.revision
      /\ s.initialResult = IF Resolved(m) THEN Shown(m) ELSE None
      /\ s.final = IF Revealed(m) THEN Truth(m) ELSE None
  BY SnapshotIs
<1>2. \A f : f \in Present(s) <=>
                \/ f = "initial" /\ s.initial # None
                \/ f = "initialResult" /\ s.initialResult # None
                \/ f = "revision" /\ s.revision # None
                \/ f = "final" /\ s.final # None
  BY SnapshotIs
<1> SUFFICES ServerAccepts(s) /\ ClientAccepts(s)
  OBVIOUS
<1>. HIDE DEF s
<1>3. s.initialResult # None => /\ Resolved(m) /\ s.initialResult = Shown(m)
                                /\ InitialIsTruthful(s.initialResult)
                                /\ ValidateInitialResult(s.initialResult)
  BY <1>1, ShownIsAccepted
<1>4. (IF s.revision # None THEN s.revision ELSE s.initial) = last
  BY <1>1 DEF LastSubmission
<1>5. s.final # None =>
          /\ Revealed(m) /\ s.final = Truth(m) /\ s.initial # None
          /\ FinalIsTruthful(s.final) /\ ValidateFinal(s.final)
          /\ ValidateAgainstSubmissions(s.final, s.initial, last)
          /\ \A i \in Items : /\ s.final.items[i].first = Selections(s.initial)[i]
                              /\ s.final.items[i].final = Selections(last)[i]
  BY <1>1, TruthIsAccepted, TruthIsOfSubmissions
<1>6. m.version \in 1..5
  BY DEF Machines
<1>7. StateFieldsMatch(s) => ServerAccepts(s)
  BY <1>1, <1>3, <1>4, <1>5 DEF ServerAccepts
<1>8. ValidateState(s) => ClientAccepts(s)
  BY <1>1, <1>3, <1>4, <1>5, <1>6 DEF ClientAccepts
<1>. HIDE DEF last
<1>9. CASE m.state = "ready"
  <2>1. m.version = 1 /\ Present(s) = {}
    <3>1. m.initial = None /\ m.revision = None /\ m.version = 1 /\ ~Resolved(m) /\ ~Revealed(m)
      BY <1>9 DEF Coherent, ReadyMachine, Resolved, Revealed, None
    <3>. QED  BY <1>1, <1>2, <3>1
  <2>2. s.state = "ready" /\ s.version = 1
    BY <1>1, <1>9, <2>1
  <2>. QED  BY <1>7, <1>8, <2>1, <2>2 DEF StateFieldsMatch, ValidateState,
               RequireSnapshotPresence
<1>10. CASE m.state = "initial_locked"
  <2>1. m.version = 2 /\ Present(s) = {"initial"}
    <3>1. m.initial # None /\ m.revision = None /\ m.version = 2 /\ ~Resolved(m) /\ ~Revealed(m)
      BY <1>10 DEF Coherent, Resolved, Revealed, None
    <3>. QED  BY <1>1, <1>2, <3>1
  <2>2. s.state = "initial_locked" /\ s.version = 2
    BY <1>1, <1>10, <2>1
  <2>. QED  BY <1>7, <1>8, <2>1, <2>2 DEF StateFieldsMatch, ValidateState,
               RequireSnapshotPresence
<1>11. CASE m.state = "revision_open"
  <2>1. /\ m.initial # None /\ m.revision = None /\ m.version = 3
        /\ Resolved(m) /\ ~Revealed(m) /\ ~ZeroWrong(m)
    BY <1>11 DEF Coherent, Resolved, Revealed, None
  <2>2. Shown(m) # None /\ Shown(m).wrong > 0 /\ Shown(m).revisionRequired
    <3>1. /\ Shown(m) # None /\ Shown(m).wrong = WrongCount(m) /\ WrongCount(m) \in 0..NumItems
          /\ Shown(m).revisionRequired = (WrongCount(m) > 0)
      BY <2>1, ShownIs
    <3>2. WrongCount(m) # 0
      BY <2>1, ScoreIs DEF None
    <3>3. WrongCount(m) > 0
      BY <3>1, <3>2, NumItemsAssumption
    <3>. QED  BY <3>1, <3>3, Zenon
  <2>3. Present(s) = {"initial", "initialResult"}
    BY <1>1, <1>2, <2>1, <2>2
  <2>4. s.initialResult = Shown(m)
    BY <1>1, <2>1
  <2>5. s.state = "revision_open" /\ s.version = 3
    BY <1>1, <1>11, <2>1
  <2>. QED  BY <1>7, <1>8, <2>2, <2>3, <2>4, <2>5
            DEF StateFieldsMatch, ValidateState, RequireSnapshotPresence
<1>12. CASE Revealed(m)
  <2>1. /\ Resolved(m) /\ m.state \in {"revealed", "closed"}
        /\ m.version = 3 + (IF ZeroWrong(m) THEN 0 ELSE 1)
                         + (IF m.state = "closed" THEN 1 ELSE 0)
        /\ m.revision = None <=> ZeroWrong(m)
    BY <1>12 DEF Coherent, Revealed, Resolved, None
  <2> DEFINE used == WrongCount(m) > 0
             closing == IF m.state = "closed" THEN 1 ELSE 0
  <2>2. /\ Shown(m) # None /\ Shown(m).wrong = WrongCount(m)
        /\ Shown(m).revisionRequired = used /\ m.initial # None
        /\ WrongCount(m) \in 0..NumItems
        /\ WrongCount(m) = 0 => Shown(m).final = Truth(m)
        /\ WrongCount(m) # 0 => Shown(m).final = None
    BY <2>1, ShownIs
  <2>3. /\ Truth(m) # None /\ Truth(m).firstWrong = WrongCount(m)
        /\ \/ m.revision = None /\ ~used /\ Truth(m).revisionUsed = FALSE
           \/ m.revision # None /\ used /\ Truth(m).revisionUsed = TRUE
    <3>1. Judges(Truth(m), m.initial, LastSubmission(m))
      BY <1>12, TruthIs
    <3>2. /\ Truth(m).firstWrong = WrongCount(m)
          /\ \/ m.revision = None /\ WrongCount(m) = 0 /\ Truth(m).revisionUsed = FALSE
             \/ m.revision # None /\ WrongCount(m) > 0 /\ Truth(m).revisionUsed = TRUE
      BY <1>12, TruthIs
    <3>3. Truth(m) # None
      BY <3>1 DEF Judges
    <3>. QED  BY <3>2, <3>3
  <2>4. s.initialResult = Shown(m) /\ s.final = Truth(m)
    BY <1>1, <1>12, <2>1
  <2>5. Shown(m).final # None => Shown(m).final = Truth(m)
    BY <2>2
  <2>6. s.state # "ready" /\ s.state # "initial_locked" /\ s.state # "revision_open"
    BY <1>1, <2>1
  <2>7. CASE m.revision = None /\ ~used /\ Truth(m).revisionUsed = FALSE
    <3>1. Shown(m).revisionRequired = FALSE
      <4>1. (WrongCount(m) > 0) = FALSE
        BY <2>7
      <4>2. Shown(m).revisionRequired = (WrongCount(m) > 0)
        BY <2>2
      <4>. QED  BY <4>1, <4>2, Zenon
    <3>2. Present(s) = {"initial", "initialResult", "final"}
      BY <1>1, <1>2, <2>2, <2>3, <2>4, <2>7
    <3>3. m.version = 3 + closing
      BY <2>1, <2>7
    <3>4. StateFieldsMatch(s)
      <4>1. Present(s) = PublicFields \ {"revision"}
        BY <3>2 DEF PublicFields
      <4>2. s.version = 3 + 0 + (IF s.state = "closed" THEN 1 ELSE 0)
        BY <1>1, <3>3
      <4>3. ~s.initialResult.revisionRequired
        BY <2>4, <3>1
      <4>4. s.final.revisionUsed = s.initialResult.revisionRequired
        BY <2>4, <2>7, <3>1
      <4>5. /\ s.final.firstWrong = s.initialResult.wrong
            /\ s.initialResult # None /\ s.final # None
            /\ s.initialResult.final # None => s.initialResult.final = s.final
        BY <2>2, <2>3, <2>4, <2>5
      <4>. QED  BY <2>6, <4>1, <4>2, <4>3, <4>4, <4>5 DEF StateFieldsMatch
    <3>5. ValidateState(s)
      <4>1. Present(s) = {"initial", "initialResult", "final"} \cup {}
        BY <3>2
      <4>2. s.version = (IF s.state = "revealed" THEN 3 ELSE 4) + 0
        BY <1>1, <2>1, <3>3
      <4>3. ~s.initialResult.revisionRequired
        BY <2>4, <3>1
      <4>4. s.final.revisionUsed = s.initialResult.revisionRequired
        BY <2>4, <2>7, <3>1
      <4>5. /\ s.initialResult.wrong = s.final.firstWrong
            /\ s.initialResult.final # None => s.initialResult.final = s.final
        BY <2>2, <2>3, <2>4, <2>5
      <4>6. ValidateRevealedSnapshot(s)
        BY <4>1, <4>2, <4>3, <4>4, <4>5 DEF ValidateRevealedSnapshot, RequireSnapshotPresence
      <4>. QED  BY <2>6, <4>6 DEF ValidateState
    <3>. QED  BY <1>7, <1>8, <3>4, <3>5
  <2>8. CASE m.revision # None /\ used /\ Truth(m).revisionUsed = TRUE
    <3>1. Shown(m).revisionRequired = TRUE
      BY <2>2, <2>8, Zenon
    <3>2. Present(s) = {"initial", "initialResult", "revision", "final"}
      BY <1>1, <1>2, <2>2, <2>3, <2>4, <2>8
    <3>3. m.version = 4 + closing
      BY <2>1, <2>8
    <3>4. StateFieldsMatch(s)
      <4>1. Present(s) = PublicFields \ {}
        BY <3>2 DEF PublicFields
      <4>2. s.version = 3 + 1 + (IF s.state = "closed" THEN 1 ELSE 0)
        BY <1>1, <3>3
      <4>3. s.initialResult.revisionRequired
        BY <2>4, <3>1
      <4>4. s.final.revisionUsed = s.initialResult.revisionRequired
        BY <2>4, <2>8, <3>1
      <4>5. /\ s.final.firstWrong = s.initialResult.wrong
            /\ s.initialResult # None /\ s.final # None
            /\ s.initialResult.final # None => s.initialResult.final = s.final
        BY <2>2, <2>3, <2>4, <2>5
      <4>. QED  BY <2>6, <4>1, <4>2, <4>3, <4>4, <4>5 DEF StateFieldsMatch
    <3>5. ValidateState(s)
      <4>1. Present(s) = {"initial", "initialResult", "final"} \cup {"revision"}
        BY <3>2
      <4>2. s.version = (IF s.state = "revealed" THEN 3 ELSE 4) + 1
        BY <1>1, <2>1, <3>3
      <4>3. s.initialResult.revisionRequired
        BY <2>4, <3>1
      <4>4. s.final.revisionUsed = s.initialResult.revisionRequired
        BY <2>4, <2>8, <3>1
      <4>5. /\ s.initialResult.wrong = s.final.firstWrong
            /\ s.initialResult.final # None => s.initialResult.final = s.final
        BY <2>2, <2>3, <2>4, <2>5
      <4>6. ValidateRevealedSnapshot(s)
        BY <4>1, <4>2, <4>3, <4>4, <4>5 DEF ValidateRevealedSnapshot, RequireSnapshotPresence
      <4>. QED  BY <2>6, <4>6 DEF ValidateState
    <3>. QED  BY <1>7, <1>8, <3>4, <3>5
  <2>. QED  BY <2>3, <2>7, <2>8
<1>. QED  BY <1>9, <1>10, <1>11, <1>12 DEF Machines, States, Revealed

\* Whoever loads the quiz gets to see it: both validators, the server's and the
\* game's, accept every snapshot that the service can have stored.
THEOREM SnapshotsFit == Spec => []SnapshotsAreAccepted
<1>1. IInv => SnapshotsAreAccepted
  <2> SUFFICES ASSUME IInv PROVE SnapshotsAreAccepted
    OBVIOUS
  <2>1. quiz \in Machines /\ Coherent(quiz)
    BY DEF IInv, TypeOK, ReadsHold
  <2>. QED  BY <2>1, SnapshotIsAccepted DEF SnapshotsAreAccepted
<1>. QED  BY Invariance, <1>1, PTL

\* Every read recomputes the row from its submissions, and finds it as it is.
LEMMA RowHolds ==
    ASSUME NEW m \in Machines, Coherent(m)
    PROVE  MachineHolds(Row(m))
<1> DEFINE r == Row(m)
           last == LastSubmission(m)
           closing == IF m.state = "closed" THEN 1 ELSE 0
<1>1. /\ r.state = m.state /\ r.version = m.version
      /\ r.initial = m.initial /\ r.revision = m.revision
      /\ r.initialResult = IF Resolved(m) THEN Score(m) ELSE None
      /\ r.initialReceipt = IF Resolved(m) THEN Receipt("initial", m.initial, 1, 3, Score(m))
                                          ELSE None
      /\ r.revisionReceipt = IF m.revision = None THEN None
                             ELSE Receipt("revision", m.revision, 3, 4, Truth(m))
      /\ r.final = IF Revealed(m) THEN Truth(m) ELSE None
  BY RowIs
<1>. HIDE DEF r
<1>2. ASSUME Resolved(m)
      PROVE  /\ m.initial \in Submissions /\ m.initial # None /\ Score(m) # None
             /\ WrongCount(m) \in 0..NumItems /\ Score(m).wrong = WrongCount(m)
             /\ Score(m).revisionRequired = (WrongCount(m) > 0)
             /\ WrongCount(m) = 0 <=> ZeroWrong(m)
             /\ r.initialResult = Score(m)
             /\ r.initialReceipt = Receipt("initial", m.initial, 1, 3, Score(m))
             /\ r.initialReceipt # None
  <2>1. m.initial # NoSubmission /\ m.initial # None
    BY <1>2 DEF Coherent, Resolved, None
  <2>2. /\ m.initial \in Submissions /\ Score(m) # None
        /\ WrongCount(m) \in 0..NumItems /\ (WrongCount(m) = 0 <=> ZeroWrong(m))
        /\ Score(m) \in InitialResults
    BY <2>1, ScoreIs
  <2>3. Receipt("initial", m.initial, 1, 3, Score(m)) # None
    BY <2>2, ReceiptIs DEF Actions
  <2>4. Score(m).wrong = WrongCount(m) /\ Score(m).revisionRequired = (WrongCount(m) > 0)
    BY Zenon DEF Score
  <2>. QED  BY <1>1, <1>2, <2>1, <2>2, <2>3, <2>4
<1>3. ASSUME Revealed(m)
      PROVE  /\ Resolved(m) /\ Judges(Truth(m), m.initial, last)
             /\ Truth(m) # None /\ last # None /\ r.final = Truth(m)
             /\ Truth(m).firstWrong = WrongCount(m)
             /\ \/ /\ m.revision = None /\ WrongCount(m) = 0
                   /\ Truth(m).revisionUsed = FALSE /\ last = m.initial
                \/ /\ m.revision # None /\ WrongCount(m) > 0
                   /\ Truth(m).revisionUsed = TRUE /\ last = m.revision
                   /\ r.revisionReceipt # None
  <2>1. Resolved(m)
    BY <1>3 DEF Revealed, Resolved
  <2>2. /\ Judges(Truth(m), m.initial, last)
        /\ Truth(m).firstWrong = WrongCount(m)
        /\ \/ /\ m.revision = None /\ WrongCount(m) = 0
              /\ Truth(m).revisionUsed = FALSE /\ last = m.initial
           \/ /\ m.revision # None /\ WrongCount(m) > 0
              /\ Truth(m).revisionUsed = TRUE /\ last = m.revision
    BY <1>3, TruthIs
  <2>3. Truth(m) # None /\ Truth(m) \in FinalResults
    BY <2>2 DEF Judges
  <2>4. last # None
    BY <1>3, TruthIsOfSubmissions
  <2>5. m.revision # None => r.revisionReceipt # None
    <3>1. m.revision # None => m.revision \in Submissions
      BY DEF Machines, None
    <3>2. m.revision # None => Receipt("revision", m.revision, 3, 4, Truth(m)) # None
      BY <2>3, <3>1, ReceiptIs DEF Actions
    <3>. QED  BY <1>1, <3>2
  <2>. QED  BY <1>1, <1>3, <2>1, <2>2, <2>3, <2>4, <2>5
<1>4. InitialResultHolds(r)
  <2>1. CASE Resolved(m)
    BY <1>2, <2>1 DEF InitialResultHolds
  <2>2. CASE ~Resolved(m)
    BY <1>1, <2>2 DEF InitialResultHolds
  <2>. QED  BY <2>1, <2>2
<1>5. FinalResultHolds(r)
  <2>1. CASE ~Revealed(m)
    BY <1>1, <2>1 DEF FinalResultHolds
  <2>2. CASE Revealed(m)
    <3>1. (IF r.final.revisionUsed THEN r.revision ELSE r.initial) = last
      BY <1>1, <1>3, <2>2
    <3>2. /\ r.final = Truth(m) /\ r.initial = m.initial /\ r.initial # None /\ last # None
          /\ r.initialResult # None /\ r.initialResult.wrong = r.final.firstWrong
      BY <1>1, <1>2, <1>3, <2>2
    <3>3. \A i \in Items : FinalItemHolds(Truth(m).items[i],
                               Selections(m.initial)[i], Selections(last)[i])
      BY <1>3, <2>2, TruthItems
    <3>4. /\ Truth(m).firstWrong = Cardinality({i \in Items : ~Truth(m).items[i].firstCorrect})
          /\ Truth(m).finalCorrect = Cardinality({i \in Items : Truth(m).items[i].finalCorrect})
      BY <2>2, TruthCounts
    <3>. HIDE DEF last
    <3>. QED  BY <3>1, <3>2, <3>3, <3>4 DEF FinalResultHolds
  <2>. QED  BY <2>1, <2>2
<1>6. ReceiptsHold(r)
  <2>1. r.initialReceipt # None =>
            /\ r.initial # None /\ r.initialResult # None
            /\ r.initialReceipt = Receipt("initial", r.initial, 1, 3, r.initialResult)
    BY <1>1, <1>2
  <2>2. r.revisionReceipt # None =>
            /\ r.revision # None /\ r.final # None
            /\ r.revisionReceipt = Receipt("revision", r.revision, 3, 4, r.final)
    <3>1. m.revision # None => Revealed(m)
      BY DEF Coherent, ReadyMachine, Machines, States, Revealed, None
    <3>. QED  BY <1>1, <1>3, <3>1
  <2>. QED  BY <2>1, <2>2 DEF ReceiptsHold
<1>7. FieldsMatchState(r)
  <2>1. CASE m.state = "ready"
    <3>1. m.version = 1 /\ m.initial = None /\ m.revision = None /\ ~Resolved(m) /\ ~Revealed(m)
      BY <2>1 DEF Coherent, ReadyMachine, Resolved, Revealed, None
    <3>2. AllNone(r, InitialFields \cup RevisionFields \cup {"final"})
      BY <1>1, <3>1 DEF AllNone, InitialFields, RevisionFields
    <3>. QED  BY <1>1, <2>1, <3>1, <3>2 DEF FieldsMatchState
  <2>2. CASE m.state = "initial_locked"
    <3>1. m.version = 2 /\ m.initial # None /\ m.revision = None /\ ~Resolved(m) /\ ~Revealed(m)
      BY <2>2 DEF Coherent, Resolved, Revealed, None
    <3>2. AllNone(r, {"initialResult", "initialReceipt", "final"} \cup RevisionFields)
      BY <1>1, <3>1 DEF AllNone, RevisionFields
    <3>. QED  BY <1>1, <2>2, <3>1, <3>2 DEF FieldsMatchState
  <2>3. CASE m.state = "revision_open"
    <3>1. m.version = 3 /\ m.revision = None /\ Resolved(m) /\ ~Revealed(m) /\ ~ZeroWrong(m)
      BY <2>3 DEF Coherent, Resolved, Revealed, None
    <3>2. NoneIsNone(r, InitialFields)
      BY <1>1, <1>2, <3>1 DEF NoneIsNone, InitialFields
    <3>3. AllNone(r, RevisionFields \cup {"final"})
      BY <1>1, <3>1 DEF AllNone, RevisionFields
    <3>4. r.initialResult.revisionRequired
      <4>1. r.initialResult.revisionRequired = (WrongCount(m) > 0)
        BY <1>2, <3>1
      <4>2. WrongCount(m) > 0
        BY <1>2, <3>1, NumItemsAssumption
      <4>. QED  BY <4>1, <4>2, Zenon
    <3>. QED  BY <1>1, <2>3, <3>1, <3>2, <3>3, <3>4 DEF FieldsMatchState
  <2>4. CASE Revealed(m)
    <3>1. /\ m.state \in {"revealed", "closed"}
          /\ m.version = 3 + (IF m.revision = None THEN 0 ELSE 1) + closing
      BY <2>4 DEF Coherent, Revealed, None
    <3>2. NoneIsNone(r, InitialFields \cup {"final"})
      BY <1>1, <1>2, <1>3, <2>4 DEF NoneIsNone, InitialFields
    <3>3. r.initialResult.revisionRequired = (WrongCount(m) > 0)
      BY <1>2, <1>3, <2>4
    <3>4. CASE m.revision = None
      <4>0. r.final = Truth(m) /\ Truth(m).revisionUsed = FALSE /\ WrongCount(m) = 0
        BY <1>3, <2>4, <3>4
      <4>1. r.final.revisionUsed = FALSE /\ (WrongCount(m) > 0) = FALSE
        <5>1. (WrongCount(m) > 0) = FALSE
          BY <4>0
        <5>. QED  BY <4>0, <5>1
      <4>2. r.final.revisionUsed = r.initialResult.revisionRequired
        BY <3>3, <4>1, Zenon
      <4>3. AllNone(r, RevisionFields)
        BY <1>1, <3>4 DEF AllNone, RevisionFields
      <4>4. ~r.final.revisionUsed /\ r.version = 3 + closing
        BY <1>1, <3>1, <3>4, <4>1
      <4>. QED  BY <1>1, <3>1, <3>2, <4>2, <4>3, <4>4 DEF FieldsMatchState
    <3>5. CASE m.revision # None
      <4>0. r.final = Truth(m) /\ Truth(m).revisionUsed = TRUE /\ WrongCount(m) > 0
        BY <1>3, <2>4, <3>5
      <4>1. r.final.revisionUsed = TRUE /\ (WrongCount(m) > 0) = TRUE
        <5>1. (WrongCount(m) > 0) = TRUE
          BY <4>0
        <5>. QED  BY <4>0, <5>1
      <4>2. r.final.revisionUsed = r.initialResult.revisionRequired
        BY <3>3, <4>1, Zenon
      <4>3. NoneIsNone(r, RevisionFields)
        BY <1>1, <1>3, <2>4, <3>5 DEF NoneIsNone, RevisionFields
      <4>4. r.final.revisionUsed /\ r.version = 4 + closing
        BY <1>1, <3>1, <3>5, <4>1
      <4>. QED  BY <1>1, <3>1, <3>2, <4>2, <4>3, <4>4 DEF FieldsMatchState
    <3>. QED  BY <3>4, <3>5
  <2>. QED  BY <2>1, <2>2, <2>3, <2>4 DEF Machines, States, Revealed
<1>. QED  BY <1>4, <1>5, <1>6, <1>7 DEF MachineHolds, r

-----------------------------------------------------------------------------
(* What the observations say.                                               *)

\* An observation says of its item what the snapshot m says of it.
Tells(r, m) == /\ r.first = (r.item \in m.initial.sheet)
               /\ r.final = (r.item \in FinalSheet(m))

\* A plan tells the reveal that it is stored with.
PlansTell(p) == pc[p] \in {"reauthenticate", "save"} =>
                    \A r \in rows[p] : Tells(r, snap[p])

\* The reveal has its observations, and they tell it, of one session.
OutboxTells ==
    /\ Revealed(quiz) => outbox # {}
    /\ \A r \in outbox : Tells(r, quiz)
    /\ \A q, r \in outbox : q.session = r.session

\* An observation is in the log at its ordinal.
LoggedInPlace == \A n \in DOMAIN log : log[n].kind = "observation" => log[n].ordinal = n

TellInv == /\ \A p \in Procs : PlansTell(p)
           /\ OutboxTells
           /\ LoggedInPlace

\* Initially nothing is planned, revealed or observed.
LEMMA InitTell == Init => TellInv
BY DEF Init, TellInv, PlansTell, OutboxTells, LoggedInPlace, ReadyMachine, Revealed,
       CampaignEvent

\* A step plans observations of the snapshot that it will store with them.
LEMMA StepPlansTell ==
    ASSUME IInv, NEW p \in Procs, Step(p), PlansTell(p)
    PROVE  PlansTell(p)'
<1> USE DEF IInv
<1>1. CommandFits(p)
  BY DEF ReadsHold, Reads
<1>2. CASE Stamp(p)
  <2>1. /\ snap'[p] = snap[p]
        /\ rows'[p] = {Observation(i, snap[p], NextOrdinal, cmd[p].session) : i \in Items}
    BY <1>2 DEF Stamp, TypeOK
  <2>2. \A i \in Items : Tells(Observation(i, snap[p], NextOrdinal, cmd[p].session), snap[p])
    BY Zenon DEF Tells, Observation
  <2>. QED  BY <2>1, <2>2 DEF PlansTell
<1>3. CASE Resolve(p)
  <2>1. rows[p] = {} /\ (rows'[p] = rows[p] \/ rows'[p] = {})
    BY <1>1, <1>3 DEF Resolve, CommandFits, Keep, Refuse, Finish, TypeOK
  <2>. QED  BY <2>1 DEF PlansTell
<1>4. CASE Reauthenticate(p)
  <2>1. CASE Refuse(p)
    BY <2>1 DEF Refuse, Finish, TypeOK, PlansTell
  <2>2. CASE Keep(p, snap[p], "save")
    BY <1>4, <2>2, KeepEffect DEF Reauthenticate, PlansTell
  <2>. QED  BY <1>4, <2>1, <2>2 DEF Reauthenticate
<1>5. CASE ~(Stamp(p) \/ Resolve(p) \/ Reauthenticate(p))
  <2>1. pc'[p] \notin {"reauthenticate", "save"}
    BY <1>5 DEF TypeOK, Step, Authenticate, PendingObservations, AppendObservation,
       MarkDelivered, LoadForInitial, SaveLock, ReloadLock, FromLocked, LoadForRevision,
       SaveTransition, ReloadOutcome, Reply, CheckReplay, LoadForCompletion,
       Complete, Close, Keep, Goto, Refuse, Fail, Finish, AfterDrain
  <2>. QED  BY <2>1 DEF PlansTell
<1>. QED  BY <1>2, <1>3, <1>4, <1>5

\* Observations go on telling a quiz that is not revealed any further.
LEMMA OutboxGoesOn ==
    ASSUME IInv, OutboxLeads, OutboxTells, DbMoves, UNCHANGED outbox,
           Revealed(quiz') => Revealed(quiz)
    PROVE  OutboxTells'
<1>1. outbox # {} => Revealed(quiz)
  BY DEF OutboxLeads
<1>2. Revealed(quiz) => quiz'.initial = quiz.initial /\ quiz'.revision = quiz.revision
  BY DEF IInv, ReadsHold, Coherent, Revealed, DbMoves
<1>3. ASSUME NEW r \in outbox PROVE Tells(r, quiz')
  <2>1. quiz'.initial = quiz.initial /\ quiz'.revision = quiz.revision
    BY <1>1, <1>2, <1>3
  <2>2. FinalSheet(quiz') = FinalSheet(quiz)
    BY <2>1 DEF FinalSheet
  <2>3. Tells(r, quiz)
    BY <1>3 DEF OutboxTells
  <2>. QED  BY <2>1, <2>2, <2>3, Zenon DEF Tells
<1>. QED  BY <1>3 DEF OutboxTells

\* A reveal brings its observations along.
LEMMA StepOutboxTells ==
    ASSUME IInv, DrainInv, TellInv, DbMoves, NEW p \in Procs, Step(p)
    PROVE  OutboxTells'
<1> USE DEF IInv
<1>1. OutboxLeads /\ OutboxTells /\ PlansTell(p) /\ PlansReveal(p)
  BY DEF DrainInv, TellInv
<1>2. CASE SaveTransition(p)
  <2>1. CASE UNCHANGED <<quiz, outbox>>
    BY <1>1, <2>1, OutboxGoesOn
  <2>2. CASE /\ quiz.version = snap[p].version - 1 /\ OrdinalsFree(p)
             /\ quiz' = snap[p] /\ outbox' = outbox \cup rows[p]
    <3>1. pc[p] = "save" /\ Reads(p)
      BY <1>2 DEF SaveTransition, ReadsHold
    <3>2. CASE rows[p] = {}
      <4>1. outbox' = outbox /\ snap[p].state = "revision_open"
        BY <2>2, <3>1, <3>2 DEF Reads
      <4>2. ~Revealed(quiz')
        BY <2>2, <4>1 DEF Revealed
      <4>. QED  BY <1>1, <4>1, <4>2, OutboxGoesOn
    <3>3. CASE rows[p] # {}
      <4>1. UNCHANGED <<delivered, log>>
        BY <1>2 DEF SaveTransition
      <4>2. outbox = {}
        BY <1>1, <2>2, <3>1, <3>3, <4>1, RevealIsReserved
      <4>3. outbox' = rows[p]
        BY <2>2, <4>2
      <4>4. \A q, r \in rows[p] : q.session = r.session
        BY DEF PlansInsideTheirSession
      <4>5. \A r \in rows[p] : Tells(r, quiz')
        BY <1>1, <2>2, <3>1 DEF PlansTell
      <4>. QED  BY <3>3, <4>3, <4>4, <4>5 DEF OutboxTells
    <3>. QED  BY <3>2, <3>3
  <2>. QED  BY <1>2, <2>1, <2>2 DEF SaveTransition
<1>3. CASE SaveLock(p)
  <2>1. UNCHANGED outbox /\ (quiz' = quiz \/ quiz' = snap[p]) /\ pc[p] = "lock"
    BY <1>3 DEF SaveLock
  <2>2. snap[p].state = "initial_locked"
    <3>1. snap[p] = [ReadyMachine EXCEPT !.state = "initial_locked",
                                         !.version = ReadyMachine.version + 1,
                                         !.initial = Submission(cmd[p])]
      BY <2>1 DEF ReadsHold, Reads, LockInitial
    <3>. QED  BY <3>1 DEF ReadyMachine
  <2>3. Revealed(quiz') => Revealed(quiz)
    BY <2>1, <2>2 DEF Revealed
  <2>. QED  BY <1>1, <2>1, <2>3, OutboxGoesOn
<1>4. CASE Close(p)
  <2>1. UNCHANGED outbox /\ (quiz' = quiz \/ quiz.state = "revealed")
    BY <1>4 DEF Close
  <2>. QED  BY <1>1, <2>1, OutboxGoesOn DEF Revealed
<1>5. CASE UNCHANGED <<quiz, outbox>>
  BY <1>1, <1>5, OutboxGoesOn
<1>. QED  BY <1>2, <1>3, <1>4, <1>5 DEF Step, db, Authenticate,
          PendingObservations, AppendObservation, MarkDelivered, LoadForInitial,
          ReloadLock, Resolve, LoadForRevision, Stamp, Reauthenticate,
          ReloadOutcome, Reply, CheckReplay, LoadForCompletion, Complete

\* An observation is appended where it was reserved a place.
LEMMA StepLogsInPlace ==
    ASSUME IInv, DrainInv, LoggedInPlace, NEW p \in Procs, Step(p)
    PROVE  LoggedInPlace'
<1>0. log \in Seq(Events) /\ Len(log) \in Nat
  BY DEF IInv, TypeOK
<1>1. CASE UNCHANGED log
  BY <1>1 DEF LoggedInPlace
<1>2. ASSUME NEW e, log' = Append(log, e),
             e.kind # "observation" \/ e.ordinal = Len(log) + 1
      PROVE  LoggedInPlace'
  <2>1. \A n \in DOMAIN log' :
            \/ n \in DOMAIN log /\ log'[n] = log[n]
            \/ n = Len(log) + 1 /\ log'[n] = e
    BY <1>0, <1>2
  <2>. QED  BY <1>2, <2>1 DEF LoggedInPlace
<1>3. CASE AppendObservation(p) /\ log' # log
  <2>1. PICK r : r = Earliest(pend[p])
    OBVIOUS
  <2>2. log' = Append(log, r) /\ r.ordinal = Len(log) + 1
    BY <1>3, <2>1, AppendsNext DEF AppendObservation, Appendable
  <2>. QED  BY <1>2, <2>2
<1>4. CASE Complete(p) /\ log' # log
  <2>1. log' = Append(log, CompletionEvent(cmd[p]))
    BY <1>4 DEF Complete
  <2>2. CompletionEvent(cmd[p]).kind # "observation"
    BY DEF CompletionEvent
  <2>. QED  BY <1>2, <2>1, <2>2
<1>. QED  BY <1>1, <1>3, <1>4 DEF Step, db, Authenticate, PendingObservations,
          MarkDelivered, LoadForInitial, SaveLock, ReloadLock, Resolve, LoadForRevision,
          Stamp, Reauthenticate, SaveTransition, ReloadOutcome, Reply, CheckReplay,
          LoadForCompletion, Close

\* The other steps touch neither the quiz nor its observations.
LEMMA OthersTell ==
    ASSUME IInv, DrainInv, TellInv, Others
    PROVE  TellInv'
<1>1. DbMoves /\ UNCHANGED <<quiz, outbox>>
  BY OthersMove
<1>2. OutboxTells'
  BY <1>1, OutboxGoesOn DEF DrainInv, TellInv
<1>3. LoggedInPlace'
  <2>0. log \in Seq(Events) /\ Len(log) \in Nat
    BY DEF IInv, TypeOK
  <2>1. log' = log \/ log' = Append(log, CampaignEvent("campaign"))
    BY DEF Others, Abandon, Begin, OpenSession, OtherProgression, vars, db
  <2>2. CampaignEvent("campaign").kind # "observation"
    BY DEF CampaignEvent
  <2>3. \A n \in DOMAIN log' :
            \/ n \in DOMAIN log /\ log'[n] = log[n]
            \/ log'[n] = CampaignEvent("campaign")
    BY <2>0, <2>1
  <2>. QED  BY <2>2, <2>3 DEF LoggedInPlace, TellInv
<1>4. ASSUME NEW q \in Procs PROVE PlansTell(q)'
  <2>1. CASE UNCHANGED <<pc[q], cmd[q], snap[q], pend[q], rows[q]>>
    BY <2>1 DEF TellInv, PlansTell
  <2>2. CASE Abandon(q) \/ \E c \in Commands : Begin(q, c)
    <3>1. pc'[q] \notin {"reauthenticate", "save"}
      BY <2>2 DEF Abandon, Refuse, Finish, Begin, Goto, IInv, TypeOK
    <3>. QED  BY <3>1 DEF PlansTell
  <2>. QED  BY <2>1, <2>2, OthersAreLocal
<1>. QED  BY <1>2, <1>3, <1>4 DEF TellInv

\* Every step keeps the observations telling the quiz.
LEMMA NextTell == IInv /\ DrainInv /\ TellInv /\ [Next]_vars => TellInv'
<1> SUFFICES ASSUME IInv, DrainInv, TellInv, [Next]_vars PROVE TellInv'
  OBVIOUS
<1>1. CASE Others
  BY <1>1, OthersTell
<1>2. ASSUME NEW p \in Procs, Step(p) PROVE TellInv'
  <2>1. DbMoves
    BY <1>2, StepMoves
  <2>2. PlansTell(p)'
    BY <1>2, StepPlansTell DEF TellInv
  <2>3. \A q \in Procs \ {p} : PlansTell(q)'
    BY <1>2, StepIsLocal DEF TellInv, PlansTell
  <2>4. OutboxTells' /\ LoggedInPlace'
    BY <1>2, <2>1, StepOutboxTells, StepLogsInPlace DEF TellInv
  <2>. QED  BY <2>2, <2>3, <2>4 DEF TellInv
<1>. QED  BY <1>1, <1>2 DEF Next, Others

\* A set that the items number has as many elements as there are items.
LEMMA OnePerItem ==
    ASSUME NEW S, NEW f \in [Items -> S],
           \A i, j \in Items : f[i] = f[j] => i = j,
           \A s \in S : \E i \in Items : f[i] = s
    PROVE  Cardinality(S) = NumItems
<1>1. IsFiniteSet(Items) /\ Cardinality(Items) = NumItems
  BY FS_Interval, NumItemsAssumption DEF Items
<1>2. f \in Bijection(Items, S)
  BY Fun_IsBij
<1>3. ExistsBijection(Items, S)
  BY <1>2, Fun_ExistsBij
<1>. QED  BY <1>1, <1>3, FS_Bijection

\* A whole reveal has one observation, and one ordinal, for each item.
LEMMA WholeRevealCounts ==
    ASSUME NEW R \in SUBSET Observations, WholeReveal(R), R # {}
    PROVE  /\ Cardinality(R) = NumItems
           /\ {r.item : r \in R} = Items
           /\ Cardinality({r.ordinal : r \in R}) = NumItems
<1> DEFINE f == [i \in Items |-> CHOOSE r \in R : r.item = i]
           g == [i \in Items |-> f[i].ordinal]
           N == {r.ordinal : r \in R}
<1>1. \A i \in Items : f[i] \in R /\ f[i].item = i
  BY DEF WholeReveal
<1>2. f \in [Items -> R]
  BY <1>1
<1>. HIDE DEF f
<1>3. \A r \in R : r.item \in Items /\ f[r.item] = r
  BY <1>1 DEF WholeReveal, Observations
<1>4. Cardinality(R) = NumItems
  BY <1>1, <1>2, <1>3, OnePerItem
<1>5. {r.item : r \in R} = Items
  BY <1>1, <1>3
<1>6. Cardinality(N) = NumItems
  <2>1. g \in [Items -> N] /\ \A i \in Items : g[i] = f[i].ordinal
    BY <1>1
  <2>2. \A i, j \in Items : f[i].ordinal = f[j].ordinal => i = j
    BY <1>1, OneRowEach
  <2>3. \A n \in N : \E i \in Items : f[i].ordinal = n
    BY <1>3
  <2>. HIDE DEF g, N
  <2>. QED  BY <2>1, <2>2, <2>3, OnePerItem
<1>. QED  BY <1>4, <1>5, <1>6

\* The observations of a reveal are those of its row.
LEMMA ObservationsHold ==
    ASSUME quiz \in Machines, Coherent(quiz), outbox \in SUBSET Observations,
           OutboxLeads, OutboxTells
    PROVE  ObservationsMatch(Row(quiz), outbox)
<1> DEFINE r == Row(quiz)
           last == LastSubmission(quiz)
<1>1. r.final = IF Revealed(quiz) THEN Truth(quiz) ELSE None
  BY RowIs
<1>. HIDE DEF r
<1>2. CASE ~Revealed(quiz)
  <2>1. outbox = {} /\ RevealAction(r) = None
    BY <1>1, <1>2 DEF OutboxLeads, RevealAction
  <2>. QED  BY <2>1 DEF ObservationsMatch, r
<1>3. CASE Revealed(quiz)
  <2>1. outbox # {} /\ WholeReveal(outbox)
    BY <1>3 DEF OutboxTells, OutboxLeads
  <2>2. /\ quiz.initial \in Submissions /\ last \in Submissions
        /\ Judges(Truth(quiz), quiz.initial, last)
        /\ FinalSheet(quiz) = last.sheet
    BY <1>3, TruthIs DEF FinalSheet, LastSubmission, None
  <2>3. r.final = Truth(quiz) /\ r.final # None
    BY <1>1, <1>3, <2>2 DEF Judges
  <2>4. ASSUME NEW o \in outbox
        PROVE  /\ o.first = r.final.items[o.item].firstCorrect
               /\ o.final = r.final.items[o.item].finalCorrect
    <3>1. o.item \in Items
      BY DEF Observations
    <3>2. /\ Truth(quiz).items[o.item].firstCorrect = (Selections(quiz.initial)[o.item] = "key")
          /\ Truth(quiz).items[o.item].finalCorrect = (Selections(last)[o.item] = "key")
      BY <2>2, <3>1 DEF Judges
    <3>3. (Selections(quiz.initial)[o.item] = "key") = (o.item \in quiz.initial.sheet)
      <4>1. Selections(quiz.initial)[o.item] = "key" <=> o.item \in quiz.initial.sheet
        BY <2>2, <3>1, Counting
      <4>. QED  BY <4>1
    <3>4. (Selections(last)[o.item] = "key") = (o.item \in last.sheet)
      <4>1. Selections(last)[o.item] = "key" <=> o.item \in last.sheet
        BY <2>2, <3>1, Counting
      <4>. QED  BY <4>1
    <3>5. /\ o.first = (o.item \in quiz.initial.sheet)
          /\ o.final = (o.item \in last.sheet)
      <4>1. Tells(o, quiz)
        BY DEF OutboxTells
      <4>. QED  BY <2>2, <4>1, Zenon DEF Tells
    <3>6. /\ o.first = Truth(quiz).items[o.item].firstCorrect
          /\ o.final = Truth(quiz).items[o.item].finalCorrect
      <4>1. o.first = Truth(quiz).items[o.item].firstCorrect
        BY <3>2, <3>3, <3>5, Zenon
      <4>2. o.final = Truth(quiz).items[o.item].finalCorrect
        BY <3>2, <3>4, <3>5, Zenon
      <4>. QED  BY <4>1, <4>2
    <3>. QED  BY <2>3, <3>6
  <2>5. RevealAction(r) # None
    <3>1. RevealAction(r) \in {"initial", "revision"}
      BY <2>3 DEF RevealAction
    <3>. QED  BY <3>1, NoneAssumption DEF Actions
  <2>6. \A o, q \in outbox : o.session = q.session
    BY DEF OutboxTells
  <2>. QED  BY <2>1, <2>4, <2>5, <2>6, WholeRevealCounts DEF ObservationsMatch, r
<1>. QED  BY <1>2, <1>3

\* A delivered row is in the log where it says.
LEMMA DeliveredHold ==
    ASSUME OutboxLeads, LoggedInPlace, outbox \in SUBSET Observations
    PROVE  DeliveredMatch(outbox)
<1> SUFFICES ASSUME NEW o \in outbox, o.item \in delivered
             PROVE  o.ordinal \in DOMAIN log /\ log[o.ordinal] = o
  BY DEF DeliveredMatch
<1>1. PICK n \in DOMAIN log : log[n] = o
  BY DEF OutboxLeads, DeliveredAreLogged, Logged
<1>2. o.kind = "observation"
  BY DEF Observations
<1>. QED  BY <1>1, <1>2 DEF LoggedInPlace

\* The stored quiz can be read at any moment, whichever commands, drains,
\* competing events and crashes came in between: its row, receipts and
\* observations and the learner's log tell one story.
THEOREM QuizCanBeRead == Spec => []QuizLoads
<1>1. Init => IInv /\ DrainInv /\ TellInv
  BY InitInv, InitDrain, InitTell
<1>2. IInv /\ DrainInv /\ TellInv /\ [Next]_vars => IInv' /\ DrainInv' /\ TellInv'
  BY NextInv, NextDrain, NextTell
<1>3. IInv /\ DrainInv /\ TellInv => QuizLoads
  <2> SUFFICES ASSUME IInv, DrainInv, TellInv PROVE QuizLoads
    OBVIOUS
  <2>1. /\ quiz \in Machines /\ Coherent(quiz) /\ outbox \in SUBSET Observations
        /\ OutboxLeads /\ OutboxTells /\ LoggedInPlace
    BY DEF IInv, TypeOK, ReadsHold, DrainInv, TellInv
  <2>. QED  BY <2>1, RowHolds, ObservationsHold, DeliveredHold DEF QuizLoads, Loads
<1>. QED  BY <1>1, <1>2, <1>3, PTL DEF Spec

-----------------------------------------------------------------------------
(* The writes.                                                              *)

\* One write of the quiz: locked, scored, revised or closed.
QuizMoves(m, n) ==
    /\ m.initial # NoSubmission => n.initial = m.initial
    /\ \/ m.state = "ready" /\ n.state = "initial_locked"
       \/ /\ m.state = "initial_locked" /\ n.state \in {"revision_open", "revealed"}
          /\ n.revision = NoSubmission
       \/ /\ m.state = "revision_open" /\ n.state = "revealed"
          /\ n.revision # NoSubmission
       \/ /\ m.state = "revealed" /\ n.state = "closed"
          /\ n.revision = m.revision

\* A process writes nothing but such a step.
LEMMA StepWrites ==
    ASSUME IInv, NEW p \in Procs, Step(p), quiz' # quiz
    PROVE  QuizMoves(quiz, quiz')
<1> USE DEF IInv
<1>0. /\ Reads(p) /\ quiz \in Machines /\ Coherent(quiz)
      /\ snap[p] \in Machines /\ Coherent(snap[p])
  BY DEF ReadsHold, Reads, TypeOK
<1>1. CASE SaveLock(p)
  <2>1. /\ snap[p] = LockInitial(ReadyMachine, Submission(cmd[p])) /\ quiz' = snap[p]
        /\ quiz.version = snap[p].version - 1
    BY <1>0, <1>1 DEF SaveLock, Reads
  <2>2. snap[p].state = "initial_locked" /\ snap[p].version = 2
    <3>1. snap[p] = [ReadyMachine EXCEPT !.state = "initial_locked",
                                         !.version = ReadyMachine.version + 1,
                                         !.initial = Submission(cmd[p])]
      BY <2>1 DEF LockInitial
    <3>. QED  BY <3>1 DEF ReadyMachine
  <2>3. quiz.version = 1
    BY <1>0, <2>1, <2>2 DEF Machines
  <2>4. quiz.state = "ready"
    BY <1>0, <2>3 DEF Coherent, Revealed, Machines, States
  <2>5. quiz.initial = NoSubmission
    BY <1>0, <2>4 DEF Coherent, ReadyMachine
  <2>. QED  BY <2>1, <2>2, <2>4, <2>5 DEF QuizMoves
<1>2. CASE SaveTransition(p)
  <2>1. /\ quiz' = snap[p] /\ quiz.version = snap[p].version - 1 /\ pc[p] = "save"
    BY <1>2 DEF SaveTransition
  <2>2. /\ snap[p].initial = quiz.initial /\ quiz.initial # NoSubmission
        /\ snap[p].state \in {"revision_open", "revealed"}
        /\ ZeroWrong(snap[p]) <=> ZeroWrong(quiz)
    BY <1>0, <2>1 DEF Reads, Coherent, ZeroWrong
  <2>3. CASE snap[p].state = "revision_open" \/ ZeroWrong(snap[p])
    <3>1. quiz.version = 2 /\ snap[p].revision = NoSubmission
      BY <1>0, <2>1, <2>2, <2>3 DEF Coherent, Revealed, Machines
    <3>2. quiz.state = "initial_locked"
      BY <1>0, <2>2, <3>1 DEF Coherent, ReadyMachine, Revealed, Machines, States
    <3>. QED  BY <2>1, <2>2, <3>1, <3>2 DEF QuizMoves
  <2>4. CASE snap[p].state = "revealed" /\ ~ZeroWrong(snap[p])
    <3>1. quiz.version = 3 /\ snap[p].revision # NoSubmission
      BY <1>0, <2>1, <2>4 DEF Coherent, Revealed, Machines
    <3>2. quiz.state = "revision_open"
      BY <1>0, <2>2, <2>4, <3>1 DEF Coherent, ReadyMachine, Revealed, Machines, States
    <3>. QED  BY <2>1, <2>2, <2>4, <3>1, <3>2 DEF QuizMoves
  <2>. QED  BY <2>2, <2>3, <2>4
<1>3. CASE Close(p)
  <2>1. quiz.state = "revealed" /\ quiz' = CloseQuiz(quiz)
    BY <1>3 DEF Close
  <2>. QED  BY <1>0, <2>1, CloseQuizOK DEF QuizMoves
<1>4. SaveLock(p) \/ SaveTransition(p) \/ Close(p) \/ UNCHANGED quiz
  BY DEF Step, db, Authenticate, PendingObservations,
     AppendObservation, MarkDelivered, LoadForInitial, ReloadLock, Resolve,
     LoadForRevision, Stamp, Reauthenticate, ReloadOutcome, Reply, CheckReplay,
     LoadForCompletion, Complete
<1>. QED  BY <1>1, <1>2, <1>3, <1>4

\* At most one receipt appears if it can only be this one.
LEMMA AtMostOne ==
    ASSUME NEW S, NEW e, S \subseteq {e}
    PROVE  Cardinality(S) <= 1
<1>1. S = {} \/ S = {e}
  OBVIOUS
<1>2. Cardinality({}) = 0
  BY FS_EmptySet
<1>3. Cardinality({e}) = 1
  BY FS_Singleton
<1>. QED  BY <1>1, <1>2, <1>3

\* The store allows itself every such step.
LEMMA MovesAreLegal ==
    ASSUME NEW m \in Machines, Coherent(m), NEW n \in Machines, Coherent(n),
           QuizMoves(m, n)
    PROVE  LegalTransition(Row(m), Row(n))
<1> DEFINE r == Row(m)
           next == Row(n)
           written == {f \in {"initialReceipt", "revisionReceipt"} :
                           r[f] = None /\ next[f] # None}
           one(f) == r[f] # None => next[f] = r[f]
           kept == \A f \in InitialFields \cup RevisionFields \cup {"final"} : one(f)
<1> SUFFICES LegalTransition(r, next)
  OBVIOUS
<1>1. /\ r.state = m.state /\ r.version = m.version
      /\ r.initial = m.initial /\ r.revision = m.revision
      /\ r.initialResult = IF Resolved(m) THEN Score(m) ELSE None
      /\ r.initialReceipt = IF Resolved(m) THEN Receipt("initial", m.initial, 1, 3, Score(m))
                                          ELSE None
      /\ r.revisionReceipt = IF m.revision = None THEN None
                             ELSE Receipt("revision", m.revision, 3, 4, Truth(m))
      /\ r.final = IF Revealed(m) THEN Truth(m) ELSE None
  BY RowIs
<1>2. /\ next.state = n.state /\ next.version = n.version
      /\ next.initial = n.initial /\ next.revision = n.revision
      /\ next.initialResult = IF Resolved(n) THEN Score(n) ELSE None
      /\ next.initialReceipt = IF Resolved(n) THEN Receipt("initial", n.initial, 1, 3, Score(n))
                                             ELSE None
      /\ next.revisionReceipt = IF n.revision = None THEN None
                                ELSE Receipt("revision", n.revision, 3, 4, Truth(n))
      /\ next.final = IF Revealed(n) THEN Truth(n) ELSE None
  BY RowIs
<1>. HIDE DEF r, next
<1>3. (/\ r.initial # None => next.initial = r.initial
       /\ r.initialResult # None => next.initialResult = r.initialResult
       /\ r.initialReceipt # None => next.initialReceipt = r.initialReceipt
       /\ r.revision # None => next.revision = r.revision
       /\ r.revisionReceipt # None => next.revisionReceipt = r.revisionReceipt
       /\ r.final # None => next.final = r.final) => kept
  BY DEF InitialFields, RevisionFields
<1>4. /\ "initialReceipt" \in written =>
             r.initialReceipt = None /\ next.initialReceipt # None
      /\ "revisionReceipt" \in written =>
             r.revisionReceipt = None /\ next.revisionReceipt # None
      /\ written \subseteq {"initialReceipt", "revisionReceipt"}
  OBVIOUS
<1>. HIDE DEF kept, written
<1>5. m.initial # NoSubmission => Score(n) = Score(m)
  BY Zenon DEF QuizMoves, Score, WrongCount
<1>6. m.initial # NoSubmission /\ n.revision = m.revision => Truth(n) = Truth(m)
  BY DEF QuizMoves, Truth
<1>7. /\ m.state # "ready" => m.initial # NoSubmission
      /\ m.state \in {"ready", "initial_locked", "revision_open"} =>
             m.revision = NoSubmission /\ m.revision = None
      /\ m.state = "ready" => m.version = 1 /\ m.initial = None
      /\ m.state = "initial_locked" => m.version = 2
      /\ m.state = "revision_open" => m.version = 3 /\ ~ZeroWrong(m)
  BY DEF Coherent, ReadyMachine, None
<1>8. LegalTransition(r, next) <=>
          /\ VersionDelta(r.state, next.state) # 0
          /\ next.version = r.version + VersionDelta(r.state, next.state)
          /\ kept
          /\ Cardinality(written) <= 1
  BY Zenon DEF LegalTransition, kept, written
<1>9. CASE m.state = "ready"
  <2>1. n.state = "initial_locked" /\ n.version = 2 /\ n.revision = None /\ ~Resolved(n)
    BY <1>9 DEF QuizMoves, Coherent, Resolved, None
  <2>2. VersionDelta(r.state, next.state) = 1
    BY <1>1, <1>2, <1>9, <2>1 DEF VersionDelta
  <2>3. ~Resolved(m) /\ ~Revealed(m)
    BY <1>9 DEF Resolved, Revealed
  <2>4. kept
    BY <1>1, <1>3, <1>7, <1>9, <2>3
  <2>5. Cardinality(written) <= 1
    <3>1. written \subseteq {"initialReceipt"}
      BY <1>2, <1>4, <2>1
    <3>. QED  BY <3>1, AtMostOne
  <2>. QED  BY <1>1, <1>2, <1>7, <1>8, <1>9, <2>1, <2>2, <2>4, <2>5
<1>10. CASE m.state = "initial_locked"
  <2>1. /\ n.state \in {"revision_open", "revealed"} /\ n.version = 3
        /\ n.initial = m.initial /\ n.revision = None
    BY <1>7, <1>10 DEF QuizMoves, Coherent, Revealed, None
  <2>2. VersionDelta(r.state, next.state) = 1
    BY <1>1, <1>2, <1>10, <2>1 DEF VersionDelta
  <2>3. ~Resolved(m) /\ ~Revealed(m)
    BY <1>10 DEF Resolved, Revealed
  <2>4. kept
    BY <1>1, <1>2, <1>3, <1>7, <1>10, <2>1, <2>3
  <2>5. Cardinality(written) <= 1
    <3>1. written \subseteq {"initialReceipt"}
      BY <1>2, <1>4, <2>1
    <3>. QED  BY <3>1, AtMostOne
  <2>. QED  BY <1>1, <1>2, <1>7, <1>8, <1>10, <2>1, <2>2, <2>4, <2>5
<1>11. CASE m.state = "revision_open"
  <2>1. /\ n.state = "revealed" /\ n.initial = m.initial
    BY <1>7, <1>11 DEF QuizMoves
  <2>2. n.version = 4
    BY <1>7, <1>11, <2>1 DEF Coherent, Revealed, ZeroWrong
  <2>3. VersionDelta(r.state, next.state) = 1
    BY <1>1, <1>2, <1>11, <2>1 DEF VersionDelta
  <2>4. Resolved(m) /\ ~Revealed(m) /\ Resolved(n)
    BY <1>11, <2>1 DEF Resolved, Revealed
  <2>5. kept
    BY <1>1, <1>2, <1>3, <1>5, <1>7, <1>11, <2>1, <2>4
  <2>6. Cardinality(written) <= 1
    <3>1. next.initialReceipt = r.initialReceipt
      BY <1>1, <1>2, <1>5, <1>7, <1>11, <2>1, <2>4
    <3>2. written \subseteq {"revisionReceipt"}
      BY <1>4, <3>1
    <3>. QED  BY <3>2, AtMostOne
  <2>. QED  BY <1>1, <1>2, <1>7, <1>8, <1>11, <2>2, <2>3, <2>5, <2>6
<1>12. CASE m.state = "revealed"
  <2>1. n.state = "closed" /\ n.initial = m.initial /\ n.revision = m.revision
    BY <1>7, <1>12 DEF QuizMoves
  <2>2. n.version = m.version + 1
    BY <1>12, <2>1 DEF Coherent, Revealed, ZeroWrong
  <2>3. VersionDelta(r.state, next.state) = 1
    BY <1>1, <1>2, <1>12, <2>1 DEF VersionDelta
  <2>4. Resolved(m) /\ Revealed(m) /\ Resolved(n) /\ Revealed(n)
    BY <1>12, <2>1 DEF Resolved, Revealed
  <2>5. Score(n) = Score(m) /\ Truth(n) = Truth(m)
    BY <1>5, <1>6, <1>7, <1>12, <2>1
  <2>6. kept
    BY <1>1, <1>2, <1>3, <2>1, <2>4, <2>5
  <2>7. Cardinality(written) <= 1
    <3>1. next.initialReceipt = r.initialReceipt /\ next.revisionReceipt = r.revisionReceipt
      BY <1>1, <1>2, <2>1, <2>4, <2>5
    <3>2. written \subseteq {"initialReceipt"}
      BY <1>4, <3>1
    <3>. QED  BY <3>2, AtMostOne
  <2>. QED  BY <1>1, <1>2, <1>8, <2>2, <2>3, <2>6, <2>7
<1>. QED  BY <1>9, <1>10, <1>11, <1>12 DEF QuizMoves

\* Every write is one the store allows itself: no process, however stale what
\* it read, takes back, skips or repeats a step of the quiz.
THEOREM WritesFollow == Spec => WritesAreLegal
<1>1. IInv /\ IInv' /\ [Next]_vars =>
          [quiz' # quiz => LegalTransition(Row(quiz), Row(quiz'))]_vars
  <2> SUFFICES ASSUME IInv, IInv', [Next]_vars, quiz' # quiz
               PROVE  LegalTransition(Row(quiz), Row(quiz'))
    OBVIOUS
  <2>1. ~Others
    BY OthersMove
  <2>2. PICK p \in Procs : Step(p)
    BY <2>1 DEF Next, Others
  <2>3. /\ quiz \in Machines /\ Coherent(quiz)
        /\ quiz' \in Machines /\ Coherent(quiz')
    BY DEF IInv, TypeOK, ReadsHold
  <2>. QED  BY <2>2, <2>3, StepWrites, MovesAreLegal
<1>. QED  BY Invariance, <1>1, PTL DEF Spec, WritesAreLegal

=============================================================================
