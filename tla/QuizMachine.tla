---------------------------- MODULE QuizMachine ----------------------------
(***************************************************************************)
(* The immutable two-pass quiz snapshot of app/quiz_machine.py and the     *)
(* functions that turn one snapshot into the next.  They are pure: a       *)
(* snapshot read from the database may be stale by the time its successor  *)
(* is stored, which is what QuizSubmissions is about.                      *)
(*                                                                         *)
(* A complete answer sheet is abstracted to the set of items it answers    *)
(* correctly; option ids, confidences and feedback play no part here.      *)
(***************************************************************************)
EXTENDS Integers, FiniteSets

CONSTANTS
    NumItems,       \* items of the sealed batch
    Requests,       \* client request ids
    Sheets,         \* the answer sheets learners hand in
    NoSubmission    \* stands for None

Items == 1..NumItems

ASSUME NumItemsAssumption == NumItems \in Nat \ {0}
ASSUME SheetsAssumption == Sheets \subseteq SUBSET Items

Submissions == [request : Requests, sheet : Sheets]

ASSUME NoSubmissionAssumption == NoSubmission \notin Submissions

States == {"ready", "initial_locked", "revision_open", "revealed", "closed"}

Machines == [state : States, version : 1..5,
             initial : Submissions \cup {NoSubmission},
             revision : Submissions \cup {NoSubmission}]

\* What mark_ready leaves behind: an unanswered batch at version 1.
ReadyMachine == [state |-> "ready", version |-> 1,
                 initial |-> NoSubmission, revision |-> NoSubmission]

Resolved(m) == m.state \in {"revision_open", "revealed", "closed"}
Revealed(m) == m.state \in {"revealed", "closed"}

\* wrong_count of a locked first pass.
WrongCount(m) == Cardinality(Items \ m.initial.sheet)

ZeroWrong(m) == m.initial.sheet = Items

\* The sheet a revealed batch is finally scored by.
FinalSheet(m) == IF m.revision = NoSubmission THEN m.initial.sheet
                                              ELSE m.revision.sheet

-----------------------------------------------------------------------------
(* What submitting sub to m would do: hand back the recorded outcome,       *)
(* build a successor, or raise.                                             *)

\* (mutant) The first pass may be handed in again until it is revised.
RelockAccepts(m) == m.state \in {"ready", "revision_open"}

LockReplays(m, sub) == m.initial = sub
LockAccepts(m) == m.initial = NoSubmission /\ m.state = "ready"

LockInitial(m, sub) ==
    [m EXCEPT !.state = "initial_locked", !.version = m.version + 1,
              !.initial = sub]

ResolveInitial(m) ==
    [m EXCEPT !.state = IF ZeroWrong(m) THEN "revealed" ELSE "revision_open",
              !.version = m.version + 1]

\* (mutant) A revealed batch may be revised again.
ReviseAgainAccepts(m) == m.state \in {"revision_open", "revealed"}

RevisionReplays(m, sub) == m.revision = sub
RevisionAccepts(m) == m.revision = NoSubmission /\ m.state = "revision_open"

SubmitRevision(m, sub) ==
    [m EXCEPT !.state = "revealed", !.version = m.version + 1,
              !.revision = sub]

CloseQuiz(m) == [m EXCEPT !.state = "closed", !.version = m.version + 1]
=============================================================================
