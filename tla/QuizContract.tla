---------------------------- MODULE QuizContract ----------------------------
(***************************************************************************)
(* What a quiz looks like in storage and on the wire, and who refuses it.   *)
(*                                                                         *)
(* The row of a quiz repeats itself: counts, results and receipts follow   *)
(* from the submissions, and the rows of its receipts and observations from *)
(* those.  Each is written by another function, in another transaction, and *)
(* every read recomputes them all (quiz_store.py), again when the row goes  *)
(* out (contracts.py), and again in the game (StrictQuizValidator.cs).  One *)
(* disagreement makes a quiz unreadable for good: the learner is stuck with *)
(* a batch that cannot be answered, closed or replaced.                     *)
(*                                                                         *)
(* The snapshot QuizMachine keeps of a quiz is what the rest follows from.  *)
(* Row says what the functions of quiz_machine.py have made of it by then.  *)
(* Identities, texts, hashes, confidences and the bounds on sizes are left  *)
(* out; a wrong answer is one option.                                       *)
(***************************************************************************)
EXTENDS QuizSubmissions

None == NoSubmission

Options == {"key", "other"}

\* What a submission selects for each item.
Selections(sub) == [i \in Items |-> IF i \in sub.sheet THEN "key" ELSE "other"]

Wrong(choices) == Cardinality({i \in Items : choices[i] # "key"})

-----------------------------------------------------------------------------
(* quiz_machine.py, on whole rows.                                          *)

InitialResults == [wrong : 0..NumItems, revisionRequired : BOOLEAN]

ItemResults == [first : Options, final : Options, firstCorrect : BOOLEAN,
                finalCorrect : BOOLEAN, selfCorrected : BOOLEAN,
                possibleError : Options \cup {None}]

FinalResults == [firstWrong : 0..NumItems, finalCorrect : 0..NumItems,
                 revisionUsed : BOOLEAN, items : [Items -> ItemResults]]

Actions == {"initial", "revision"}

Receipts == [action : Actions, request : Requests,
             payload : Submissions, from : 1..5, to : 1..5,
             output : InitialResults \cup FinalResults]

PublicResults == [wrong : 0..NumItems, revisionRequired : BOOLEAN,
                  final : FinalResults \cup {None}]

\* None is no value of the fields that it stands in for.
ASSUME NoneAssumption ==
    None \notin Actions \cup InitialResults \cup FinalResults \cup Receipts
                    \cup PublicResults

NewRow == [state |-> "ready", version |-> 1,
           initial |-> None, initialResult |-> None, initialReceipt |-> None,
           revision |-> None, revisionReceipt |-> None, final |-> None]

Receipt(action, sub, from, to, output) ==
    [action |-> action, request |-> sub.request, payload |-> sub,
     from |-> from, to |-> to, output |-> output]

LockRow(r, sub) ==
    [r EXCEPT !.state = "initial_locked", !.version = @ + 1, !.initial = sub]

ItemResult(first, final) ==
    [first |-> first, final |-> final,
     firstCorrect |-> first = "key", finalCorrect |-> final = "key",
     selfCorrected |-> first # "key" /\ final = "key",
     possibleError |-> IF final = "key" THEN (IF first = "key" THEN None ELSE first)
                                        ELSE final]

BuildFinalResult(first, final, used) ==
    LET one == Selections(first)
        two == Selections(final) IN
    [firstWrong |-> Wrong(one), finalCorrect |-> NumItems - Wrong(two),
     revisionUsed |-> used, items |-> [i \in Items |-> ItemResult(one[i], two[i])]]

\* (mutant) The truth goes into every scored row.
ResolveTelling(r) ==
    LET wrong == Wrong(Selections(r.initial))
        result == [wrong |-> wrong, revisionRequired |-> wrong > 0] IN
    [r EXCEPT !.state = IF wrong > 0 THEN "revision_open" ELSE "revealed",
              !.version = @ + 1, !.initialResult = result,
              !.initialReceipt = Receipt("initial", r.initial, r.version - 1,
                                         r.version + 1, result),
              !.final = BuildFinalResult(r.initial, r.initial, FALSE)]

ResolveRow(r) ==
    LET wrong == Wrong(Selections(r.initial))
        result == [wrong |-> wrong, revisionRequired |-> wrong > 0] IN
    [r EXCEPT !.state = IF wrong > 0 THEN "revision_open" ELSE "revealed",
              !.version = @ + 1, !.initialResult = result,
              !.initialReceipt = Receipt("initial", r.initial, r.version - 1,
                                         r.version + 1, result),
              !.final = IF wrong = 0 THEN BuildFinalResult(r.initial, r.initial, FALSE)
                                     ELSE None]

ReviseRow(r, sub) ==
    LET final == BuildFinalResult(r.initial, sub, TRUE) IN
    [r EXCEPT !.state = "revealed", !.version = @ + 1, !.revision = sub,
              !.revisionReceipt = Receipt("revision", sub, r.version,
                                          r.version + 1, final),
              !.final = final]

CloseRow(r) == [r EXCEPT !.state = "closed", !.version = @ + 1]

\* The row of the quiz m, submission by submission.
Row(m) ==
    LET scored == ResolveRow(LockRow(NewRow, m.initial))
        told == IF m.revision = None THEN scored ELSE ReviseRow(scored, m.revision) IN
    CASE m.state = "ready" -> NewRow
      [] m.state = "initial_locked" -> LockRow(NewRow, m.initial)
      [] m.state \in {"revision_open", "revealed"} -> told
      [] m.state = "closed" -> CloseRow(told)

-----------------------------------------------------------------------------
(* quiz_store.py: what it asks of a row before it writes or believes it.    *)

AllNone(r, fields) == \A f \in fields : r[f] = None

NoneIsNone(r, fields) == \A f \in fields : r[f] # None

InitialFields == {"initial", "initialResult", "initialReceipt"}

RevisionFields == {"revision", "revisionReceipt"}

InitialResultHolds(r) ==
    r.initialResult # None =>
        /\ r.initialResult.wrong \in 0..NumItems
        /\ r.initialResult.revisionRequired = (r.initialResult.wrong > 0)

\* Every answer of the result is one of a stored submission, judged alike.
FinalItemHolds(item, first, final) ==
    /\ item.first = first /\ item.final = final
    /\ item.firstCorrect = (first = "key")
    /\ item.finalCorrect = (final = "key")
    /\ item.selfCorrected = (~item.firstCorrect /\ item.finalCorrect)

FinalResultHolds(r) ==
    LET last == IF r.final.revisionUsed THEN r.revision ELSE r.initial IN
    r.final # None =>
        /\ r.initial # None /\ last # None
        /\ \A i \in Items : FinalItemHolds(r.final.items[i],
                                Selections(r.initial)[i], Selections(last)[i])
        /\ r.final.firstWrong = Cardinality({i \in Items : ~r.final.items[i].firstCorrect})
        /\ r.final.finalCorrect = Cardinality({i \in Items : r.final.items[i].finalCorrect})
        /\ r.initialResult # None /\ r.initialResult.wrong = r.final.firstWrong

ReceiptsHold(r) ==
    /\ r.initialReceipt # None =>
           /\ r.initial # None /\ r.initialResult # None
           /\ r.initialReceipt = Receipt("initial", r.initial, 1, 3, r.initialResult)
    /\ r.revisionReceipt # None =>
           /\ r.revision # None /\ r.final # None
           /\ r.revisionReceipt = Receipt("revision", r.revision, 3, 4, r.final)

\* _validate_machine: the fields that go with each state.
FieldsMatchState(r) ==
    LET closing == IF r.state = "closed" THEN 1 ELSE 0 IN
    CASE r.state = "ready" ->
             r.version = 1 /\ AllNone(r, InitialFields \cup RevisionFields \cup {"final"})
      [] r.state = "initial_locked" ->
             /\ r.version = 2 /\ r.initial # None
             /\ AllNone(r, {"initialResult", "initialReceipt", "final"} \cup RevisionFields)
      [] r.state = "revision_open" ->
             /\ r.version = 3 /\ NoneIsNone(r, InitialFields)
             /\ r.initialResult.revisionRequired
             /\ AllNone(r, RevisionFields \cup {"final"})
      [] r.state \in {"revealed", "closed"} ->
             /\ NoneIsNone(r, InitialFields \cup {"final"})
             /\ r.final.revisionUsed = r.initialResult.revisionRequired
             /\ \/ /\ ~r.final.revisionUsed
                   /\ AllNone(r, RevisionFields)
                   /\ r.version = 3 + closing
                \/ /\ r.final.revisionUsed
                   /\ NoneIsNone(r, RevisionFields)
                   /\ r.version = 4 + closing

MachineHolds(r) ==
    /\ InitialResultHolds(r)
    /\ FinalResultHolds(r)
    /\ ReceiptsHold(r)
    /\ FieldsMatchState(r)

\* The action whose receipt commits the observations.
RevealAction(r) ==
    IF r.final = None THEN None
    ELSE IF r.final.revisionUsed THEN "revision" ELSE "initial"

\* Exactly one observation per item, each with the answers of the result.
ObservationsMatch(r, observed) ==
    IF RevealAction(r) = None THEN observed = {}
    ELSE /\ Cardinality(observed) = NumItems
         /\ {o.item : o \in observed} = Items
         /\ Cardinality({o.ordinal : o \in observed}) = NumItems
         /\ \A o, q \in observed : o.session = q.session
         /\ \A o \in observed : /\ o.first = r.final.items[o.item].firstCorrect
                                /\ o.final = r.final.items[o.item].finalCorrect

\* Each delivered row is in the profile's log, at its ordinal.
DeliveredMatch(observed) ==
    \A o \in observed : o.item \in delivered =>
        o.ordinal \in DOMAIN log /\ log[o.ordinal] = o

\* _load_in_transaction: one statement after the other, in one transaction.
Loads(r, observed) ==
    MachineHolds(r) /\ DeliveredMatch(observed) /\ ObservationsMatch(r, observed)

\* _validate_transition: by how much each step may move the version.
VersionDelta(from, to) ==
    CASE <<from, to>> \in {<<"ready", "revision_open">>, <<"ready", "revealed">>} -> 2
      [] <<from, to>> \in {<<"ready", "initial_locked">>,
                           <<"initial_locked", "revision_open">>,
                           <<"initial_locked", "revealed">>,
                           <<"revision_open", "revealed">>,
                           <<"revealed", "closed">>} -> 1
      [] OTHER -> 0

\* A step writes at most one receipt, and nothing that is written changes.
LegalTransition(r, next) ==
    /\ VersionDelta(r.state, next.state) # 0
    /\ next.version = r.version + VersionDelta(r.state, next.state)
    /\ \A f \in InitialFields \cup RevisionFields \cup {"final"} :
           r[f] # None => next[f] = r[f]
    /\ Cardinality({f \in {"initialReceipt", "revisionReceipt"} :
                        r[f] = None /\ next[f] # None}) <= 1

-----------------------------------------------------------------------------
(* quiz_snapshot.py and contracts.py: what goes out.                        *)

\* Of the first pass's result the wire also says the truth if nothing was
\* wrong; receipts stay behind.
InitialResultContract(r) ==
    IF r.initialResult = None THEN None
    ELSE [wrong |-> r.initialResult.wrong,
          revisionRequired |-> r.initialResult.revisionRequired,
          final |-> IF r.initialResult.wrong = 0 THEN r.final ELSE None]

PublicSnapshot(r) ==
    [state |-> r.state, version |-> r.version,
     initial |-> r.initial, initialResult |-> InitialResultContract(r),
     revision |-> r.revision, final |-> r.final]

PublicFields == {"initial", "initialResult", "revision", "final"}

Present(s) == {f \in PublicFields : s[f] # None}

\* FinalQuizResult: flags and counts follow from the answers.
FinalIsTruthful(f) ==
    LET judged(flag) == Cardinality({i \in Items : f.items[i][flag]}) IN
    /\ \A i \in Items : FinalItemHolds(f.items[i], f.items[i].first, f.items[i].final)
    /\ f.firstWrong = NumItems - judged("firstCorrect")
    /\ f.finalCorrect = judged("finalCorrect")
    /\ f.revisionUsed = (f.firstWrong > 0)
    /\ ~f.revisionUsed => \A i \in Items : f.items[i].first = f.items[i].final

\* InitialSubmissionResult: the truth exactly when nothing is wrong.
InitialIsTruthful(result) ==
    /\ result.wrong \in 0..NumItems
    /\ result.revisionRequired = (result.wrong > 0)
    /\ (result.final # None) = (result.wrong = 0)
    /\ result.final # None =>
           /\ FinalIsTruthful(result.final)
           /\ result.final.firstWrong = 0 /\ ~result.final.revisionUsed

\* QuizSnapshot: which fields a state has, and at which version.
StateFieldsMatch(s) ==
    LET revised == s.initialResult.revisionRequired IN
    CASE s.state = "ready" -> Present(s) = {} /\ s.version = 1
      [] s.state = "initial_locked" -> Present(s) = {"initial"} /\ s.version = 2
      [] s.state = "revision_open" ->
             /\ Present(s) = {"initial", "initialResult"} /\ s.version = 3
             /\ revised
      [] OTHER ->
             /\ s.initialResult # None /\ s.final # None
             /\ Present(s) = PublicFields \ (IF revised THEN {} ELSE {"revision"})
             /\ s.version = 3 + (IF revised THEN 1 ELSE 0)
                              + (IF s.state = "closed" THEN 1 ELSE 0)
             /\ s.final.revisionUsed = revised
             /\ s.final.firstWrong = s.initialResult.wrong
             /\ s.initialResult.final # None => s.initialResult.final = s.final

\* QuizSnapshot, a validator that looks at the revision that is there.
ServerAccepts(s) ==
    LET last == IF s.revision # None THEN s.revision ELSE s.initial IN
    /\ s.initialResult # None => InitialIsTruthful(s.initialResult)
    /\ s.final # None =>
           /\ FinalIsTruthful(s.final)
           /\ s.initial # None
           /\ \A i \in Items : /\ s.final.items[i].first = Selections(s.initial)[i]
                               /\ s.final.items[i].final = Selections(last)[i]
    /\ StateFieldsMatch(s)

-----------------------------------------------------------------------------
(* StrictQuizValidator.cs: what the game takes.                             *)

ValidateWrongCount(result) ==
    /\ result.wrong \in 0..NumItems
    /\ result.revisionRequired = (result.wrong > 0)

\* Validate(FinalQuizResult): it counts for itself, item after item.
ValidateFinal(f) ==
    /\ \A i \in Items :
           LET item == f.items[i] IN
           /\ item.firstCorrect = (item.first = "key")
           /\ item.finalCorrect = (item.final = "key")
           /\ item.selfCorrected = (item.first # "key" /\ item.final = "key")
    /\ f.firstWrong = Cardinality({i \in Items : f.items[i].first # "key"})
    /\ f.finalCorrect = Cardinality({i \in Items : f.items[i].final = "key"})
    /\ f.revisionUsed = (f.firstWrong > 0)
    /\ ~f.revisionUsed => \A i \in Items : f.items[i].first = f.items[i].final

\* Validate(InitialSubmissionResult).
ValidateInitialResult(result) ==
    /\ ValidateWrongCount(result)
    /\ (result.final # None) = (result.wrong = 0)
    /\ result.final # None => ValidateFinal(result.final)
                              /\ result.final.firstWrong = 0
                              /\ ~result.final.revisionUsed

\* ValidateSnapshotFinalResult: the answers are those handed in.
ValidateAgainstSubmissions(f, first, last) ==
    /\ first # None /\ last # None
    /\ \A i \in Items : /\ {f.items[i].first, f.items[i].final} \subseteq Options
                        /\ f.items[i].first = Selections(first)[i]
                        /\ f.items[i].final = Selections(last)[i]

RequireSnapshotPresence(s, fields, version) ==
    Present(s) = fields /\ s.version = version

ValidateRevealedSnapshot(s) ==
    LET used == s.initialResult.revisionRequired
        version == (IF s.state = "revealed" THEN 3 ELSE 4) + (IF used THEN 1 ELSE 0) IN
    /\ {"initial", "initialResult", "final"} \subseteq Present(s)
    /\ RequireSnapshotPresence(s,
           {"initial", "initialResult", "final"} \cup (IF used THEN {"revision"} ELSE {}),
           version)
    /\ s.final.revisionUsed = used
    /\ s.initialResult.wrong = s.final.firstWrong
    /\ s.initialResult.final # None => s.initialResult.final = s.final

\* The switch over the states.
ValidateState(s) ==
    CASE s.state = "ready" -> RequireSnapshotPresence(s, {}, 1)
      [] s.state = "initial_locked" -> RequireSnapshotPresence(s, {"initial"}, 2)
      [] s.state = "revision_open" ->
             /\ RequireSnapshotPresence(s, {"initial", "initialResult"}, 3)
             /\ s.initialResult.wrong > 0 /\ s.initialResult.revisionRequired
      [] OTHER -> ValidateRevealedSnapshot(s)

\* Validate(QuizSnapshot).
ClientAccepts(s) ==
    /\ s.version \in 1..5
    /\ s.initialResult # None => ValidateInitialResult(s.initialResult)
    /\ s.final # None =>
           /\ ValidateFinal(s.final)
           /\ ValidateAgainstSubmissions(s.final, s.initial,
                  IF s.revision # None THEN s.revision ELSE s.initial)
    /\ ValidateState(s)

-----------------------------------------------------------------------------
\* A quiz can be read at any moment: whichever commands, drains and crashes
\* came in between, its row, its receipts, its observations and the learner's
\* log tell the one story every read recomputes.
QuizLoads == Loads(Row(quiz), outbox)

\* Whoever loads the quiz gets to see it: the server's own contract and the
\* game's validator, two programs, accept whatever snapshot of it goes out.
SnapshotsAreAccepted ==
    LET s == PublicSnapshot(Row(quiz)) IN ServerAccepts(s) /\ ClientAccepts(s)

\* Every write is one the store allows itself: no process brings along a
\* snapshot that takes back, skips or repeats a step.
WritesAreLegal ==
    [][quiz' # quiz => LegalTransition(Row(quiz), Row(quiz'))]_vars
=============================================================================
