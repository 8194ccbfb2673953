-------------------------- MODULE QuizSubmissions --------------------------
(***************************************************************************)
(* Durable two-pass submission of one prepared batch, and its consumption  *)
(* by the battle it belongs to: the application service                    *)
(* app/quiz_submissions.py and complete_battle of app/progression.py over  *)
(* the SQLite stores quiz_store.py and profile_store.py.                   *)
(*                                                                         *)
(* A server process runs one command at a time (_command_lock), but the    *)
(* database is shared with other processes, so every transaction and every *)
(* read is a step of its own and whatever was read may be stale when it is *)
(* used.  Between any two steps a process may die or give up on a locked   *)
(* database, the learner may open another session, and another command may *)
(* append a campaign event that competes for the next profile ordinal.     *)
(* Clients repeat commands freely: nothing limits how often one is begun.  *)
(***************************************************************************)
EXTENDS QuizMachine, Sequences, FiniteSetsExt

CONSTANTS
    Procs,          \* server processes sharing the database
    MaxSession,     \* bound: sessions the learner opens
    MaxCampaign,    \* bound: competing campaign events
    MaxCrashes      \* bound: abandoned commands

ASSUME BoundsAssumption ==
    MaxSession \in Nat \ {0} /\ MaxCampaign \in Nat /\ MaxCrashes \in Nat

VARIABLES
    \* the database
    quiz,       \* the quiz_machines row (its receipts are part of it)
    outbox,     \* quiz_observation_outbox rows
    delivered,  \* items whose outbox row is marked delivered
    log,        \* event_log; an event's ordinal is its position
    session,    \* the open session, numbered by opening; older ones are closed
    \* the processes
    pc, cmd,    \* where each process is, and the command it runs
    snap,       \* the snapshot it read, or proposes to store
    pend,       \* outbox rows it read as pending
    rows,       \* observations it built for the reveal
    \* bookkeeping
    acked,      \* everything ever answered to the learner
    failed,     \* processes that answered a drain with integrity_failure
    crashes     \* abandoned commands so far

db == <<quiz, outbox, delivered, log, session>>
local == <<pc, cmd, snap, pend, rows>>
vars == <<db, local, acked, failed, crashes>>

Sessions == 1..MaxSession

QuizCommands == [kind : {"initial", "revision"}, request : Requests,
                 sheet : Sheets, session : Sessions]

Completions == [kind : {"complete"}, request : Requests, session : Sessions]

Commands == QuizCommands \cup Completions

\* The session the batch was prepared in.
PreparedIn == 1

Submission(c) == [request |-> c.request, sheet |-> c.sheet]

\* (mutant) The first answer is recorded as the final one as well.
FirstPassObservation(i, m, n, s) ==
    [kind |-> "observation", item |-> i, ordinal |-> n + i - 1,
     session |-> s, openAt |-> session,
     first |-> i \in m.initial.sheet, final |-> i \in m.initial.sheet]

\* An observation: openAt is the session that was open at its occurred_at.
Observation(i, m, n, s) ==
    [kind |-> "observation", item |-> i, ordinal |-> n + i - 1,
     session |-> s, openAt |-> session,
     first |-> i \in m.initial.sheet, final |-> i \in FinalSheet(m)]

CampaignEvent(k) == [kind |-> k, session |-> session, openAt |-> session]

CompletionEvent(c) == [kind |-> "completion", request |-> c.request,
                       session |-> c.session, openAt |-> session]

\* (mutant) Only the last event is looked up.
LoggedLast(e) == log[Len(log)] = e

Logged(e) == \E n \in DOMAIN log : log[n] = e

Recorded == {i \in Items : \E n \in DOMAIN log :
                 log[n].kind = "observation" /\ log[n].item = i}

\* (mutant) Only the observations of the open session are drained.
PendingHere == {r \in outbox : r.item \notin delivered /\ r.session = session}

Pending == {r \in outbox : r.item \notin delivered}

\* An undelivered observation reserves the next ordinal.
OrdinalReserved == Pending # {}

Earliest(R) == CHOOSE r \in R : \A q \in R : r.ordinal <= q.ordinal

NextOrdinal == 1 + Max({Len(log)} \cup {r.ordinal : r \in outbox})

Answer(p) ==
    IF cmd[p].kind = "revision" THEN {"truth"}
    ELSE IF ZeroWrong(snap[p]) THEN {"count", "truth"} ELSE {"count"}

\* What a process discloses when it answers with the snapshot m.
Disclosure(part, m) ==
    IF part = "count" THEN [part |-> "count", wrong |-> WrongCount(m)]
    ELSE [part |-> "truth", first |-> m.initial.sheet, final |-> FinalSheet(m)]

-----------------------------------------------------------------------------
NoCommand == [kind |-> "none"]

Init == /\ quiz = ReadyMachine
        /\ outbox = {}
        /\ delivered = {}
        /\ session = 1
        /\ log = <<CampaignEvent("activation")>>
        /\ pc = [p \in Procs |-> "idle"]
        /\ cmd = [p \in Procs |-> NoCommand]
        /\ snap = [p \in Procs |-> ReadyMachine]
        /\ pend = [p \in Procs |-> {}]
        /\ rows = [p \in Procs |-> {}]
        /\ acked = {}
        /\ failed = {}
        /\ crashes = 0

Goto(p, l) == pc' = [pc EXCEPT ![p] = l]

\* The command is over; its local state is dropped.
Finish(p) == /\ Goto(p, "idle")
             /\ cmd' = [cmd EXCEPT ![p] = NoCommand]
             /\ snap' = [snap EXCEPT ![p] = ReadyMachine]
             /\ pend' = [pend EXCEPT ![p] = {}]
             /\ rows' = [rows EXCEPT ![p] = {}]

\* A typed error answer that changes nothing.
Refuse(p) == Finish(p) /\ UNCHANGED <<acked, failed>>

\* integrity_failure: the stores disagree with each other.
Fail(p) == Finish(p) /\ failed' = failed \cup {p} /\ UNCHANGED acked

\* Continue at l with snapshot m.
Keep(p, m, l) == /\ Goto(p, l)
                 /\ snap' = [snap EXCEPT ![p] = m]
                 /\ UNCHANGED <<cmd, pend, rows, acked, failed>>

Begin(p, c) == /\ pc[p] = "idle"
               /\ c.session <= session
               /\ Goto(p, "authenticate")
               /\ cmd' = [cmd EXCEPT ![p] = c]
               /\ UNCHANGED <<db, snap, pend, rows, acked, failed, crashes>>

Current(p) == cmd[p].session = session

Authenticate(p) ==
    /\ pc[p] = "authenticate"
    /\ IF Current(p)
       THEN Keep(p, snap[p], IF cmd[p].kind = "complete" THEN "replay" ELSE "drain")
       ELSE Refuse(p)
    /\ UNCHANGED <<db, crashes>>

-----------------------------------------------------------------------------
(* Draining the outbox: read the pending rows, then append each to the      *)
(* profile log and mark it delivered, in two transactions.                  *)

\* A drain after the reveal answers; the one before it goes on to load.
AfterDrain(p) == IF rows[p] = {} THEN "load" ELSE "reply"

PendingObservations(p) ==
    /\ pc[p] = "drain"
    /\ pend' = [pend EXCEPT ![p] = Pending]
    /\ Goto(p, IF Pending = {} THEN AfterDrain(p) ELSE "append")
    /\ UNCHANGED <<db, cmd, snap, rows, acked, failed, crashes>>

\* ProfileStore verifies every delivered row against the log on each append.
DeliveredAreLogged == \A q \in outbox : q.item \in delivered => Logged(q)

\* What it asks of an observation that is not in the log yet.
Appendable(r) ==
    /\ OrdinalReserved => r = Earliest(Pending)
    /\ r.item \notin Recorded
    /\ r.ordinal = Len(log) + 1

AppendObservation(p) ==
    LET r == Earliest(pend[p]) IN
    /\ pc[p] = "append"
    /\ \/ /\ DeliveredAreLogged /\ Logged(r)
          /\ Keep(p, snap[p], "mark")
          /\ UNCHANGED log
       \/ /\ DeliveredAreLogged /\ ~Logged(r) /\ Appendable(r)
          /\ log' = Append(log, r)
          /\ Keep(p, snap[p], "mark")
       \/ /\ ~DeliveredAreLogged \/ ~(Logged(r) \/ Appendable(r))
          /\ Fail(p)
          /\ UNCHANGED log
    /\ UNCHANGED <<quiz, outbox, delivered, session, crashes>>

MarkDelivered(p) ==
    LET r == Earliest(pend[p]) IN
    /\ pc[p] = "mark"
    /\ IF r \in outbox
       THEN /\ delivered' = delivered \cup {r.item}
            /\ pend' = [pend EXCEPT ![p] = @ \ {r}]
            /\ Goto(p, IF pend[p] = {r} THEN AfterDrain(p) ELSE "append")
            /\ UNCHANGED <<cmd, snap, rows, acked, failed>>
       ELSE Fail(p) /\ UNCHANGED delivered
    /\ UNCHANGED <<quiz, outbox, log, session, crashes>>

-----------------------------------------------------------------------------
(* The first pass: lock it durably, then score it.                          *)

\* (mutant) A locked first pass is refused like any second submission.
ReplayScored(p) == IF Resolved(quiz) THEN Keep(p, quiz, "reply") ELSE Refuse(p)

\* Go on from a stored first pass: replay its score, or score it now.
FromLocked(p) == Keep(p, quiz, IF Resolved(quiz) THEN "reply" ELSE "resolve")

LoadForInitial(p) ==
    /\ pc[p] = "load" /\ cmd[p].kind = "initial"
    /\ \/ LockReplays(quiz, Submission(cmd[p])) /\ FromLocked(p)
       \/ LockAccepts(quiz) /\ Keep(p, LockInitial(quiz, Submission(cmd[p])), "lock")
       \/ /\ ~LockReplays(quiz, Submission(cmd[p])) /\ ~LockAccepts(quiz)
          /\ Refuse(p)
    /\ UNCHANGED <<db, crashes>>

\* save_transition without a receipt: a compare-and-swap on the version, with
\* an exact replay of the same locked snapshot.
SaveLock(p) ==
    /\ pc[p] = "lock"
    /\ \/ /\ quiz.version = snap[p].version - 1
          /\ quiz' = snap[p]
          /\ Keep(p, snap[p], "resolve")
       \/ quiz = snap[p] /\ Keep(p, quiz, "resolve") /\ UNCHANGED quiz
       \/ /\ quiz.version # snap[p].version - 1 /\ quiz # snap[p]
          /\ Keep(p, snap[p], "reload_lock")
          /\ UNCHANGED quiz
    /\ UNCHANGED <<outbox, delivered, log, session, crashes>>

ReloadLock(p) ==
    /\ pc[p] = "reload_lock"
    /\ IF LockReplays(quiz, Submission(cmd[p])) THEN FromLocked(p) ELSE Refuse(p)
    /\ UNCHANGED <<db, crashes>>

\* The second authentication, and resolve_initial on the locked snapshot.
Resolve(p) ==
    /\ pc[p] = "resolve"
    /\ IF Current(p)
       THEN Keep(p, ResolveInitial(snap[p]),
                 IF ZeroWrong(snap[p]) THEN "stamp" ELSE "save")
       ELSE Refuse(p)
    /\ UNCHANGED <<db, crashes>>

-----------------------------------------------------------------------------
(* The one revision, and the reveal both passes can end in.                 *)

LoadForRevision(p) ==
    /\ pc[p] = "load" /\ cmd[p].kind = "revision"
    /\ \/ RevisionReplays(quiz, Submission(cmd[p])) /\ Keep(p, quiz, "reply")
       \/ /\ RevisionAccepts(quiz)
          /\ Keep(p, SubmitRevision(quiz, Submission(cmd[p])), "stamp")
       \/ /\ ~RevisionReplays(quiz, Submission(cmd[p])) /\ ~RevisionAccepts(quiz)
          /\ Refuse(p)
    /\ UNCHANGED <<db, crashes>>

\* Read the clock, plan the ordinals and build one observation per item.
Stamp(p) ==
    /\ pc[p] = "stamp"
    /\ rows' = [rows EXCEPT ![p] =
                  {Observation(i, snap[p], NextOrdinal, cmd[p].session) : i \in Items}]
    /\ Goto(p, "reauthenticate")
    /\ UNCHANGED <<db, cmd, snap, pend, acked, failed, crashes>>

\* (mutant) The session is not looked at again.
TrustSession(p) == /\ pc[p] = "reauthenticate"
                   /\ Keep(p, snap[p], "save")
                   /\ UNCHANGED <<db, crashes>>

\* The last check of the session before the reveal is stored.
Reauthenticate(p) ==
    /\ pc[p] = "reauthenticate"
    /\ IF Current(p) THEN Keep(p, snap[p], "save") ELSE Refuse(p)
    /\ UNCHANGED <<db, crashes>>

\* The request id already owns the receipt of the other action.
ReusesReceipt(p) ==
    cmd[p].kind = "revision" /\ cmd[p].request = quiz.initial.request

\* The planned ordinals are the next ones, or nothing is to be reserved.
OrdinalsFree(p) ==
    \A r \in rows[p] : r.ordinal = NextOrdinal + r.item - 1

\* save_transition with a receipt.  A first pass with wrong answers that is
\* already scored owns this very receipt and is answered from it.  A reveal
\* that is already stored carries other timestamps and counts as contention.
SaveTransition(p) ==
    LET fresh == quiz.version = snap[p].version - 1 IN
    /\ pc[p] = "save"
    /\ \/ /\ fresh /\ ~ReusesReceipt(p) /\ OrdinalsFree(p)
          /\ quiz' = snap[p]
          /\ outbox' = outbox \cup rows[p]
          /\ Keep(p, snap[p], IF rows[p] = {} THEN "reply" ELSE "drain")
       \/ /\ fresh /\ ReusesReceipt(p)
          /\ Refuse(p)
          /\ UNCHANGED <<quiz, outbox>>
       \/ /\ ~fresh /\ rows[p] = {}
          /\ Keep(p, quiz, "reply")
          /\ UNCHANGED <<quiz, outbox>>
       \/ /\ rows[p] # {}
          /\ ~fresh \/ (~ReusesReceipt(p) /\ ~OrdinalsFree(p))
          /\ Keep(p, snap[p], "reload")
          /\ UNCHANGED <<quiz, outbox>>
    /\ UNCHANGED <<delivered, log, session, crashes>>

\* The contender that lost answers with the reveal the winner stored, if that
\* is the outcome of this very command.
ReloadOutcome(p) ==
    /\ pc[p] = "reload"
    /\ IF IF cmd[p].kind = "initial"
          THEN LockReplays(quiz, Submission(cmd[p])) /\ Resolved(quiz)
          ELSE RevisionReplays(quiz, Submission(cmd[p]))
       THEN Keep(p, quiz, "drain")
       ELSE Refuse(p)
    /\ UNCHANGED <<db, crashes>>

Reply(p) == /\ pc[p] = "reply"
            /\ acked' = acked \cup {Disclosure(part, snap[p]) : part \in Answer(p)}
            /\ Finish(p)
            /\ UNCHANGED <<db, failed, crashes>>

-----------------------------------------------------------------------------
(* complete_battle: consume the revealed batch, record the victory, close.  *)

Completed == \E n \in DOMAIN log : log[n].kind = "completion"

CompletedWith(c) == \E n \in DOMAIN log : /\ log[n].kind = "completion"
                                          /\ log[n].request = c.request
                                          /\ log[n].session = c.session

\* (mutant) An exact retry is answered at once.
ReplayWithoutClosing(p) ==
    /\ pc[p] = "replay"
    /\ IF Completed THEN Refuse(p) ELSE Keep(p, snap[p], "drain")
    /\ UNCHANGED <<db, crashes>>

\* An exact retry only closes the batch; any other completion is refused.
CheckReplay(p) ==
    /\ pc[p] = "replay"
    /\ IF Completed
       THEN IF CompletedWith(cmd[p])
            THEN Keep(p, snap[p], "close")
            ELSE Refuse(p)
       ELSE Keep(p, snap[p], "drain")
    /\ UNCHANGED <<db, crashes>>

\* _finalized_quiz takes a revealed batch, and one of this session only.
LoadForCompletion(p) ==
    /\ pc[p] = "load" /\ cmd[p].kind = "complete"
    /\ IF Revealed(quiz) /\ cmd[p].session = PreparedIn
       THEN Keep(p, snap[p], "complete")
       ELSE Refuse(p)
    /\ UNCHANGED <<db, crashes>>

\* append_progression_event: the session, an exact replay, the ordinals that
\* pending observations reserve, and one completion per battle, all in one
\* transaction.
Complete(p) ==
    /\ pc[p] = "complete"
    /\ \/ /\ Current(p) /\ CompletedWith(cmd[p])
          /\ Keep(p, snap[p], "close")
          /\ UNCHANGED log
       \/ /\ Current(p) /\ ~OrdinalReserved /\ ~Completed
          /\ log' = Append(log, CompletionEvent(cmd[p]))
          /\ Keep(p, snap[p], "close")
       \/ /\ \/ ~Current(p)
             \/ ~CompletedWith(cmd[p]) /\ (OrdinalReserved \/ Completed)
          /\ Refuse(p)
          /\ UNCHANGED log
    /\ UNCHANGED <<quiz, outbox, delivered, session, crashes>>

\* close_revealed retries its compare-and-swap until the batch is closed.
Close(p) ==
    /\ pc[p] = "close"
    /\ quiz' = IF quiz.state = "revealed" THEN CloseQuiz(quiz) ELSE quiz
    /\ Refuse(p)
    /\ UNCHANGED <<outbox, delivered, log, session, crashes>>

-----------------------------------------------------------------------------
(* What the rest of the system does to the same rows.                       *)

\* The process dies, or SQLite stays locked and it answers storage_busy.
Abandon(p) == /\ pc[p] # "idle"
              /\ crashes < MaxCrashes
              /\ crashes' = crashes + 1
              /\ Refuse(p)
              /\ UNCHANGED db

\* create_session validates the history against the closing session first.
OpenSession == /\ session < MaxSession
               /\ \A n \in DOMAIN log : log[n].openAt = log[n].session
               /\ session' = session + 1
               /\ UNCHANGED <<quiz, outbox, delivered, log, local, acked, failed, crashes>>

\* Any other append_progression_event of the profile.
OtherProgression ==
    /\ Cardinality({n \in DOMAIN log : log[n].kind = "campaign"}) < MaxCampaign
    /\ ~OrdinalReserved
    /\ log' = Append(log, CampaignEvent("campaign"))
    /\ UNCHANGED <<quiz, outbox, delivered, session, local, acked, failed, crashes>>

-----------------------------------------------------------------------------
Step(p) == \/ Authenticate(p)
           \/ PendingObservations(p)
           \/ AppendObservation(p)
           \/ MarkDelivered(p)
           \/ LoadForInitial(p)
           \/ SaveLock(p)
           \/ ReloadLock(p)
           \/ Resolve(p)
           \/ LoadForRevision(p)
           \/ Stamp(p)
           \/ Reauthenticate(p)
           \/ SaveTransition(p)
           \/ ReloadOutcome(p)
           \/ Reply(p)
           \/ CheckReplay(p)
           \/ LoadForCompletion(p)
           \/ Complete(p)
           \/ Close(p)

Next == \/ \E p \in Procs : Step(p) \/ Abandon(p)
        \/ \E p \in Procs, c \in Commands : Begin(p, c)
        \/ OpenSession
        \/ OtherProgression

Spec == Init /\ [][Next]_vars

-----------------------------------------------------------------------------
(* Type correctness.                                                        *)

Observations == [kind : {"observation"}, item : Items, ordinal : Nat,
                 session : Sessions, openAt : Sessions,
                 first : BOOLEAN, final : BOOLEAN]

CampaignEvents == [kind : {"activation", "campaign"},
                   session : Sessions, openAt : Sessions]

CompletionEvents == [kind : {"completion"}, request : Requests,
                     session : Sessions, openAt : Sessions]

Events == Observations \cup CampaignEvents \cup CompletionEvents

Disclosures == [part : {"count"}, wrong : 0..NumItems]
                 \cup [part : {"truth"}, first : Sheets, final : Sheets]

Locations == {"idle", "authenticate", "drain", "append", "mark", "load",
              "lock", "reload_lock", "resolve", "stamp", "reauthenticate",
              "save", "reload", "reply", "replay", "complete", "close"}

\* Every variable keeps its shape.
TypeOK == /\ quiz \in Machines
          /\ outbox \subseteq Observations
          /\ delivered \subseteq Items
          /\ log \in Seq(Events)
          /\ session \in Sessions
          /\ pc \in [Procs -> Locations]
          /\ cmd \in [Procs -> Commands \cup {NoCommand}]
          /\ snap \in [Procs -> Machines]
          /\ pend \in [Procs -> SUBSET Observations]
          /\ rows \in [Procs -> SUBSET Observations]
          /\ acked \subseteq Disclosures
          /\ failed \subseteq Procs
          /\ crashes \in 0..MaxCrashes

-----------------------------------------------------------------------------
(* Safety.                                                                  *)

\* An event, recorded or reserved, lies within the session it names.  The next
\* create_session refuses a history where one does not, for good.
EventsInsideTheirSession ==
    /\ \A n \in DOMAIN log : log[n].openAt = log[n].session
    /\ \A r \in outbox : r.openAt = r.session

\* Whoever asks, and however often, is told the same: every count and every
\* truth ever disclosed is the one of the stored quiz, and the truth only
\* once it is revealed.
OneAnswerDisclosed ==
    \A d \in acked : /\ Resolved(quiz)
                     /\ d.part = "truth" => Revealed(quiz)
                     /\ d = Disclosure(d.part, quiz)

\* The two stores never drift so far apart that a drain is refused.
DrainNeverFails == failed = {}

-----------------------------------------------------------------------------
(* Why the above holds: what a process may rely on although others write.   *)

\* The fields of a snapshot that decide each other.
Coherent(m) ==
    /\ m.state = "ready" => m = ReadyMachine
    /\ m.state # "ready" => m.initial # NoSubmission
    /\ m.state = "initial_locked" => m.version = 2 /\ m.revision = NoSubmission
    /\ m.state = "revision_open" =>
           m.version = 3 /\ m.revision = NoSubmission /\ ~ZeroWrong(m)
    /\ Revealed(m) =>
           /\ m.revision = NoSubmission <=> ZeroWrong(m)
           /\ m.version = 3 + (IF ZeroWrong(m) THEN 0 ELSE 1)
                            + (IF m.state = "closed" THEN 1 ELSE 0)

\* The kind of command that can be at each location.
CommandFits(p) ==
    /\ pc[p] # "idle" => cmd[p] \in Commands /\ cmd[p].session <= session
    /\ pc[p] \in {"lock", "reload_lock", "resolve"} => cmd[p].kind = "initial"
    /\ pc[p] \in {"stamp", "reauthenticate", "save", "reload", "reply"} =>
           cmd[p].kind \in {"initial", "revision"}
    /\ pc[p] \in {"replay", "complete", "close"} => cmd[p].kind = "complete"
    /\ pc[p] \in {"append", "mark"} => pend[p] # {}
    /\ rows[p] # {} =>
           /\ cmd[p].kind \in {"initial", "revision"}
           /\ pc[p] \in {"reauthenticate", "save", "reload", "drain", "append",
                         "mark", "reply"}

\* The snapshot is the reveal, or the score, that the database holds.
Settled(p) ==
    /\ snap[p].initial = quiz.initial
    /\ Resolved(snap[p]) /\ Resolved(quiz)
    /\ cmd[p].kind = "revision" =>
           snap[p].revision = quiz.revision /\ quiz.revision # NoSubmission

Reads(p) ==
    /\ CommandFits(p)
    /\ Coherent(snap[p])
    /\ pend[p] \subseteq outbox
    /\ pc[p] = "lock" =>
           snap[p] = LockInitial(ReadyMachine, Submission(cmd[p]))
    /\ pc[p] = "resolve" => /\ snap[p].state = "initial_locked"
                            /\ snap[p].initial = quiz.initial
    /\ pc[p] \in {"stamp", "reauthenticate", "save"} =>
           /\ snap[p].initial = quiz.initial
           /\ snap[p].state \in {"revision_open", "revealed"}
           /\ snap[p].revision # NoSubmission <=> cmd[p].kind = "revision"
    /\ pc[p] = "reauthenticate" => rows[p] # {}
    /\ pc[p] = "save" /\ rows[p] = {} => snap[p].state = "revision_open"
    /\ pc[p] = "reply" \/ (rows[p] # {} /\ pc[p] \in {"drain", "append", "mark"})
           => Settled(p)

\* What a process read, and holds on to, the database still says: snapshots it
\* will store follow the stored first pass, snapshots it will answer from are
\* the outcome that was stored, and rows it read as pending are still there.
ReadsHold == Coherent(quiz) /\ \A p \in Procs : Reads(p)

\* A planned observation names the session of its command; once that session
\* was found open again, it was open when the observation occurred.
PlansInsideTheirSession ==
    \A p \in Procs : \A r \in rows[p] :
        /\ r.session = cmd[p].session
        /\ cmd[p].session <= r.openAt /\ r.openAt <= session
        /\ pc[p] # "reauthenticate" => r.openAt = r.session

-----------------------------------------------------------------------------
(* Refinement.                                                              *)

\* What the learner can tell of the quiz, and what was told.
Phase == CASE quiz.state = "ready" -> "open"
           [] quiz.state = "initial_locked" -> "locked"
           [] quiz.state = "revision_open" -> "revising"
           [] OTHER -> quiz.state

LockedSheet == IF quiz.initial = NoSubmission THEN NoSubmission
                                              ELSE quiz.initial.sheet

ScoredSheet == IF Revealed(quiz) THEN FinalSheet(quiz) ELSE NoSubmission

Told == {d.part : d \in acked}

\* Every behaviour of the service is one of the two-pass quiz.
TwoPass == INSTANCE TwoPassQuiz WITH
    NoSheet <- NoSubmission,
    phase <- Phase,
    first <- LockedSheet,
    final <- ScoredSheet,
    told <- Told,
    recorded <- Recorded

ImplementsTwoPass == TwoPass!Spec

-----------------------------------------------------------------------------
(* Liveness.  A server process finishes what it runs; a client that got no  *)
(* answer asks again, in the session then open.                             *)

BeginCurrent(p) == \E c \in Commands : c.session = session /\ Begin(p, c)

\* The client repeats the first pass it has not been answered.
RetryInitial(p) == \E c \in QuizCommands : /\ c.kind = "initial"
                                          /\ c.session = session
                                          /\ Submission(c) = quiz.initial
                                          /\ Begin(p, c)

Fairness == \A p \in Procs : /\ WF_vars(Step(p))
                             /\ SF_vars(BeginCurrent(p))

LiveSpec == Spec /\ Fairness

\* Once the truth is revealed, all of its evidence reaches the learning
\* record: whatever the learner does next drains the outbox first.
RevealIsRecorded == Revealed(quiz) ~> Recorded = Items

\* A first pass locked and then interrupted is scored if its client keeps
\* sending it again: no other command can score it.
LockIsScored == (\A p \in Procs : SF_vars(RetryInitial(p)))
                    => (quiz.state = "initial_locked" ~> Resolved(quiz))

\* The client repeats its completion of the battle.
RetryCompletion(p, r) == \E c \in Completions : /\ c.request = r
                                               /\ c.session = session
                                               /\ Begin(p, c)

\* A revealed batch is consumed in the end if its client keeps completing the
\* battle, wherever the command was interrupted, unless the session the batch
\* was prepared in has been closed.
ClosedUnlessRotated ==
    (\A p \in Procs, r \in Requests : SF_vars(RetryCompletion(p, r)))
        => (Revealed(quiz) ~> quiz.state = "closed" \/ session # PreparedIn)

\* A revealed batch is consumed in the end if its client keeps completing the
\* battle in the session then open.  It is not: complete_battle takes only the
\* session the batch was prepared in, and a new session closes that one.
RevealedIsClosed == (\A p \in Procs, r \in Requests : SF_vars(RetryCompletion(p, r)))
                        => (Revealed(quiz) ~> quiz.state = "closed")
=============================================================================
