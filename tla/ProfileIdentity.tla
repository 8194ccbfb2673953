-------------------------- MODULE ProfileIdentity --------------------------
(***************************************************************************)
(* Who owns what in the learner's database, and who may still act on it.    *)
(*                                                                          *)
(* Several server processes share one SQLite file.  A write is one          *)
(* transaction; the checks before it are not: authenticating a command is   *)
(* a dozen SELECTs, each seeing whatever was committed by then, and what    *)
(* follows trusts them.  Meanwhile other processes open sessions, append    *)
(* events, and delete the profile.                                          *)
(*                                                                          *)
(* The wall clock is the machine's and may be set back; a reading is any    *)
(* instant.  The one thing assumed of it is that no two sessions of a       *)
(* profile open in the same microsecond.  Not modelled: legacy profiles and *)
(* schema migration, the content of events, the activation of later worlds  *)
(* (Campaign) and the outbox that keeps an observation's ordinal for it     *)
(* (QuizSubmissions): here another event may take it.                       *)
(***************************************************************************)
EXTENDS Naturals, Sequences, FiniteSets, FiniteSetsExt

CONSTANTS
    Servers,      \* processes that share the database
    MaxProfiles,  \* profiles ever created
    MaxSessions,  \* sessions ever opened
    MaxEvents,    \* length of a profile's event log
    MaxInstant    \* instants the clock may read

ASSUME BoundsAssumption ==
    /\ MaxProfiles \in Nat \ {0} /\ MaxSessions \in Nat \ {0}
    /\ MaxEvents \in Nat \ {0}   /\ MaxInstant \in Nat \ {0}

Profiles == 1..MaxProfiles

Sessions == 1..MaxSessions

Instants == 1..MaxInstant

\* No instant: a session still open, a profile without a row.
Never == 0

\* Once the clock was seen to go back, how far no longer matters.
SetBack == MaxInstant + 1

\* No row of learner_projection.  A row of 0 covers an empty log.
NoRow == MaxEvents + 1

VARIABLES
    created,     \* local_profiles: when the profile was created, or Never
    sessions,    \* local_sessions, with the boundary of session_opening_log
    receipts,    \* identity_command_receipts: [profile, session], 0 for none
    log,         \* event_log of each profile
    projection,  \* learner_projection: the ordinal the row goes through
    material,    \* profiles with rows of a prepared quiz
    owners,      \* the profile each session id was minted for
    newest,      \* the newest profile id
    clock,       \* the last instant read while it never went back, or SetBack
    call         \* the command each process is busy with

identity == <<created, sessions, receipts, owners, newest>>

database == <<identity, log, projection, material>>

vars == <<database, clock, call>>

---------------------------------------------------------------------------
(* The rows of a profile, and the audits over them.                         *)

Live == {p \in Profiles : created[p] # Never}

RowsOf(p) == {s \in sessions : s.profile = p}

OpenIn(rows) == {s \in rows : s.closed = Never}

IdsOf(rows) == {s.id : s \in rows}

Later(rows, s) == {r \in rows : r.opened > s.opened}

\* Each session was closed at the very instant the next one opened; the last
\* is open.
Timeline(rows) ==
    /\ \A s, r \in rows : s.opened = r.opened => s = r
    /\ \A s \in rows :
           s.closed = IF Later(rows, s) = {} THEN Never
                      ELSE Min({r.opened : r \in Later(rows, s)})

\* One receipt for the profile and one for each of these sessions.
Covered(p, ids) ==
    {r.session : r \in {q \in receipts : q.profile = p}} = ids \cup {0}

\* An event of any profile that has no profile row condemns every audit.
NoOrphans == \A p \in Profiles : log[p] # <<>> => p \in Live

\* The events lie within their sessions; `ends' says when a session closes.
Within(p, rows, events, ends) ==
    /\ (rows = {}) = (events = <<>>)
    /\ \A s \in rows : s.opened >= created[p]
    /\ \A n \in DOMAIN events : \E s \in rows :
           /\ s.id = events[n].session
           /\ events[n].at >= s.opened
           /\ ends[s] # Never => events[n].at <= ends[s]

Closing(rows) == [s \in rows |-> s.closed]

\* A session row against the events it was opened after.
Bound(p, rows, s) ==
    LET before == SubSeq(log[p], 1, s.seen) IN
    IF s.seen = 0
    THEN log[p] # <<>> /\ log[p][1].session = s.id /\ log[p][1].at = s.opened
    ELSE /\ s.seen <= Len(log[p])
         /\ \A n \in DOMAIN before : \E r \in rows :
                r.id = before[n].session /\ r.opened < s.opened
         /\ Within(p, rows, before, Closing(rows))
         /\ before[1].at < s.opened

\* The whole audit of a profile, in one transaction.
Audit(p) ==
    /\ p \in Live
    /\ NoOrphans
    /\ Covered(p, IdsOf(RowsOf(p)))
    /\ Timeline(RowsOf(p))
    /\ \A s \in RowsOf(p) : Bound(p, RowsOf(p), s)

\* Its one open session, as a transaction sees it.
Current(p, id) == Audit(p) /\ IdsOf(OpenIn(RowsOf(p))) = {id}

---------------------------------------------------------------------------
(* A command, and the order in which its kind reads.                        *)

\* An authenticated command goes on to one of these.
Tasks == {"state", "delete", "export", "progress", "prepare"}

Kinds == Tasks \cup {"authenticate", "observe"}

\* The resolver and the services read the same rows in nearly the same order:
\* load_session, load_profile, load_open_session.  load_session reads the row
\* of the session and audits its profile, load_open_session audits it again;
\* load_profile reads the row the audit next to it begins with, and has no
\* step of its own.
Plan(kind) ==
    CASE kind = "authenticate" -> <<"row", "coverage", "timeline", "binding",
                                    "coverage", "timeline", "current">>
      [] kind = "state"    -> <<"events">>
      [] kind = "delete"   -> <<"remove">>
      [] kind = "export"   -> <<"export">>
      [] kind = "progress" -> <<"reduce", "project", "stamp", "append">>
      [] kind = "prepare"  -> <<"reduce", "project", "store">>
      [] kind = "observe"  -> <<"deliver", "reduce", "project">>

NoEvent == [ordinal |-> 0, session |-> 0, at |-> Never, what |-> "none"]

Idle == [kind |-> "none", step |-> 0, session |-> 0, ids |-> {}, rows |-> {},
         event |-> NoEvent, through |-> 0, disturbed |-> FALSE,
         alarm |-> FALSE]

Busy(me) == call[me].step # 0

At(me, what) == Busy(me) /\ Plan(call[me].kind)[call[me].step] = what

Owner(me) == owners[call[me].session]

\* Whether the process is past load_session.
Found(me) == call[me].step > 4

Advance(c) ==
    IF c.step = Len(Plan(c.kind)) THEN Idle ELSE [c EXCEPT !.step = @ + 1]

\* Of an answer the client remembers one thing: that its data was called
\* corrupt although nothing was committed while the command ran.
Answer(c, code) ==
    [Idle EXCEPT !.alarm = code = "integrity_failure" /\ ~ c.disturbed]

Becomes(me, c) == call' = [call EXCEPT ![me] = c]

\* A commit, that the audits under way elsewhere may see half of.
Noticed == [q \in Servers |-> [call[q] EXCEPT !.disturbed = @ \/ Busy(q)]]

Disturbs == call' = Noticed

Commits(me, c) == call' = [Noticed EXCEPT ![me] = c]

Refused(me, code) ==
    /\ Becomes(me, Answer(call[me], code))
    /\ UNCHANGED <<database, clock>>

Goes(me) ==
    /\ Becomes(me, Advance(call[me]))
    /\ UNCHANGED <<database, clock>>

ReadClock(t) ==
    clock' = IF clock = SetBack \/ t < clock THEN SetBack ELSE t

---------------------------------------------------------------------------
(* Creating profiles and sessions: one transaction each.  The repetition of *)
(* a request finds its receipt and changes nothing.                         *)

CreateProfile(t) ==
    /\ newest < MaxProfiles
    /\ ReadClock(t)
    /\ newest' = newest + 1
    /\ created' = [created EXCEPT ![newest'] = t]
    /\ receipts' = receipts \cup {[profile |-> newest', session |-> 0]}
    /\ Disturbs
    /\ UNCHANGED <<sessions, owners, log, projection, material>>

\* The open session would close at t.
ClosingAt(rows, t) == [s \in rows |-> IF s.closed = Never THEN t ELSE s.closed]

\* No session of the profile opened or closed after t.
NotBefore(p, t) == \A s \in RowsOf(p) : s.opened <= t /\ s.closed <= t

\* The history before the command must be in order, with the open session
\* closed at t.
MayOpen(p, t) ==
    /\ p \in Live
    /\ t >= created[p]
    /\ RowsOf(p) = {} => log[p] = <<>>
    /\ RowsOf(p) # {} =>
           /\ Cardinality(OpenIn(RowsOf(p))) = 1
           /\ \A s \in RowsOf(p) : Bound(p, RowsOf(p), s)
           /\ NotBefore(p, t)
           /\ Within(p, RowsOf(p), log[p], ClosingAt(RowsOf(p), t))
           /\ log[p][1].at < t

\* Mutant: the prior session is left open.
LeftOpen(p, t) == sessions

\* The UPDATE before the INSERT.
Closed(p, t) ==
    {IF s.profile = p /\ s.closed = Never THEN [s EXCEPT !.closed = t] ELSE s :
        s \in sessions}

\* The first session records the activation of the first world.
CreateSession(p, t) ==
    /\ Len(owners) < MaxSessions
    /\ \A s \in RowsOf(p) : s.opened # t  \* assumed of the clock
    /\ MayOpen(p, t)
    /\ ReadClock(t)
    /\ LET id == Len(owners) + 1 IN
       /\ owners' = Append(owners, p)
       /\ sessions' = Closed(p, t) \cup
              {[id |-> id, profile |-> p, opened |-> t, closed |-> Never,
                seen |-> Len(log[p])]}
       /\ receipts' = receipts \cup {[profile |-> p, session |-> id]}
       /\ log' = IF RowsOf(p) # {} THEN log
                 ELSE [log EXCEPT ![p] =
                          <<[session |-> id, at |-> t, what |-> "world"]>>]
    /\ Disturbs
    /\ UNCHANGED <<created, newest, projection, material>>

---------------------------------------------------------------------------
(* The reads of a command.                                                  *)

\* A client names the session it was given; the profile is the one it was
\* minted for (a command that names another is refused and changes nothing).
Begin(me, s) ==
    /\ ~ Busy(me)
    /\ s \in DOMAIN owners
    /\ Becomes(me, [Idle EXCEPT !.kind = "authenticate", !.step = 1, !.session = s])
    /\ UNCHANGED <<database, clock>>

\* A reveal stored the next observation of the open session, stamped while it
\* was open; the process goes on to deliver it.
Plans(me, s, t) ==
    /\ ~ Busy(me)
    /\ s \in sessions /\ s.closed = Never
    /\ Len(log[s.profile]) < MaxEvents
    /\ ReadClock(t)
    /\ Becomes(me, [Idle EXCEPT !.kind = "observe", !.step = 1, !.session = s.id,
          !.event = [ordinal |-> Len(log[s.profile]) + 1, session |-> s.id,
                     at |-> t, what |-> "answer"]])
    /\ UNCHANGED database

ReadRow(me) ==
    /\ At(me, "row")
    /\ \/ call[me].session \in IdsOf(sessions) /\ Goes(me)
       \/ /\ call[me].session \notin IdsOf(sessions)
          /\ Refused(me, "session_not_current")

\* The profile row, the events without a profile, and the session ids.  The
\* second time, a missing profile is told from a corrupt one by whichever
\* read finds it missing.
ReadCoverage(me) ==
    LET p == Owner(me)
        c == [call[me] EXCEPT !.ids = IdsOf(RowsOf(p))] IN
    /\ At(me, "coverage")
    /\ \/ /\ p \in Live /\ NoOrphans
          /\ Becomes(me, Advance(c))
          /\ UNCHANGED <<database, clock>>
       \/ /\ p \notin Live \/ ~ NoOrphans
          /\ Refused(me, "integrity_failure")
       \/ /\ p \notin Live /\ Found(me)
          /\ Refused(me, "session_not_current")

\* The receipts against the ids read before, then the sessions.
ReadTimeline(me) ==
    LET p == Owner(me)
        c == [call[me] EXCEPT !.ids = {}, !.rows = RowsOf(p)] IN
    /\ At(me, "timeline")
    /\ \/ /\ Covered(p, call[me].ids) /\ Timeline(RowsOf(p))
          /\ Becomes(me, Advance(c))
          /\ UNCHANGED <<database, clock>>
       \/ /\ ~ (Covered(p, call[me].ids) /\ Timeline(RowsOf(p)))
          /\ Refused(me, "integrity_failure")

\* The openings, then receipts, events and rows again for each session read.
Authentic(me) ==
    LET p == Owner(me) IN
    /\ p \in Live
    /\ IdsOf(call[me].rows) = IdsOf(RowsOf(p))
    /\ \A s \in call[me].rows : Bound(p, RowsOf(p), s)

\* The end of load_session.  The runtime state asks later whether the session
\* it found is closed, the others at once.
ReadBinding(me) ==
    LET open == call[me].session \in IdsOf(OpenIn(call[me].rows))
        c == [call[me] EXCEPT !.rows = {}] IN
    /\ At(me, "binding")
    /\ \/ /\ Authentic(me)
          /\ Becomes(me, Advance(c))
          /\ UNCHANGED <<database, clock>>
       \/ Authentic(me) /\ ~ open /\ Refused(me, "session_not_current")
       \/ ~ Authentic(me) /\ Refused(me, "integrity_failure")

\* The end of load_open_session: the command is authenticated.
ReadCurrent(me) ==
    LET current == IdsOf(OpenIn(call[me].rows)) = {call[me].session} IN
    /\ At(me, "current")
    /\ \/ /\ Authentic(me) /\ current
          /\ \E task \in Tasks :
                Becomes(me, [call[me] EXCEPT !.kind = task, !.step = 1, !.rows = {}])
          /\ UNCHANGED <<database, clock>>
       \/ Authentic(me) /\ ~ current /\ Refused(me, "session_not_current")
       \/ ~ Authentic(me) /\ Refused(me, "integrity_failure")

\* The runtime state is rebuilt from the events.
ReadEvents(me) ==
    /\ At(me, "events")
    /\ \/ log[Owner(me)] # <<>> /\ Goes(me)
       \/ log[Owner(me)] = <<>> /\ Refused(me, "unavailable")

---------------------------------------------------------------------------
(* What a command writes, some of it long after it was authenticated.       *)

LastOrdinal(p) == Len(log[p])

\* load_state, and the end of append: the events are read ...
Reduce(me) ==
    /\ At(me, "reduce")
    /\ Becomes(me, Advance([call[me] EXCEPT !.through = LastOrdinal(Owner(me))]))
    /\ UNCHANGED <<database, clock>>

\* ... and the projection is written by a statement of its own, which asks
\* for no profile.  A command finds no active world in an empty history.
Project(me) ==
    /\ At(me, "project")
    /\ projection' = [projection EXCEPT ![Owner(me)] = call[me].through]
    /\ Becomes(me, IF call[me].kind # "observe" /\ call[me].through = 0
                   THEN Answer(call[me], "catalog_conflict")
                   ELSE Advance([call[me] EXCEPT !.through = 0]))
    /\ UNCHANGED <<identity, log, material, clock>>

\* The event is stamped before the transaction that appends it.
Stamp(me, t) ==
    /\ At(me, "stamp")
    /\ ReadClock(t)
    /\ Becomes(me, Advance([call[me] EXCEPT
          !.event = [ordinal |-> 0, session |-> call[me].session, at |-> t,
                     what |-> "outcome"]]))
    /\ UNCHANGED database

Entry(e) == [session |-> e.session, at |-> e.at, what |-> e.what]

\* Mutant: the session is not asked for again.
MayAppendStale(me) == Audit(Owner(me))

\* append_progression_event: the session must still be current; ordinal and
\* projection belong to the transaction.
MayAppend(me) == Current(Owner(me), call[me].session)

AppendOutcome(me) ==
    LET p == Owner(me) IN
    /\ At(me, "append")
    /\ \/ /\ MayAppend(me)
          /\ Len(log[p]) < MaxEvents
          /\ log' = [log EXCEPT ![p] = Append(@, Entry(call[me].event))]
          /\ projection' = [projection EXCEPT ![p] = Len(log[p]) + 1]
          /\ Commits(me, Advance(call[me]))
          /\ UNCHANGED <<identity, material, clock>>
       \/ /\ ~ MayAppend(me)
          /\ Refused(me, IF p \in Live /\ ~ Audit(p) THEN "integrity_failure"
                         ELSE "session_not_current")

\* append of an observation: no profile and no session is asked for; a second
\* delivery finds the first, and only the very next ordinal is accepted.
Delivered(p, e) == e.ordinal <= Len(log[p]) /\ log[p][e.ordinal] = Entry(e)

\* Mutant: any ordinal is taken.
IsAnyOrdinal(p, e) == Len(log[p]) < MaxEvents

IsNext(p, e) == e.ordinal = Len(log[p]) + 1

AppendAnswer(me) ==
    LET p == Owner(me)
        e == call[me].event
        c == [call[me] EXCEPT !.event = NoEvent] IN
    /\ At(me, "deliver")
    /\ \/ Delivered(p, e) /\ Becomes(me, Advance(c)) /\ UNCHANGED <<database, clock>>
       \/ /\ ~ Delivered(p, e) /\ IsNext(p, e)
          /\ log' = [log EXCEPT ![p] = Append(@, Entry(e))]
          /\ Commits(me, Advance(c))
          /\ UNCHANGED <<identity, projection, material, clock>>
       \/ /\ ~ Delivered(p, e) /\ ~ IsNext(p, e)
          /\ Refused(me, "event_order")

\* create_prepared, after seconds of generation: it asks for no profile.
StorePrepared(me) ==
    /\ At(me, "store")
    /\ material' = material \cup {Owner(me)}
    /\ Commits(me, Advance(call[me]))
    /\ UNCHANGED <<identity, log, projection, clock>>

\* The export repeats the audit in its transaction, and checks the history.
ExportHolds(p) ==
    Audit(p) /\ Within(p, RowsOf(p), log[p], Closing(RowsOf(p)))

Export(me) ==
    LET p == Owner(me) IN
    /\ At(me, "export")
    /\ \/ Current(p, call[me].session) /\ ExportHolds(p) /\ Goes(me)
       \/ /\ Audit(p) /\ ~ Current(p, call[me].session)
          /\ Refused(me, "session_not_current")
       \/ /\ ~ Audit(p) \/ (Current(p, call[me].session) /\ ~ ExportHolds(p))
          /\ Refused(me, "integrity_failure")

\* delete_profile: the session must still be the open one; then every row of
\* the profile goes.
StillOpen(me) == IdsOf(OpenIn(RowsOf(Owner(me)))) = {call[me].session}

DeleteProfile(me) ==
    LET p == Owner(me) IN
    /\ At(me, "remove")
    /\ \/ /\ StillOpen(me) /\ Audit(p)
          /\ created' = [created EXCEPT ![p] = Never]
          /\ sessions' = sessions \ RowsOf(p)
          /\ receipts' = {r \in receipts : r.profile # p}
          /\ log' = [log EXCEPT ![p] = <<>>]
          /\ projection' = [projection EXCEPT ![p] = NoRow]
          /\ material' = material \ {p}
          /\ Commits(me, Advance(call[me]))
          /\ UNCHANGED <<owners, newest, clock>>
       \/ ~ StillOpen(me) /\ Refused(me, "session_not_current")
       \/ StillOpen(me) /\ ~ Audit(p) /\ Refused(me, "integrity_failure")

\* The write lock, or the checkpoint before a deletion, is not to be had.
StorageBusy(me) ==
    /\ \E what \in {"append", "deliver", "store", "export", "remove"} : At(me, what)
    /\ Refused(me, "storage_busy")

\* The process ends, or the client goes away.
Abandon(me) ==
    /\ Busy(me)
    /\ Becomes(me, Idle)
    /\ UNCHANGED <<database, clock>>

---------------------------------------------------------------------------
Init ==
    /\ created = [p \in Profiles |-> Never]
    /\ sessions = {} /\ receipts = {} /\ material = {}
    /\ log = [p \in Profiles |-> <<>>]
    /\ projection = [p \in Profiles |-> NoRow]
    /\ owners = <<>> /\ newest = 0 /\ clock = Never
    /\ call = [q \in Servers |-> Idle]

Runs(me) ==
    \/ \E s \in Sessions : Begin(me, s)
    \/ \E s \in sessions, t \in Instants : Plans(me, s, t)
    \/ ReadRow(me)
    \/ ReadCoverage(me)
    \/ ReadTimeline(me)
    \/ ReadBinding(me)
    \/ ReadCurrent(me)
    \/ ReadEvents(me)
    \/ Reduce(me)
    \/ Project(me)
    \/ \E t \in Instants : Stamp(me, t)
    \/ AppendOutcome(me)
    \/ AppendAnswer(me)
    \/ StorePrepared(me)
    \/ Export(me)
    \/ DeleteProfile(me)
    \/ StorageBusy(me)
    \/ Abandon(me)

Next ==
    \/ \E t \in Instants : CreateProfile(t)
    \/ \E p \in Profiles, t \in Instants : CreateSession(p, t)
    \/ \E me \in Servers : Runs(me)

Spec == Init /\ [][Next]_vars

---------------------------------------------------------------------------
SessionRows == [id : Sessions, profile : Profiles, opened : Instants,
                closed : Instants \cup {Never}, seen : 0..MaxEvents]

EventRows == [session : Sessions, at : Instants,
              what : {"world", "answer", "outcome"}]

\* The shape of every variable.  The projection of a profile never goes
\* through an event that is not in its log.
TypeOK ==
    /\ created \in [Profiles -> Instants \cup {Never}]
    /\ sessions \subseteq SessionRows
    /\ receipts \subseteq [profile : Profiles, session : Sessions \cup {0}]
    /\ \A p \in Profiles : log[p] \in Seq(EventRows) /\ Len(log[p]) <= MaxEvents
    /\ projection \in [Profiles -> 0..NoRow]
    /\ \A p \in Live : projection[p] \in 0..Len(log[p]) \cup {NoRow}
    /\ material \subseteq Profiles
    /\ owners \in Seq(Profiles) /\ Len(owners) <= MaxSessions
    /\ newest \in 0..MaxProfiles
    /\ clock \in 0..SetBack
    /\ \A q \in Servers :
           /\ call[q].kind \in Kinds \cup {"none"}
           /\ call[q].step \in 0..Len(Plan("authenticate"))
           /\ call[q].session \in 0..Len(owners)
           /\ call[q].rows \subseteq SessionRows
           /\ call[q].ids \subseteq Sessions
           /\ call[q].through \in 0..MaxEvents
           /\ call[q].disturbed \in BOOLEAN /\ call[q].alarm \in BOOLEAN

\* Whatever the wall clock does and whoever is deleted meanwhile, the rows of
\* every profile pass the audit each of its commands begins with: receipts,
\* closures, openings and event prefixes agree, and no event is left without
\* a profile, which would condemn all of them.
AuditsHold == NoOrphans /\ \A p \in Live : Audit(p)

\* While the wall clock never went back, a profile is never refused its next
\* session (nor, by the same history, its export).
NextSessionOpens ==
    clock # SetBack =>
        \A p \in Live, t \in Instants :
            /\ t >= clock
            /\ \A s \in RowsOf(p) : s.opened # t
            => MayOpen(p, t)

\* A command answers integrity_failure only if something was committed while
\* it ran (its reads were torn) or the clock went back: sound rows that
\* nobody touches never look corrupt.
FailureMeansChange == \A q \in Servers : call[q].alarm => clock = SetBack

\* Nothing of a deleted profile comes back.
DeletedLeavesNothing ==
    \A p \in 1..newest : p \notin Live =>
        log[p] = <<>> /\ projection[p] = NoRow /\ p \notin material

=============================================================================
