----------------------- MODULE ProfileIdentityProofs -----------------------
(* Theorems of ProfileIdentity, for any number of processes, profiles,       *)
(* sessions, events and instants.                                            *)
EXTENDS ProfileIdentity, FiniteSetTheorems, SequenceTheorems, TLAPS

-----------------------------------------------------------------------------
(* The inductive invariant.                                                  *)

Planned == [ordinal : 0..MaxEvents, session : 0..MaxSessions, at : 0..MaxInstant,
            what : {"none", "world", "answer", "outcome"}]

Calls == [kind : Kinds \cup {"none"}, step : 0..7, session : 0..MaxSessions,
          ids : SUBSET Sessions, rows : SUBSET SessionRows, event : Planned,
          through : 0..MaxEvents, disturbed : BOOLEAN, alarm : BOOLEAN]

\* A command that runs is at a step of its plan, and names a session that was
\* minted.
Placed(c) ==
    c.step # 0 => /\ c.session \in DOMAIN owners
                  /\ \/ c.kind = "authenticate"
                     \/ c.kind \in {"state", "delete", "export"} /\ c.step = 1
                     \/ c.kind = "progress" /\ c.step \in 1..4
                     \/ c.kind \in {"prepare", "observe"} /\ c.step \in 1..3

Tables ==
    /\ created \in [Profiles -> Instants \cup {Never}]
    /\ sessions \subseteq SessionRows
    /\ receipts \subseteq [profile : Profiles, session : Sessions \cup {0}]
    /\ log \in [Profiles -> Seq(EventRows)]
    /\ \A p \in Profiles : Len(log[p]) <= MaxEvents
    /\ owners \in Seq(Profiles) /\ Len(owners) <= MaxSessions
    /\ newest \in 0..MaxProfiles
    /\ clock \in 0..SetBack

Shape ==
    /\ Tables
    /\ call \in [Servers -> Calls]
    /\ \A q \in Servers : Placed(call[q])

\* A session row belongs to the profile it was minted for, for as long as that
\* profile lives; and nothing of a profile outlives it but a late write.
Belongs ==
    /\ \A s \in sessions : /\ s.id \in DOMAIN owners /\ owners[s.id] = s.profile
                           /\ s.profile \in Live
    /\ \A s, r \in sessions : s.id = r.id => s = r
    /\ \A i \in DOMAIN owners : owners[i] \in Live => i \in IdsOf(sessions)
    /\ \A p \in Live : p <= newest
    /\ \A i \in DOMAIN owners : owners[i] <= newest
    /\ \A r \in receipts : r.profile \in Live

\* The receipts of a profile are one for itself and one for each session.
Receipted(p) ==
    /\ [profile |-> p, session |-> 0] \in receipts
    /\ \A s \in RowsOf(p) : [profile |-> p, session |-> s.id] \in receipts
    /\ \A r \in receipts : r.profile = p =>
           r.session = 0 \/ \E s \in RowsOf(p) : s.id = r.session

\* Each session but the last was closed when the next one opened.
Followed(p) ==
    /\ \A s, r \in RowsOf(p) : s.opened = r.opened => s = r
    /\ \A s \in RowsOf(p) :
          \/ s.closed = Never /\ \A r \in RowsOf(p) : r.opened <= s.opened
          \/ \E r \in RowsOf(p) :
                /\ s.opened < r.opened /\ s.closed = r.opened
                /\ \A q \in RowsOf(p) : s.opened < q.opened => r.opened <= q.opened

\* The events a session was opened after lie in earlier ones.
Opens(p, s) ==
    /\ s.seen = 0 => /\ log[p] # <<>>
                     /\ log[p][1].session = s.id /\ log[p][1].at = s.opened
    /\ s.seen # 0 =>
           /\ s.seen <= Len(log[p]) /\ log[p][1].at < s.opened
           /\ \A n \in 1..s.seen : \E r \in RowsOf(p) :
                 /\ r.id = log[p][n].session /\ r.opened < s.opened
                 /\ r.opened <= log[p][n].at
                 /\ r.closed # Never => log[p][n].at <= r.closed

\* The rows of a profile agree with each other and with its log.
Sound(p) ==
    /\ Receipted(p)
    /\ Followed(p)
    /\ RowsOf(p) # {} => OpenIn(RowsOf(p)) # {}
    /\ \A s \in RowsOf(p) : created[p] <= s.opened /\ Opens(p, s)

\* A log begins with the first session of its profile.
Histories == \A p \in Profiles :
    /\ RowsOf(p) = {} <=> log[p] = <<>>
    /\ log[p] # <<>> => \E s \in RowsOf(p) : s.opened = log[p][1].at

\* An event lies within the session it names.
InSession(e) ==
    \A s \in sessions : s.id = e.session =>
        s.opened <= e.at /\ (s.closed # Never => e.at <= s.closed)

\* A clock that never went back is past everything.
Past ==
    clock # SetBack =>
        /\ \A p \in Profiles : created[p] <= clock
        /\ \A s \in sessions : s.opened <= clock /\ s.closed <= clock
        /\ \A p \in Profiles : \A n \in DOMAIN log[p] :
               /\ log[p][n].session \in IdsOf(RowsOf(p))
               /\ InSession(log[p][n]) /\ log[p][n].at <= clock

\* What a process is about to append was stamped inside its session; an
\* observation is never the first event.
Delivers(c, now) ==
    /\ c.kind = "observe" /\ c.step = 1 =>
           /\ c.event.ordinal >= 2
           /\ c.event.session = c.session
           /\ c.event.at \in Instants /\ c.event.what = "answer"
           /\ now # SetBack => c.event.at <= now /\ InSession(c.event)
    /\ c.kind = "progress" /\ c.step = 4 =>
           /\ c.event.session = c.session
           /\ c.event.at \in Instants /\ c.event.what = "outcome"
           /\ now # SetBack =>
                  /\ c.event.at <= now
                  /\ \A s \in sessions : s.id = c.session => s.opened <= c.event.at

\* While nothing was committed beside a command, what it read is what there is.
Reads(c) ==
    c.step # 0 /\ ~c.disturbed =>
        /\ (c.kind = "authenticate" /\ c.step > 1) \/ c.kind \in Tasks =>
               owners[c.session] \in Live
        /\ c.kind = "authenticate" /\ c.step \in {3, 6} =>
               c.ids = IdsOf(RowsOf(owners[c.session]))
        /\ c.kind = "authenticate" /\ c.step \in {4, 7} =>
               c.rows = RowsOf(owners[c.session])

Trusted(c, now) == /\ Delivers(c, now)
                   /\ Reads(c)
                   /\ c.alarm => now = SetBack

Rows == /\ Belongs /\ NoOrphans
        /\ \A p \in Live : Sound(p)
        /\ Histories
        /\ Past

IInv == /\ Shape
        /\ Rows
        /\ \A q \in Servers : Trusted(call[q], clock)

-----------------------------------------------------------------------------
(* The plans.                                                                *)

\* Where a command is when its next step has a given name.
LEMMA Planning ==
    ASSUME NEW c \in Calls, c.step # 0, Placed(c)
    PROVE  LET what == Plan(c.kind)[c.step]
               last == c.step = Len(Plan(c.kind))
               at(kind, step) == c.kind = kind /\ c.step = step IN
           /\ what = "row" => at("authenticate", 1) /\ ~last
           /\ what = "coverage" => c.kind = "authenticate" /\ c.step \in {2, 5} /\ ~last
           /\ what = "timeline" => c.kind = "authenticate" /\ c.step \in {3, 6} /\ ~last
           /\ what = "binding" => at("authenticate", 4) /\ ~last
           /\ what = "current" => at("authenticate", 7)
           /\ what = "events" => at("state", 1) /\ last
           /\ what = "remove" => at("delete", 1) /\ last
           /\ what = "export" => at("export", 1) /\ last
           /\ what = "reduce" => /\ at("progress", 1) \/ at("prepare", 1) \/ at("observe", 2)
                                 /\ ~last
           /\ what = "project" => \/ (at("progress", 2) \/ at("prepare", 2)) /\ ~last
                                  \/ at("observe", 3) /\ last
           /\ what = "stamp" => at("progress", 3) /\ ~last
           /\ what = "append" => at("progress", 4) /\ last
           /\ what = "store" => at("prepare", 3) /\ last
           /\ what = "deliver" => at("observe", 1) /\ ~last
<1> DEFINE steps == Plan(c.kind)
<1>0. c.step \in 0..7
  BY DEF Calls
<1>1. CASE c.kind = "authenticate"
  <2>1. steps = <<"row", "coverage", "timeline", "binding", "coverage", "timeline", "current">>
    BY <1>1 DEF Plan
  <2>2. c.step = 1 \/ c.step = 2 \/ c.step = 3 \/ c.step = 4 \/ c.step = 5 \/ c.step = 6 \/ c.step = 7
    BY <1>0
  <2>. HIDE DEF steps
  <2>3. Len(steps) = 7 /\ steps[1] = "row" /\ steps[2] = "coverage" /\ steps[3] = "timeline"
        /\ steps[4] = "binding" /\ steps[5] = "coverage" /\ steps[6] = "timeline" /\ steps[7] = "current"
    BY <2>1
  <2>. QED  BY <1>1, <2>2, <2>3 DEF steps
<1>2. CASE c.kind = "progress"
  <2>1. steps = <<"reduce", "project", "stamp", "append">>
    BY <1>2 DEF Plan
  <2>2. c.step = 1 \/ c.step = 2 \/ c.step = 3 \/ c.step = 4
    BY <1>0, <1>2 DEF Placed
  <2>. HIDE DEF steps
  <2>3. Len(steps) = 4 /\ steps[1] = "reduce" /\ steps[2] = "project" /\ steps[3] = "stamp"
        /\ steps[4] = "append"
    BY <2>1
  <2>. QED  BY <1>2, <2>2, <2>3 DEF steps
<1>3. CASE c.kind = "prepare"
  <2>1. steps = <<"reduce", "project", "store">>
    BY <1>3 DEF Plan
  <2>2. c.step = 1 \/ c.step = 2 \/ c.step = 3
    BY <1>0, <1>3 DEF Placed
  <2>. HIDE DEF steps
  <2>3. Len(steps) = 3 /\ steps[1] = "reduce" /\ steps[2] = "project" /\ steps[3] = "store"
    BY <2>1
  <2>. QED  BY <1>3, <2>2, <2>3 DEF steps
<1>4. CASE c.kind = "observe"
  <2>1. steps = <<"deliver", "reduce", "project">>
    BY <1>4 DEF Plan
  <2>2. c.step = 1 \/ c.step = 2 \/ c.step = 3
    BY <1>0, <1>4 DEF Placed
  <2>. HIDE DEF steps
  <2>3. Len(steps) = 3 /\ steps[1] = "deliver" /\ steps[2] = "reduce" /\ steps[3] = "project"
    BY <2>1
  <2>. QED  BY <1>4, <2>2, <2>3 DEF steps
<1>5. CASE c.kind = "state" \/ c.kind = "delete" \/ c.kind = "export"
  <2>1. /\ c.kind = "state" => steps = <<"events">>
        /\ c.kind = "delete" => steps = <<"remove">>
        /\ c.kind = "export" => steps = <<"export">>
    BY <1>5 DEF Plan
  <2>2. c.step = 1
    BY <1>0, <1>5 DEF Placed
  <2>. HIDE DEF steps
  <2>3. /\ Len(steps) = 1
        /\ c.kind = "state" => steps[1] = "events"
        /\ c.kind = "delete" => steps[1] = "remove"
        /\ c.kind = "export" => steps[1] = "export"
    BY <2>1, <1>5
  <2>. QED  BY <1>5, <2>2, <2>3 DEF steps
<1>. QED  BY <1>1, <1>2, <1>3, <1>4, <1>5 DEF Placed
-----------------------------------------------------------------------------
(* Sound rows pass the audit.                                                *)

LEMMA InstantsAreNat ==
    /\ \A t \in Instants \cup {Never} : t \in Nat
    /\ Instants \subseteq Nat /\ Never = 0 /\ Never \notin Instants /\ SetBack \in Nat
BY BoundsAssumption DEF Instants, Never, SetBack

\* The shape of a row and of an event.
LEMMA RowShape ==
    ASSUME Shape
    PROVE  /\ \A s \in sessions :
                  /\ s \in SessionRows /\ s.id \in Sessions /\ s.profile \in Profiles
                  /\ s.opened \in Nat /\ s.opened \in Instants
                  /\ s.closed \in Nat /\ s.seen \in Nat /\ s.seen <= MaxEvents
           /\ \A p \in Profiles : /\ log[p] \in Seq(EventRows) /\ Len(log[p]) \in Nat
                                  /\ created[p] \in Nat
           /\ \A p \in Profiles : \A n \in DOMAIN log[p] :
                  /\ log[p][n] \in EventRows
                  /\ log[p][n].at \in Nat /\ log[p][n].at \in Instants
                  /\ log[p][n].session \in Sessions
           /\ \A p : RowsOf(p) \subseteq sessions
           /\ clock \in Nat
<1>1. \A s \in sessions :
          /\ s \in SessionRows /\ s.id \in Sessions /\ s.profile \in Profiles
          /\ s.opened \in Nat /\ s.opened \in Instants
          /\ s.closed \in Nat /\ s.seen \in Nat /\ s.seen <= MaxEvents
  <2>1. \A s \in SessionRows :
            /\ s.id \in Sessions /\ s.profile \in Profiles /\ s.opened \in Instants
            /\ s.closed \in Instants \cup {Never} /\ s.seen \in 0..MaxEvents
    BY DEF SessionRows
  <2>. QED
    <3>1. \A s \in sessions : s \in SessionRows
      BY DEF Shape, Tables
    <3>2. \A n \in 0..MaxEvents : n \in Nat /\ n <= MaxEvents
      BY BoundsAssumption
    <3>. QED  BY <2>1, <3>1, <3>2, InstantsAreNat
<1>2. \A p \in Profiles : log[p] \in Seq(EventRows) /\ Len(log[p]) \in Nat
  BY DEF Shape, Tables
<1>3. \A p \in Profiles : created[p] \in Nat
  <2>1. \A p \in Profiles : created[p] \in Instants \cup {Never}
    BY DEF Shape, Tables
  <2>. QED  BY <2>1, InstantsAreNat
<1>4. ASSUME NEW p \in Profiles, NEW n \in DOMAIN log[p]
      PROVE  /\ log[p][n] \in EventRows
             /\ log[p][n].at \in Nat /\ log[p][n].at \in Instants
             /\ log[p][n].session \in Sessions
  <2>1. log[p][n] \in EventRows
    BY <1>2, <1>4
  <2>2. \A e \in EventRows : e.at \in Instants /\ e.session \in Sessions
    BY DEF EventRows
  <2>. QED  BY <2>1, <2>2, InstantsAreNat
<1>5. \A p : RowsOf(p) \subseteq sessions
  BY DEF RowsOf
<1>6. clock \in Nat
  BY InstantsAreNat DEF Shape, Tables
<1>. QED  BY <1>1, <1>2, <1>3, <1>4, <1>5, <1>6

\* The least of the instants at which later sessions opened.
LEMMA LeastIsMin ==
    ASSUME NEW S \in SUBSET Nat, NEW x \in S, \A y \in S : x <= y
    PROVE  x = Min(S)
<1>1. \A z \in S : (\A y \in S : z <= y) => z = x
  OBVIOUS
<1>. QED  BY <1>1 DEF Min

LEMMA FollowedIsTimeline ==
    ASSUME Shape, NEW p, Followed(p)
    PROVE  Timeline(RowsOf(p))
<1> DEFINE rows == RowsOf(p)
<1>1. \A s \in rows : s.opened \in Nat /\ s.closed \in Nat
  BY RowShape
<1>2. SUFFICES ASSUME NEW s \in rows
               PROVE  s.closed = IF Later(rows, s) = {} THEN Never
                                 ELSE Min({r.opened : r \in Later(rows, s)})
  BY DEF Timeline, Followed
<1>3. CASE s.closed = Never /\ \A r \in rows : r.opened <= s.opened
  <2>1. Later(rows, s) = {}
    BY <1>1, <1>3 DEF Later
  <2>. QED  BY <2>1, <1>3
<1>4. CASE \E r \in rows : /\ s.opened < r.opened /\ s.closed = r.opened
                           /\ \A q \in rows : s.opened < q.opened => r.opened <= q.opened
  <2>1. PICK r \in rows : /\ s.opened < r.opened /\ s.closed = r.opened
                          /\ \A q \in rows : s.opened < q.opened => r.opened <= q.opened
    BY <1>4
  <2> DEFINE then == {q.opened : q \in Later(rows, s)}
  <2>2. r \in Later(rows, s) /\ Later(rows, s) # {}
    BY <2>1, <1>1 DEF Later
  <2>3. then \in SUBSET Nat /\ r.opened \in then /\ \A y \in then : r.opened <= y
    BY <2>1, <2>2, <1>1 DEF Later
  <2>4. r.opened = Min(then)
    BY <2>3, LeastIsMin
  <2>. QED  BY <2>1, <2>2, <2>4
<1>. QED  BY <1>2, <1>3, <1>4 DEF Followed

LEMMA ReceiptedIsCovered ==
    ASSUME NEW p, Receipted(p)
    PROVE  Covered(p, IdsOf(RowsOf(p)))
<1> DEFINE named == {r.session : r \in {q \in receipts : q.profile = p}}
<1>1. ASSUME NEW i \in named  PROVE i \in IdsOf(RowsOf(p)) \cup {0}
  BY <1>1 DEF Receipted, IdsOf
<1>2. ASSUME NEW i \in IdsOf(RowsOf(p)) \cup {0}  PROVE i \in named
  <2>1. CASE i = 0
    <3>1. [profile |-> p, session |-> 0] \in receipts
      BY DEF Receipted
    <3>. QED  BY <3>1, <2>1
  <2>2. CASE i \in IdsOf(RowsOf(p))
    <3>1. PICK s \in RowsOf(p) : i = s.id
      BY <2>2 DEF IdsOf
    <3>2. [profile |-> p, session |-> s.id] \in receipts
      BY DEF Receipted
    <3>. QED  BY <3>1, <3>2
  <2>. QED  BY <1>2, <2>1, <2>2
<1>. QED  BY <1>1, <1>2 DEF Covered

LEMMA OpensIsBound ==
    ASSUME Shape, NEW p \in Live, Sound(p), NEW s \in RowsOf(p)
    PROVE  Bound(p, RowsOf(p), s)
<1>0. p \in Profiles /\ Opens(p, s) /\ s.seen \in Nat
  BY RowShape DEF Live, Sound
<1>1. CASE s.seen = 0
  BY <1>0, <1>1 DEF Opens, Bound
<1>2. CASE s.seen # 0
  <2> DEFINE before == SubSeq(log[p], 1, s.seen)
  <2>1. log[p] \in Seq(EventRows) /\ s.seen <= Len(log[p]) /\ log[p][1].at < s.opened
    BY <1>0, <1>2, RowShape DEF Opens
  <2>2. /\ before \in Seq(EventRows) /\ Len(before) = s.seen /\ before # <<>>
        /\ DOMAIN before = 1..s.seen
        /\ \A n \in 1..s.seen : before[n] = log[p][n]
    BY <2>1, <1>0, <1>2, SubSeqProperties
  <2>. HIDE DEF before
  <2>3. \A n \in 1..s.seen : \E r \in RowsOf(p) :
            /\ r.id = before[n].session /\ r.opened < s.opened
            /\ r.opened <= before[n].at
            /\ r.closed # Never => before[n].at <= r.closed
    BY <1>0, <1>2, <2>2 DEF Opens
  <2>4. \A n \in DOMAIN before : \E r \in RowsOf(p) : r.id = before[n].session /\ r.opened < s.opened
    BY <2>2, <2>3
  <2>5. Within(p, RowsOf(p), before, Closing(RowsOf(p)))
    <3>1. \A r \in RowsOf(p) : r.opened >= created[p] /\ Closing(RowsOf(p))[r] = r.closed
      BY RowShape, <1>0 DEF Sound, Closing
    <3>2. \A n \in DOMAIN before : \A r \in RowsOf(p) : r.opened <= before[n].at => before[n].at >= r.opened
      BY <2>1, <2>2, RowShape, <1>0
    <3>3. \A n \in DOMAIN before : \E r \in RowsOf(p) :
              /\ r.id = before[n].session
              /\ before[n].at >= r.opened
              /\ Closing(RowsOf(p))[r] # Never => before[n].at <= Closing(RowsOf(p))[r]
      BY <2>2, <2>3, <3>1, <3>2
    <3>. QED  BY <3>1, <3>3, <2>2 DEF Within
  <2>6. before[1].at < s.opened
    BY <2>1, <2>2, <1>2, <1>0
  <2>. QED  BY <1>2, <2>1, <2>4, <2>5, <2>6 DEF Bound, before
<1>. QED  BY <1>1, <1>2

\* The audit of any profile that lives.
LEMMA SoundIsAudited ==
    ASSUME Shape, Rows, NEW p \in Live
    PROVE  /\ Audit(p) /\ Timeline(RowsOf(p)) /\ Covered(p, IdsOf(RowsOf(p)))
           /\ \A s \in RowsOf(p) : Bound(p, RowsOf(p), s)
BY FollowedIsTimeline, ReceiptedIsCovered, OpensIsBound DEF Audit, Rows, Sound
\* While the clock never went back, every event lies within its session,
\* wherever the open session is taken to end.
LEMMA HistoryIsWithin ==
    ASSUME Shape, Rows, clock # SetBack, NEW p \in Live, NEW ends,
           \A s \in RowsOf(p) : \/ s.closed # Never /\ ends[s] = s.closed
                                \/ s.closed = Never /\ ends[s] = Never
                                \/ s.closed = Never /\ ends[s] \in Nat /\ clock <= ends[s]
    PROVE  Within(p, RowsOf(p), log[p], ends)
<1>0. p \in Profiles
  BY DEF Live
<1>1. (RowsOf(p) = {}) = (log[p] = <<>>)
  BY <1>0 DEF Rows, Histories
<1>2. \A s \in RowsOf(p) : s.opened >= created[p]
  BY <1>0, RowShape DEF Rows, Sound
<1>3. ASSUME NEW n \in DOMAIN log[p]
      PROVE  \E s \in RowsOf(p) :
                 /\ s.id = log[p][n].session
                 /\ log[p][n].at >= s.opened
                 /\ ends[s] # Never => log[p][n].at <= ends[s]
  <2>1. /\ log[p][n].session \in IdsOf(RowsOf(p))
        /\ InSession(log[p][n]) /\ log[p][n].at <= clock
    BY <1>0, <1>3 DEF Rows, Past
  <2>2. PICK s \in RowsOf(p) : s.id = log[p][n].session
    BY <2>1 DEF IdsOf
  <2>3. /\ s \in sessions /\ s.opened \in Nat /\ s.closed \in Nat
        /\ log[p][n].at \in Nat /\ clock \in Nat
    BY <1>0, <1>3, RowShape
  <2>4. s.opened <= log[p][n].at /\ (s.closed # Never => log[p][n].at <= s.closed)
    BY <2>1, <2>2, <2>3 DEF InSession
  <2>5. ends[s] # Never => log[p][n].at <= ends[s]
    BY <2>1, <2>3, <2>4
  <2>. QED  BY <2>2, <2>3, <2>4, <2>5
<1>. QED  BY <1>1, <1>2, <1>3 DEF Within

LEMMA OneIsOpen ==
    ASSUME Shape, NEW p, Sound(p), RowsOf(p) # {}
    PROVE  Cardinality(OpenIn(RowsOf(p))) = 1
<1>1. PICK s \in RowsOf(p) : s.closed = Never
  BY DEF Sound, OpenIn
<1>2. \A r \in RowsOf(p) : r.opened \in Nat /\ r.closed \in Nat
  BY RowShape
<1>3. \A r \in RowsOf(p) : r.closed = Never => \A q \in RowsOf(p) : q.opened <= r.opened
  BY <1>2, RowShape, InstantsAreNat DEF Sound, Followed
<1>4. \A r \in RowsOf(p) : r.closed = Never => r = s
  BY <1>1, <1>2, <1>3 DEF Sound, Followed
<1>5. OpenIn(RowsOf(p)) = {s}
  BY <1>1, <1>4 DEF OpenIn
<1>. QED  BY <1>5, FS_Singleton

\* Nothing stands in the way of the next session.
LEMMA NothingInTheWay ==
    ASSUME Shape, Rows, clock # SetBack, NEW p \in Live, NEW t \in Instants,
           t >= clock, \A s \in RowsOf(p) : s.opened # t
    PROVE  MayOpen(p, t)
<1>0. /\ p \in Profiles /\ created[p] \in Nat /\ clock \in Nat /\ t \in Nat
      /\ Sound(p) /\ created[p] <= clock
      /\ RowsOf(p) = {} <=> log[p] = <<>>
  BY RowShape, InstantsAreNat DEF Live, Rows, Past, Histories
<1>1. t >= created[p]
  BY <1>0
<1>2. ASSUME RowsOf(p) # {}
      PROVE  /\ Cardinality(OpenIn(RowsOf(p))) = 1
             /\ \A s \in RowsOf(p) : Bound(p, RowsOf(p), s)
             /\ NotBefore(p, t)
             /\ Within(p, RowsOf(p), log[p], ClosingAt(RowsOf(p), t))
             /\ log[p][1].at < t
  <2>1. Cardinality(OpenIn(RowsOf(p))) = 1
    BY <1>0, <1>2, OneIsOpen
  <2>2. \A s \in RowsOf(p) : Bound(p, RowsOf(p), s)
    BY SoundIsAudited
  <2>3. \A s \in RowsOf(p) : s \in sessions /\ s.opened \in Nat /\ s.closed \in Nat
    BY RowShape
  <2>4. \A s \in RowsOf(p) : s.opened <= clock /\ s.closed <= clock
    BY <2>3 DEF Rows, Past
  <2>5. NotBefore(p, t)
    BY <1>0, <2>3, <2>4 DEF NotBefore
  <2>6. \A s \in RowsOf(p) : ClosingAt(RowsOf(p), t)[s] = IF s.closed = Never THEN t ELSE s.closed
    BY DEF ClosingAt
  <2>7. Within(p, RowsOf(p), log[p], ClosingAt(RowsOf(p), t))
    BY <1>0, <2>6, HistoryIsWithin
  <2>8. log[p][1].at < t
    <3>1. PICK s \in RowsOf(p) : s.opened = log[p][1].at
      BY <1>0, <1>2 DEF Rows, Histories
    <3>. QED  BY <3>1, <1>0, <2>3, <2>4
  <2>. QED  BY <2>1, <2>2, <2>5, <2>7, <2>8
<1>. QED  BY <1>0, <1>1, <1>2 DEF MayOpen

\* An export fails only of a history that the clock put out of order.
LEMMA HistoryIsExported ==
    ASSUME Shape, Rows, clock # SetBack, NEW p \in Live
    PROVE  ExportHolds(p)
<1>1. \A s \in RowsOf(p) : Closing(RowsOf(p))[s] = s.closed
  BY DEF Closing
<1>2. Within(p, RowsOf(p), log[p], Closing(RowsOf(p)))
  BY <1>1, HistoryIsWithin
<1>. QED  BY <1>2, SoundIsAudited DEF ExportHolds
-----------------------------------------------------------------------------
(* What a step may do to the commands under way.                             *)

LEMMA ClockMoves ==
    ASSUME Shape, NEW t \in Instants, ReadClock(t)
    PROVE  /\ clock' \in 0..SetBack
           /\ clock' # SetBack => clock # SetBack /\ clock <= t /\ clock' = t
<1>1. t \in Nat /\ t < SetBack /\ clock \in 0..SetBack /\ SetBack \in Nat
  BY BoundsAssumption DEF Instants, SetBack, Shape, Tables
<1>. QED  BY <1>1 DEF ReadClock

\* The clock goes on, or is known to have gone back; sessions stay where they
\* opened, and close only from now on.
Onward ==
    /\ clock' # SetBack => clock # SetBack /\ clock <= clock'
    /\ DOMAIN owners \subseteq DOMAIN owners'
    /\ clock' # SetBack =>
           \A s \in sessions' : s.id \in DOMAIN owners =>
               \E r \in sessions :
                   /\ r.id = s.id /\ r.opened = s.opened
                   /\ s.closed = r.closed \/ (s.closed \in Nat /\ clock <= s.closed)

\* A command that another step does not touch, or only disturbs.
LEMMA CommandKept ==
    ASSUME Shape, clock' \in Nat, Onward,
           NEW c \in Calls, Placed(c), Trusted(c, clock),
           NEW d \in Calls, d.kind = c.kind, d.step = c.step, d.session = c.session,
           d.event = c.event, d.alarm = c.alarm,
           \/ d = c /\ UNCHANGED identity
           \/ d.step # 0 => d.disturbed
    PROVE  Placed(d)' /\ Trusted(d, clock)'
<1>1. Placed(d)'
  BY DEF Placed, Onward
<1>2. Delivers(d, clock)'
  <2>1. /\ clock \in Nat /\ \A s \in sessions : s.opened \in Nat /\ s.closed \in Nat
    BY RowShape
  <2>2. \A t \in Instants : t \in Nat
    BY InstantsAreNat
  <2>3. CASE d.kind = "observe" /\ d.step = 1
    <3>1. /\ c.event.ordinal >= 2
          /\ c.event.session = c.session
          /\ c.event.at \in Instants /\ c.event.what = "answer"
          /\ clock # SetBack => c.event.at <= clock /\ InSession(c.event)
      BY <2>3 DEF Trusted, Delivers
    <3>2. c.session \in DOMAIN owners
      BY <2>3 DEF Placed
    <3>3. ASSUME clock' # SetBack  PROVE d.event.at <= clock' /\ InSession(d.event)'
      <4>1. clock # SetBack /\ clock <= clock' /\ c.event.at <= clock /\ InSession(c.event)
        BY <3>1, <3>3 DEF Onward
      <4>2. d.event.at <= clock'
        BY <4>1, <3>1, <2>1, <2>2
      <4>3. ASSUME NEW s \in sessions', s.id = d.event.session
            PROVE  s.opened <= d.event.at /\ (s.closed # Never => d.event.at <= s.closed)
        <5>1. PICK r \in sessions : /\ r.id = s.id /\ r.opened = s.opened
                                    /\ s.closed = r.closed \/ (s.closed \in Nat /\ clock <= s.closed)
          BY <3>1, <3>2, <3>3, <4>3 DEF Onward
        <5>2. r.opened <= c.event.at /\ (r.closed # Never => c.event.at <= r.closed)
          BY <4>1, <4>3, <5>1 DEF InSession
        <5>. QED  BY <5>1, <5>2, <4>1, <3>1, <2>1, <2>2
      <4>. QED  BY <4>2, <4>3 DEF InSession
    <3>. QED  BY <3>1, <3>3, <2>3 DEF Delivers
  <2>4. CASE d.kind = "progress" /\ d.step = 4
    <3>1. /\ c.event.session = c.session
          /\ c.event.at \in Instants /\ c.event.what = "outcome"
          /\ clock # SetBack =>
                /\ c.event.at <= clock
                /\ \A s \in sessions : s.id = c.session => s.opened <= c.event.at
      BY <2>4 DEF Trusted, Delivers
    <3>2. c.session \in DOMAIN owners
      BY <2>4 DEF Placed
    <3>3. ASSUME clock' # SetBack
          PROVE  /\ d.event.at <= clock'
                 /\ \A s \in sessions' : s.id = d.session => s.opened <= d.event.at
      <4>1. clock # SetBack /\ clock <= clock' /\ c.event.at <= clock
        BY <3>1, <3>3 DEF Onward
      <4>2. d.event.at <= clock'
        BY <4>1, <3>1, <2>1, <2>2
      <4>3. ASSUME NEW s \in sessions', s.id = d.session
            PROVE  s.opened <= d.event.at
        <5>1. PICK r \in sessions : r.id = s.id /\ r.opened = s.opened
          BY <3>2, <3>3, <4>3 DEF Onward
        <5>. QED  BY <5>1, <3>1, <4>1, <4>3
      <4>. QED  BY <4>2, <4>3
    <3>. QED  BY <3>1, <3>3, <2>4 DEF Delivers
  <2>. QED  BY <2>3, <2>4 DEF Delivers
<1>3. Reads(d)'
  <2>1. CASE d = c /\ UNCHANGED identity
    BY <2>1 DEF Trusted, Reads, identity, RowsOf, Live
  <2>2. CASE d.step # 0 => d.disturbed
    BY <2>2 DEF Reads
  <2>. QED  BY <2>1, <2>2
<1>4. d.alarm => clock' = SetBack
  BY DEF Trusted, Onward
<1>. QED  BY <1>1, <1>2, <1>3, <1>4 DEF Trusted

LEMMA CallKept ==
    ASSUME Shape, clock' \in Nat, Onward, NEW q \in Servers, Trusted(call[q], clock),
           \/ call'[q] = call[q] /\ UNCHANGED identity
           \/ call'[q] = [call[q] EXCEPT !.disturbed = @ \/ Busy(q)]
    PROVE  call'[q] \in Calls /\ Placed(call[q])' /\ Trusted(call[q], clock)'
<1>1. PICK c \in Calls : c = call[q]
  BY DEF Shape
<1>2. Placed(c) /\ Trusted(c, clock)
  BY <1>1 DEF Shape
<1>3. PICK d \in Calls : /\ d = call'[q]
                         /\ d.kind = c.kind /\ d.step = c.step /\ d.session = c.session
                         /\ d.event = c.event /\ d.alarm = c.alarm
                         /\ \/ d = c /\ UNCHANGED identity
                            \/ d.step # 0 => d.disturbed
  <2>1. CASE call'[q] = call[q] /\ UNCHANGED identity
    BY <1>1, <2>1
  <2>2. CASE call'[q] = [call[q] EXCEPT !.disturbed = @ \/ Busy(q)]
    <3>1. PICK b \in BOOLEAN : b = (c.disturbed \/ Busy(q)) /\ (c.step # 0 => b)
      BY <1>1 DEF Busy
    <3>2. call'[q] = [c EXCEPT !.disturbed = b]
      BY <1>1, <2>2, <3>1
    <3>. QED  BY <3>1, <3>2 DEF Calls
  <2>. QED  BY <2>1, <2>2
<1>4. Placed(d)' /\ Trusted(d, clock)'
  BY <1>2, <1>3, CommandKept
<1>5. Placed(call[q])'
  BY <1>3, <1>4 DEF Placed
<1>6. Trusted(call[q], clock)'
  BY <1>3, <1>4 DEF Trusted, Delivers, Reads, InSession
<1>. QED  BY <1>3, <1>5, <1>6
\* The calls after a step of `me', which leaves its own command at c.
LEMMA CallsKept ==
    ASSUME Shape, clock' \in Nat, Onward,
           \A q \in Servers : Trusted(call[q], clock),
           NEW me \in Servers, NEW c \in Calls, Placed(c)', Trusted(c, clock)',
           \/ Becomes(me, c) /\ UNCHANGED identity
           \/ Commits(me, c)
    PROVE  /\ call' \in [Servers -> Calls]
           /\ \A q \in Servers : Placed(call[q])' /\ Trusted(call[q], clock)'
<1>1. call'[me] = c /\ DOMAIN call' = Servers
      /\ call' = [q \in Servers |-> call'[q]]
  BY DEF Becomes, Commits, Noticed, Shape
<1>2. ASSUME NEW q \in Servers, q # me
      PROVE  \/ call'[q] = call[q] /\ UNCHANGED identity
             \/ call'[q] = [call[q] EXCEPT !.disturbed = @ \/ Busy(q)]
  BY <1>2 DEF Becomes, Commits, Noticed, Shape
<1>3. ASSUME NEW q \in Servers
      PROVE  call'[q] \in Calls /\ Placed(call[q])' /\ Trusted(call[q], clock)'
  <2>1. CASE q = me
    <3>1. Placed(call[q])'
      BY <1>1, <2>1 DEF Placed
    <3>2. Trusted(call[q], clock)'
      BY <1>1, <2>1 DEF Trusted, Delivers, Reads, InSession
    <3>. QED  BY <1>1, <2>1, <3>1, <3>2
  <2>2. CASE q # me
    BY <1>2, <2>2, CallKept
  <2>. QED  BY <2>1, <2>2
<1>. QED  BY <1>1, <1>3

\* After a commit of no command.
LEMMA CallsDisturbed ==
    ASSUME Shape, clock' \in Nat, Onward,
           \A q \in Servers : Trusted(call[q], clock), Disturbs
    PROVE  /\ call' \in [Servers -> Calls]
           /\ \A q \in Servers : Placed(call[q])' /\ Trusted(call[q], clock)'
<1>1. call' = [q \in Servers |-> call'[q]]
  BY DEF Disturbs, Noticed
<1>2. ASSUME NEW q \in Servers
      PROVE  call'[q] = [call[q] EXCEPT !.disturbed = @ \/ Busy(q)]
  BY DEF Disturbs, Noticed
<1>3. ASSUME NEW q \in Servers
      PROVE  call'[q] \in Calls /\ Placed(call[q])' /\ Trusted(call[q], clock)'
  BY <1>2, CallKept
<1>. QED  BY <1>1, <1>3

\* A command that promises nothing of what it holds.
Rests(c) == c.step = 0 \/ (c.kind = "observe" /\ c.step # 1)

LEMMA RestIsTrusted ==
    ASSUME NEW c, Rests(c), c.alarm => clock' = SetBack
    PROVE  Trusted(c, clock)'
BY DEF Rests, Trusted, Delivers, Reads, Tasks

\* A step that writes no row the audits read.
LEMMA Still ==
    ASSUME IInv, NEW me \in Servers, NEW c \in Calls, Placed(c), Trusted(c, clock'),
           Becomes(me, c) \/ Commits(me, c), UNCHANGED <<identity, log>>,
           \/ UNCHANGED clock
           \/ \E t \in Instants : ReadClock(t)
    PROVE  IInv'
<1>1. Shape /\ Rows /\ \A q \in Servers : Trusted(call[q], clock)
  BY DEF IInv
<1>2. clock' \in 0..SetBack /\ (clock' # SetBack => clock # SetBack /\ clock <= clock')
  BY <1>1, ClockMoves, InstantsAreNat DEF Shape, Tables
<1>3. clock' \in Nat /\ clock \in Nat
  BY <1>1, <1>2, InstantsAreNat, RowShape
<1>4. \A s \in sessions : s.opened \in Nat /\ s.closed \in Nat
  BY <1>1, RowShape
<1>5. Onward
  BY <1>2, <1>4 DEF Onward, identity
<1>6. Placed(c)' /\ Trusted(c, clock)'
  <2>1. Placed(c)'
    BY DEF Placed, identity
  <2>2. Trusted(c, clock)'
    BY DEF Trusted, Delivers, Reads, InSession, RowsOf, Live, identity
  <2>. QED  BY <2>1, <2>2
<1>7. /\ call' \in [Servers -> Calls]
      /\ \A q \in Servers : Placed(call[q])' /\ Trusted(call[q], clock)'
  BY <1>1, <1>3, <1>5, <1>6, CallsKept
<1>8. Shape'
  BY <1>1, <1>2, <1>7 DEF Shape, Tables, identity
<1>9. Rows'
  <2>1. Belongs' /\ NoOrphans' /\ Histories' /\ (\A p \in Live : Sound(p))'
    BY <1>1 DEF Rows, Belongs, NoOrphans, Histories, Sound, Receipted, Followed, Opens, RowsOf,
                OpenIn, Live, IdsOf, identity
  <2>2. Past'
    <3> SUFFICES ASSUME clock' # SetBack
                 PROVE  /\ \A p \in Profiles : created[p] <= clock'
                        /\ \A s \in sessions : s.opened <= clock' /\ s.closed <= clock'
                        /\ \A p \in Profiles : \A n \in DOMAIN log[p] :
                               /\ log[p][n].session \in IdsOf(RowsOf(p))
                               /\ InSession(log[p][n]) /\ log[p][n].at <= clock'
      BY DEF Past, IdsOf, RowsOf, InSession, identity
    <3>1. clock # SetBack /\ clock <= clock' /\ Past
      BY <1>1, <1>2 DEF Rows
    <3>2. \A p \in Profiles : created[p] <= clock'
      BY <3>1, <1>1, <1>3, RowShape DEF Past
    <3>3. \A s \in sessions : s.opened <= clock' /\ s.closed <= clock'
      BY <3>1, <1>3, <1>4 DEF Past
    <3>4. \A p \in Profiles : \A n \in DOMAIN log[p] : log[p][n].at <= clock'
      BY <3>1, <1>1, <1>3, RowShape DEF Past
    <3>. QED  BY <3>1, <3>2, <3>3, <3>4 DEF Past
  <2>. QED  BY <2>1, <2>2 DEF Rows
<1>. QED  BY <1>7, <1>8, <1>9 DEF IInv

\* A commit to the rows, after which its command relies on nothing it read.
LEMMA Changed ==
    ASSUME IInv, NEW me \in Servers, NEW c \in Calls, Placed(c), Rests(c),
           c.alarm => clock' = SetBack, Commits(me, c), Onward, Tables', Rows'
    PROVE  IInv'
<1>1. Shape /\ \A q \in Servers : Trusted(call[q], clock)
  BY DEF IInv
<1>2. clock' \in Nat
  BY InstantsAreNat DEF Tables
<1>3. Placed(c)' /\ Trusted(c, clock)'
  BY RestIsTrusted DEF Placed, Onward
<1>4. /\ call' \in [Servers -> Calls]
      /\ \A q \in Servers : Placed(call[q])' /\ Trusted(call[q], clock)'
  BY <1>1, <1>2, <1>3, CallsKept
<1>. QED  BY <1>4 DEF IInv, Shape

LEMMA Created ==
    ASSUME IInv, Disturbs, Onward, Tables', Rows'
    PROVE  IInv'
<1>1. Shape /\ \A q \in Servers : Trusted(call[q], clock)
  BY DEF IInv
<1>2. clock' \in Nat
  BY InstantsAreNat DEF Tables
<1>3. /\ call' \in [Servers -> Calls]
      /\ \A q \in Servers : Placed(call[q])' /\ Trusted(call[q], clock)'
  BY <1>1, <1>2, CallsDisturbed
<1>. QED  BY <1>3 DEF IInv, Shape
-----------------------------------------------------------------------------
(* The commits.                                                              *)

LEMMA CreateProfileKeeps ==
    ASSUME IInv, NEW t \in Instants, CreateProfile(t)
    PROVE  IInv'
<1> DEFINE new == newest + 1
<1>1. Shape /\ Tables /\ Rows
  BY DEF IInv, Shape
<1>2. /\ newest < MaxProfiles /\ ReadClock(t) /\ newest' = new
      /\ created' = [created EXCEPT ![new] = t]
      /\ receipts' = receipts \cup {[profile |-> new, session |-> 0]}
      /\ Disturbs
      /\ UNCHANGED <<sessions, owners, log, projection, material>>
  BY DEF CreateProfile
<1>3. clock' \in 0..SetBack /\ (clock' # SetBack => clock # SetBack /\ clock <= t /\ clock' = t)
  BY <1>1, <1>2, ClockMoves
<1>4. newest \in Nat /\ new \in Nat /\ new \in Profiles /\ new <= MaxProfiles /\ new > newest
  BY <1>1, <1>2, BoundsAssumption DEF Tables, Profiles
<1>. HIDE DEF new
<1>5. new \notin Live /\ log[new] = <<>> /\ RowsOf(new) = {}
      /\ \A r \in receipts : r.profile # new
  BY <1>1, <1>4 DEF Rows, Belongs, NoOrphans, RowsOf, Live, Profiles
<1>6. /\ t \in Nat /\ t # Never /\ clock \in Nat
      /\ \A s \in sessions : s.opened \in Nat /\ s.closed \in Nat
      /\ \A p \in Profiles : created[p] \in Nat
      /\ \A p \in Profiles : \A n \in DOMAIN log[p] : log[p][n].at \in Nat
  BY <1>1, RowShape, InstantsAreNat
<1>7. Live' = Live \cup {new} /\ new \notin Live /\ \A p \in Live : created'[p] = created[p]
  BY <1>1, <1>2, <1>4, <1>5, <1>6 DEF Live, Tables
<1>8. Tables'
  <2>1. created' \in [Profiles -> Instants \cup {Never}]
    BY <1>1, <1>2 DEF Tables
  <2>2. receipts' \subseteq [profile : Profiles, session : Sessions \cup {0}]
    BY <1>1, <1>2, <1>4 DEF Tables
  <2>3. newest' \in 0..MaxProfiles
    BY <1>2, <1>4, BoundsAssumption
  <2>. QED  BY <1>1, <1>2, <1>3, <2>1, <2>2, <2>3 DEF Tables
<1>9. Onward
  BY <1>1, <1>2, <1>3, <1>6 DEF Onward
<1>10. Rows'
  <2>1. Belongs'
    <3>1. \A p \in Live' : p <= newest'
      BY <1>1, <1>2, <1>4, <1>7 DEF Rows, Belongs, Live, Profiles
    <3>2. \A r \in receipts' : r.profile \in Live'
      BY <1>1, <1>2, <1>7 DEF Rows, Belongs
    <3>3. \A i \in DOMAIN owners : owners[i] \in Live' => i \in IdsOf(sessions)
      <4>1. ASSUME NEW i \in DOMAIN owners, owners[i] = new  PROVE FALSE
        BY <4>1, <1>1, <1>4 DEF Rows, Belongs
      <4>. QED  BY <4>1, <1>1, <1>7 DEF Rows, Belongs
    <3>4. \A i \in DOMAIN owners : owners[i] <= newest'
      <4>1. \A i \in DOMAIN owners : owners[i] \in Nat /\ owners[i] <= newest
        <5>1. \A p \in Profiles : p \in Nat
          BY DEF Profiles
        <5>2. \A i \in DOMAIN owners : owners[i] \in Profiles
          BY <1>1 DEF Tables
        <5>. QED  BY <5>1, <5>2, <1>1 DEF Rows, Belongs
      <4>. QED  BY <4>1, <1>2, <1>4
    <3>. QED  BY <1>1, <1>2, <1>7, <3>1, <3>2, <3>3, <3>4 DEF Rows, Belongs, IdsOf
  <2>2. NoOrphans'
    BY <1>1, <1>2, <1>7 DEF Rows, NoOrphans
  <2>3. ASSUME NEW p \in Live'  PROVE Sound(p)'
    <3>1. CASE p = new
      BY <1>2, <1>5, <3>1 DEF Sound, Receipted, Followed, RowsOf
    <3>2. CASE p \in Live
      BY <1>1, <1>2, <1>7, <3>2 DEF Rows, Sound, Receipted, Followed, Opens, RowsOf, OpenIn
    <3>. QED  BY <1>7, <3>1, <3>2
  <2>4. Histories'
    BY <1>1, <1>2 DEF Rows, Histories, RowsOf
  <2>5. Past'
    <3>1. ASSUME clock' # SetBack, NEW p \in Profiles  PROVE created'[p] <= clock'
      BY <1>1, <1>2, <1>3, <1>6, <3>1 DEF Rows, Past, Tables
    <3>2. ASSUME clock' # SetBack, NEW s \in sessions  PROVE s.opened <= clock' /\ s.closed <= clock'
      BY <1>1, <1>3, <1>6, <3>2 DEF Rows, Past
    <3>3. ASSUME clock' # SetBack, NEW p \in Profiles, NEW n \in DOMAIN log[p]
          PROVE  /\ log[p][n].session \in IdsOf(RowsOf(p))
                 /\ InSession(log[p][n]) /\ log[p][n].at <= clock'
      BY <1>1, <1>3, <1>6, <3>3 DEF Rows, Past
    <3>. QED  BY <1>2, <3>1, <3>2, <3>3 DEF Past, IdsOf, RowsOf, InSession
  <2>. QED  BY <2>1, <2>2, <2>3, <2>4, <2>5 DEF Rows
<1>. QED  BY <1>2, <1>8, <1>9, <1>10, Created
\* A session once its profile has opened the next.
After(s, p, t) == IF s.profile = p /\ s.closed = Never THEN [s EXCEPT !.closed = t] ELSE s

LEMMA AfterIs ==
    ASSUME NEW s \in SessionRows, NEW p, NEW t \in Instants
    PROVE  /\ After(s, p, t) \in SessionRows
           /\ After(s, p, t).id = s.id /\ After(s, p, t).profile = s.profile
           /\ After(s, p, t).opened = s.opened /\ After(s, p, t).seen = s.seen
           /\ After(s, p, t).closed = (IF s.profile = p /\ s.closed = Never THEN t ELSE s.closed)
           /\ s.profile # p => After(s, p, t) = s
           /\ s.closed # Never => After(s, p, t) = s
BY DEF After, SessionRows

\* What creating a session writes, in the terms of the invariant.
Opening(p, t, row) ==
    /\ row.id = Len(owners) + 1 /\ row.profile = p /\ row.opened = t
    /\ row.closed = Never /\ row.seen = Len(log[p])
    /\ row \in SessionRows
    /\ sessions' = {After(s, p, t) : s \in sessions} \cup {row}
    /\ owners' = Append(owners, p)
    /\ receipts' = receipts \cup {[profile |-> p, session |-> row.id]}
    /\ UNCHANGED <<created, newest>>
    /\ log' \in [Profiles -> Seq(EventRows)]
    /\ \A q \in Profiles : q # p => log'[q] = log[q]
    /\ RowsOf(p) # {} => log' = log
    /\ RowsOf(p) = {} => /\ Len(log'[p]) = 1 /\ log'[p] # <<>>
                         /\ log'[p][1].session = row.id /\ log'[p][1].at = t
    /\ p \in Live /\ t >= created[p]
    /\ \A s \in RowsOf(p) : s.opened < t /\ s.closed <= t

LEMMA SessionOpens ==
    ASSUME Shape, Rows, NEW p \in Profiles, NEW t \in Instants, CreateSession(p, t)
    PROVE  \E row \in SessionRows : Opening(p, t, row)
<1> DEFINE row == [id |-> Len(owners) + 1, profile |-> p, opened |-> t, closed |-> Never,
                   seen |-> Len(log[p])]
           first == <<[session |-> Len(owners) + 1, at |-> t, what |-> "world"]>>
<1>1. /\ Len(owners) < MaxSessions
      /\ \A s \in RowsOf(p) : s.opened # t
      /\ MayOpen(p, t)
      /\ owners' = Append(owners, p)
      /\ sessions' = Closed(p, t) \cup {row}
      /\ receipts' = receipts \cup {[profile |-> p, session |-> Len(owners) + 1]}
      /\ log' = IF RowsOf(p) # {} THEN log ELSE [log EXCEPT ![p] = first]
      /\ UNCHANGED <<created, newest>>
  BY DEF CreateSession
<1>2. Len(owners) \in Nat /\ Len(owners) + 1 \in Sessions
  BY <1>1, BoundsAssumption DEF Shape, Tables, Sessions
<1>3. log[p] \in Seq(EventRows) /\ Len(log[p]) \in 0..MaxEvents /\ log \in [Profiles -> Seq(EventRows)]
  BY BoundsAssumption DEF Shape, Tables
<1>4. row \in SessionRows
  BY <1>2, <1>3 DEF SessionRows
<1>5. first \in Seq(EventRows) /\ Len(first) = 1 /\ first # <<>>
      /\ first[1].session = Len(owners) + 1 /\ first[1].at = t
  BY <1>2 DEF EventRows
<1>6. p \in Live /\ t >= created[p]
  BY <1>1 DEF MayOpen
<1>7. ASSUME NEW s \in RowsOf(p)  PROVE s.opened < t /\ s.closed <= t
  <2>1. s.opened <= t /\ s.closed <= t
    BY <1>1, <1>7 DEF MayOpen, NotBefore
  <2>2. s.opened \in Nat /\ t \in Nat /\ s.opened # t
    BY <1>1, <1>7, RowShape, InstantsAreNat
  <2>. QED  BY <2>1, <2>2
<1>8. sessions' = {After(s, p, t) : s \in sessions} \cup {row}
  BY <1>1 DEF Closed, After
<1>9. /\ row.id = Len(owners) + 1 /\ row.profile = p /\ row.opened = t
      /\ row.closed = Never /\ row.seen = Len(log[p])
  OBVIOUS
<1>. HIDE DEF row, first
<1>10. /\ log' \in [Profiles -> Seq(EventRows)]
       /\ \A q \in Profiles : q # p => log'[q] = log[q]
       /\ RowsOf(p) # {} => log' = log
       /\ RowsOf(p) = {} => log'[p] = first
  BY <1>1, <1>3, <1>5
<1>11. RowsOf(p) = {} => /\ Len(log'[p]) = 1 /\ log'[p] # <<>>
                         /\ log'[p][1].session = row.id /\ log'[p][1].at = t
  BY <1>5, <1>9, <1>10
<1>12. Opening(p, t, row)
  BY <1>1, <1>4, <1>6, <1>7, <1>8, <1>9, <1>10, <1>11 DEF Opening
<1>. QED  BY <1>4, <1>12

\* The rows after it.
LEMMA RowsAfter ==
    ASSUME Shape, Rows, NEW p \in Profiles, NEW t \in Instants, NEW row \in SessionRows,
           Opening(p, t, row)
    PROVE  /\ \A s \in sessions :
                  /\ After(s, p, t) \in SessionRows
                  /\ After(s, p, t).id = s.id /\ After(s, p, t).profile = s.profile
                  /\ After(s, p, t).opened = s.opened /\ After(s, p, t).seen = s.seen
                  /\ After(s, p, t).closed = (IF s.profile = p /\ s.closed = Never THEN t ELSE s.closed)
           /\ \A q : q # p => RowsOf(q)' = RowsOf(q)
           /\ row \in RowsOf(p)'
           /\ \A s \in RowsOf(p) : After(s, p, t) \in RowsOf(p)'
           /\ \A x \in RowsOf(p)' : x = row \/ \E s \in RowsOf(p) : x = After(s, p, t)
           /\ \A x \in sessions' : x = row \/ \E s \in sessions : x = After(s, p, t)
           /\ sessions' \subseteq SessionRows
           /\ \A s \in sessions : s.id \in DOMAIN owners
           /\ row.id \notin DOMAIN owners /\ row.id \in DOMAIN owners' /\ owners'[row.id] = p
           /\ DOMAIN owners \subseteq DOMAIN owners'
           /\ \A i \in DOMAIN owners' : i = row.id \/ (i \in DOMAIN owners /\ owners'[i] = owners[i])
<1>1. \A s \in sessions :
          /\ After(s, p, t) \in SessionRows
          /\ After(s, p, t).id = s.id /\ After(s, p, t).profile = s.profile
          /\ After(s, p, t).opened = s.opened /\ After(s, p, t).seen = s.seen
          /\ After(s, p, t).closed = (IF s.profile = p /\ s.closed = Never THEN t ELSE s.closed)
          /\ s.profile # p => After(s, p, t) = s
  BY AfterIs, RowShape
<1>2. row.profile = p /\ sessions' = {After(s, p, t) : s \in sessions} \cup {row}
  BY DEF Opening
<1>3. ASSUME NEW q, q # p  PROVE RowsOf(q)' = RowsOf(q)
  BY <1>1, <1>2, <1>3 DEF RowsOf
<1>4. /\ row \in RowsOf(p)'
      /\ \A s \in RowsOf(p) : After(s, p, t) \in RowsOf(p)'
      /\ \A x \in RowsOf(p)' : x = row \/ \E s \in RowsOf(p) : x = After(s, p, t)
      /\ \A x \in sessions' : x = row \/ \E s \in sessions : x = After(s, p, t)
  BY <1>1, <1>2 DEF RowsOf
<1>5. sessions' \subseteq SessionRows
  BY <1>1, <1>2
<1>6. owners \in Seq(Profiles) /\ owners' = Append(owners, p) /\ row.id = Len(owners) + 1
  BY DEF Shape, Tables, Opening
<1>7. /\ row.id \notin DOMAIN owners /\ row.id \in DOMAIN owners' /\ owners'[row.id] = p
      /\ DOMAIN owners \subseteq DOMAIN owners'
      /\ \A i \in DOMAIN owners' : i = row.id \/ (i \in DOMAIN owners /\ owners'[i] = owners[i])
  BY <1>6
<1>8. \A s \in sessions : s.id \in DOMAIN owners
  BY DEF Rows, Belongs
<1>. QED  BY <1>1, <1>3, <1>4, <1>5, <1>7, <1>8
\* The profile's rows still agree with each other and with its log.
LEMMA OpeningIsSound ==
    ASSUME Shape, Rows, NEW p \in Profiles, NEW t \in Instants, NEW row \in SessionRows,
           Opening(p, t, row), CreateSession(p, t)
    PROVE  Sound(p)'
<1> DEFINE then(s) == After(s, p, t)
<1>0. /\ p \in Live /\ Sound(p) /\ t \in Nat /\ t # Never /\ created[p] \in Nat
      /\ \A s \in RowsOf(p) : /\ s \in sessions /\ s.opened \in Nat /\ s.closed \in Nat
                              /\ s.seen \in Nat /\ s.opened < t /\ s.closed <= t
                              /\ s.opened # Never
  BY RowShape, InstantsAreNat DEF Rows, Opening
<1>1. /\ \A s \in RowsOf(p) :
             /\ then(s) \in RowsOf(p)'
             /\ then(s).id = s.id /\ then(s).opened = s.opened /\ then(s).seen = s.seen
             /\ then(s).closed = (IF s.closed = Never THEN t ELSE s.closed)
      /\ row \in RowsOf(p)'
      /\ \A x \in RowsOf(p)' : x = row \/ \E s \in RowsOf(p) : x = then(s)
  BY RowsAfter, <1>0 DEF RowsOf
<1>2. /\ row.id = Len(owners) + 1 /\ row.profile = p /\ row.opened = t
      /\ row.closed = Never /\ row.seen = Len(log[p])
      /\ receipts' = receipts \cup {[profile |-> p, session |-> row.id]}
      /\ UNCHANGED <<created, newest>>
      /\ RowsOf(p) # {} => log' = log
      /\ RowsOf(p) = {} => /\ log'[p] # <<>>
                           /\ log'[p][1].session = row.id /\ log'[p][1].at = t
      /\ t >= created[p]
  BY DEF Opening
<1>. HIDE DEF then
<1>3. Receipted(p)'
  <2>1. Receipted(p)
    BY <1>0 DEF Sound
  <2>2. [profile |-> p, session |-> 0] \in receipts'
    BY <2>1, <1>2 DEF Receipted
  <2>3. ASSUME NEW x \in RowsOf(p)'  PROVE [profile |-> p, session |-> x.id] \in receipts'
    BY <2>1, <1>1, <1>2, <2>3 DEF Receipted
  <2>4. ASSUME NEW r \in receipts', r.profile = p
        PROVE  r.session = 0 \/ \E x \in RowsOf(p)' : x.id = r.session
    <3>1. CASE r \in receipts
      BY <2>1, <2>4, <3>1, <1>1 DEF Receipted
    <3>2. CASE r = [profile |-> p, session |-> row.id]
      BY <3>2, <1>1
    <3>. QED  BY <3>1, <3>2, <1>2
  <2>. QED  BY <2>2, <2>3, <2>4 DEF Receipted
<1>4. Followed(p)'
  <2>1. Followed(p)
    BY <1>0 DEF Sound
  <2>2. \A x \in RowsOf(p)' : x.opened \in Nat /\ x.opened <= t /\ (x.opened = t => x = row)
    BY <1>0, <1>1, <1>2
  <2>3. ASSUME NEW x \in RowsOf(p)', NEW y \in RowsOf(p)', x.opened = y.opened
        PROVE  x = y
    BY <2>1, <2>2, <2>3, <1>0, <1>1, <1>2 DEF Followed
  <2>4. ASSUME NEW x \in RowsOf(p)'
        PROVE  \/ x.closed = Never /\ \A r \in RowsOf(p)' : r.opened <= x.opened
               \/ \E r \in RowsOf(p)' :
                     /\ x.opened < r.opened /\ x.closed = r.opened
                     /\ \A q \in RowsOf(p)' : x.opened < q.opened => r.opened <= q.opened
    <3>1. CASE x = row
      BY <3>1, <2>2, <1>2
    <3>2. ASSUME NEW s \in RowsOf(p), x = then(s), s.closed = Never
          PROVE  /\ x.opened < row.opened /\ x.closed = row.opened
                 /\ \A q \in RowsOf(p)' : x.opened < q.opened => row.opened <= q.opened
      <4>1. \A r \in RowsOf(p) : r.opened <= s.opened
        BY <2>1, <3>2, <1>0 DEF Followed
      <4>2. \A q \in RowsOf(p)' : q = row \/ q.opened <= x.opened
        BY <4>1, <3>2, <1>1
      <4>. QED  BY <4>2, <3>2, <2>2, <1>0, <1>1, <1>2
    <3>3. ASSUME NEW s \in RowsOf(p), x = then(s), s.closed # Never
          PROVE  \E r \in RowsOf(p)' :
                     /\ x.opened < r.opened /\ x.closed = r.opened
                     /\ \A q \in RowsOf(p)' : x.opened < q.opened => r.opened <= q.opened
      <4>1. PICK r \in RowsOf(p) :
                /\ s.opened < r.opened /\ s.closed = r.opened
                /\ \A q \in RowsOf(p) : s.opened < q.opened => r.opened <= q.opened
        BY <2>1, <3>3 DEF Followed
      <4>2. then(r) \in RowsOf(p)' /\ then(r).opened = r.opened /\ r.opened \in Nat /\ r.opened < t
        BY <1>0, <1>1
      <4>3. x.opened = s.opened /\ x.closed = s.closed
        BY <3>3, <1>1
      <4>4. \A q \in RowsOf(p)' : x.opened < q.opened => then(r).opened <= q.opened
        BY <4>1, <4>2, <4>3, <1>0, <1>1, <1>2
      <4>. QED  BY <4>1, <4>2, <4>3, <4>4
    <3>. QED  BY <3>1, <3>2, <3>3, <1>1
  <2>. QED  BY <2>3, <2>4 DEF Followed
<1>5. (RowsOf(p) # {} => OpenIn(RowsOf(p)) # {})'
  BY <1>1, <1>2 DEF OpenIn
<1>6. ASSUME NEW x \in RowsOf(p)'  PROVE created'[p] <= x.opened
  BY <1>0, <1>1, <1>2 DEF Sound
<1>7. ASSUME NEW x \in RowsOf(p)'  PROVE Opens(p, x)'
  <2>1. CASE RowsOf(p) = {}
    <3>1. x = row /\ log[p] = <<>>
      BY <1>1, <2>1 DEF Rows, Histories
    <3>2. x.seen = 0
      BY <3>1, <1>2
    <3>. QED  BY <3>1, <3>2, <2>1, <1>2 DEF Opens
  <2>2. CASE RowsOf(p) # {}
    <3>1. /\ log' = log /\ log[p] # <<>> /\ log[p][1].at < t
          /\ Within(p, RowsOf(p), log[p], ClosingAt(RowsOf(p), t))
      BY <2>2, <1>2 DEF CreateSession, MayOpen, Rows, Histories
    <3>2. log[p] \in Seq(EventRows) /\ Len(log[p]) \in Nat /\ Len(log[p]) # 0
          /\ \A n \in DOMAIN log[p] : log[p][n].at \in Nat
      BY <3>1, RowShape
    <3>3. ASSUME NEW n \in DOMAIN log[p]
          PROVE  \E s \in RowsOf(p) :
                     /\ s.id = log[p][n].session /\ s.opened <= log[p][n].at
                     /\ s.closed # Never => log[p][n].at <= s.closed
                     /\ s.closed = Never => log[p][n].at <= t
      <4>1. PICK s \in RowsOf(p) :
                /\ s.id = log[p][n].session
                /\ log[p][n].at >= s.opened
                /\ ClosingAt(RowsOf(p), t)[s] # Never => log[p][n].at <= ClosingAt(RowsOf(p), t)[s]
        BY <3>1, <3>3 DEF Within
      <4>2. ClosingAt(RowsOf(p), t)[s] = IF s.closed = Never THEN t ELSE s.closed
        BY DEF ClosingAt
      <4>3. s.opened <= log[p][n].at
        BY <4>1, <3>2, <3>3, <1>0
      <4>. QED  BY <4>1, <4>2, <4>3, <1>0
    <3>4. ASSUME NEW s \in RowsOf(p), NEW n \in 1..Len(log[p]),
                 s.id = log[p][n].session, s.opened <= log[p][n].at,
                 s.closed # Never => log[p][n].at <= s.closed,
                 s.closed = Never => log[p][n].at <= t
          PROVE  /\ then(s).id = log[p][n].session
                 /\ then(s).opened = s.opened /\ then(s).opened <= log[p][n].at
                 /\ then(s).closed # Never => log[p][n].at <= then(s).closed
      BY <3>4, <1>0, <1>1
    <3>5. CASE x = row
      <4>1. x.seen = Len(log[p]) /\ x.opened = t
        BY <3>5, <1>2
      <4>2. ASSUME NEW n \in 1..x.seen
            PROVE  \E r \in RowsOf(p)' :
                       /\ r.id = log'[p][n].session /\ r.opened < x.opened
                       /\ r.opened <= log'[p][n].at
                       /\ r.closed # Never => log'[p][n].at <= r.closed
        <5>1. n \in DOMAIN log[p]
          BY <4>1, <4>2, <3>2
        <5>2. PICK s \in RowsOf(p) :
                  /\ s.id = log[p][n].session /\ s.opened <= log[p][n].at
                  /\ s.closed # Never => log[p][n].at <= s.closed
                  /\ s.closed = Never => log[p][n].at <= t
          BY <5>1, <3>3
        <5>. QED  BY <5>2, <3>1, <3>4, <4>1, <4>2, <1>0, <1>1
      <4>. QED  BY <4>1, <4>2, <3>1, <3>2 DEF Opens
    <3>6. ASSUME NEW s \in RowsOf(p), x = then(s)  PROVE Opens(p, x)'
      <4>1. Opens(p, s) /\ x.seen = s.seen /\ x.id = s.id /\ x.opened = s.opened
        BY <3>6, <1>0, <1>1 DEF Sound
      <4>2. CASE x.seen = 0
        BY <4>1, <4>2, <3>1 DEF Opens
      <4>3. CASE x.seen # 0
        <5>1. x.seen <= Len(log[p]) /\ log[p][1].at < x.opened
          BY <4>1, <4>3 DEF Opens
        <5>2. ASSUME NEW n \in 1..x.seen
              PROVE  \E r \in RowsOf(p)' :
                         /\ r.id = log[p][n].session /\ r.opened < x.opened
                         /\ r.opened <= log[p][n].at
                         /\ r.closed # Never => log[p][n].at <= r.closed
          <6>1. PICK r \in RowsOf(p) :
                    /\ r.id = log[p][n].session /\ r.opened < s.opened
                    /\ r.opened <= log[p][n].at
                    /\ r.closed # Never => log[p][n].at <= r.closed
            BY <4>1, <4>3, <5>2 DEF Opens
          <6>2. n \in 1..Len(log[p]) /\ n \in DOMAIN log[p]
            BY <5>1, <5>2, <4>1, <3>2, <1>0
          <6>3. r.closed = Never => log[p][n].at <= t
            <7>1. PICK u \in RowsOf(p) :
                      /\ u.id = log[p][n].session
                      /\ u.closed = Never => log[p][n].at <= t
              BY <6>2, <3>3
            <7>2. u = r
              BY <7>1, <6>1, <1>0 DEF Rows, Belongs
            <7>. QED  BY <7>1, <7>2
          <6>4. /\ then(r).id = log[p][n].session
                /\ then(r).opened = r.opened /\ then(r).opened <= log[p][n].at
                /\ then(r).closed # Never => log[p][n].at <= then(r).closed
            BY <6>1, <6>2, <6>3, <3>4
          <6>. QED  BY <6>1, <6>4, <4>1, <1>1
        <5>. QED  BY <4>3, <5>1, <5>2, <3>1 DEF Opens
      <4>. QED  BY <4>2, <4>3
    <3>. QED  BY <3>5, <3>6, <1>1
  <2>. QED  BY <2>1, <2>2
<1>. QED  BY <1>3, <1>4, <1>5, <1>6, <1>7 DEF Sound
LEMMA CreateSessionKeeps ==
    ASSUME IInv, NEW p \in Profiles, NEW t \in Instants, CreateSession(p, t)
    PROVE  IInv'
<1>1. Shape /\ Tables /\ Rows
  BY DEF IInv, Shape
<1>2. PICK row \in SessionRows : Opening(p, t, row)
  BY <1>1, SessionOpens
<1> DEFINE then(s) == After(s, p, t)
<1>3. clock' \in 0..SetBack /\ (clock' # SetBack => clock # SetBack /\ clock <= t /\ clock' = t)
  BY <1>1, ClockMoves DEF CreateSession
<1>4. /\ t \in Nat /\ t # Never /\ clock \in Nat /\ clock' \in Nat
      /\ \A s \in sessions : s.opened \in Nat /\ s.closed \in Nat
      /\ \A q \in Profiles : created[q] \in Nat
      /\ \A q \in Profiles : \A n \in DOMAIN log[q] : log[q][n].at \in Nat
  BY <1>1, <1>3, RowShape, InstantsAreNat
<1>5. /\ \A s \in sessions :
             /\ then(s) \in SessionRows
             /\ then(s).id = s.id /\ then(s).profile = s.profile
             /\ then(s).opened = s.opened /\ then(s).seen = s.seen
             /\ then(s).closed = (IF s.profile = p /\ s.closed = Never THEN t ELSE s.closed)
      /\ \A q : q # p => RowsOf(q)' = RowsOf(q)
      /\ row \in RowsOf(p)'
      /\ \A s \in RowsOf(p) : then(s) \in RowsOf(p)'
      /\ \A x \in RowsOf(p)' : x = row \/ \E s \in RowsOf(p) : x = then(s)
      /\ \A x \in sessions' : x = row \/ \E s \in sessions : x = then(s)
      /\ sessions' \subseteq SessionRows
  BY <1>1, <1>2, RowsAfter
<1>6. /\ \A s \in sessions : s.id \in DOMAIN owners
      /\ row.id \notin DOMAIN owners /\ row.id \in DOMAIN owners' /\ owners'[row.id] = p
      /\ DOMAIN owners \subseteq DOMAIN owners'
      /\ \A i \in DOMAIN owners' : i = row.id \/ (i \in DOMAIN owners /\ owners'[i] = owners[i])
  BY <1>1, <1>2, RowsAfter
<1>7. /\ row.profile = p /\ row.opened = t
      /\ row.closed = Never /\ row.seen = Len(log[p])
      /\ receipts' = receipts \cup {[profile |-> p, session |-> row.id]}
      /\ UNCHANGED <<created, newest>>
      /\ p \in Live /\ t >= created[p]
      /\ log' \in [Profiles -> Seq(EventRows)]
      /\ \A q \in Profiles : q # p => log'[q] = log[q]
      /\ RowsOf(p) # {} => log' = log
      /\ RowsOf(p) = {} => /\ Len(log'[p]) = 1 /\ log'[p] # <<>>
                           /\ log'[p][1].session = row.id /\ log'[p][1].at = t
      /\ \A s \in RowsOf(p) : s.opened < t /\ s.closed <= t
  BY <1>2 DEF Opening
<1>8. sessions' = {then(s) : s \in sessions} \cup {row}
  BY <1>2 DEF Opening
<1>9. \A s \in sessions : then(s) \in sessions'
  BY <1>8
<1>. HIDE DEF then
<1>10. Live' = Live
  BY <1>7 DEF Live
<1>11. Tables'
  <2>1. owners' \in Seq(Profiles) /\ Len(owners') <= MaxSessions
    <3>1. owners \in Seq(Profiles) /\ owners' = Append(owners, p) /\ Len(owners) < MaxSessions
      BY <1>1 DEF Tables, CreateSession
    <3>. QED  BY <3>1, BoundsAssumption
  <2>2. receipts' \subseteq [profile : Profiles, session : Sessions \cup {0}]
    <3>1. row.id \in Sessions
      BY DEF SessionRows
    <3>. QED  BY <3>1, <1>1, <1>7 DEF Tables
  <2>3. \A q \in Profiles : Len(log'[q]) <= MaxEvents
    <3>1. \A q \in Profiles : Len(log[q]) <= MaxEvents
      BY <1>1 DEF Tables
    <3>2. Len(log'[p]) <= MaxEvents
      <4>1. CASE RowsOf(p) = {}
        <5>1. Len(log'[p]) = 1
          BY <4>1, <1>7
        <5>. QED  BY <5>1, BoundsAssumption
      <4>2. CASE RowsOf(p) # {}
        <5>1. log' = log
          BY <4>2, <1>7
        <5>. QED  BY <3>1, <5>1
      <4>. QED  BY <4>1, <4>2
    <3>. QED  BY <3>1, <3>2, <1>7
  <2>. QED  BY <2>1, <2>2, <2>3, <1>1, <1>3, <1>5, <1>7 DEF Tables
<1>12. Onward
  <2>1. ASSUME clock' # SetBack, NEW x \in sessions', x.id \in DOMAIN owners
        PROVE  \E r \in sessions : /\ r.id = x.id /\ r.opened = x.opened
                                   /\ x.closed = r.closed \/ (x.closed \in Nat /\ clock <= x.closed)
    <3>1. PICK r \in sessions : x = then(r)
      BY <2>1, <1>5, <1>6
    <3>. QED  BY <2>1, <3>1, <1>3, <1>4, <1>5
  <2>2. clock' # SetBack => clock # SetBack /\ clock <= clock'
    BY <1>3
  <2>. QED  BY <2>1, <2>2, <1>6 DEF Onward
<1>13. Belongs'
  <2>1. Belongs
    BY <1>1 DEF Rows
  <2>2. ASSUME NEW x \in sessions'
        PROVE  x.id \in DOMAIN owners' /\ owners'[x.id] = x.profile /\ x.profile \in Live'
    <3>1. CASE x = row
      BY <3>1, <1>6, <1>7, <1>10
    <3>2. ASSUME NEW s \in sessions, x = then(s)
          PROVE  x.id \in DOMAIN owners' /\ owners'[x.id] = x.profile /\ x.profile \in Live'
      BY <2>1, <3>2, <1>5, <1>6, <1>10 DEF Belongs
    <3>. QED  BY <3>1, <3>2, <1>5
  <2>3. ASSUME NEW x \in sessions', NEW y \in sessions', x.id = y.id
        PROVE  x = y
    <3>1. CASE x = row \/ y = row
      BY <2>3, <3>1, <1>5, <1>6
    <3>2. CASE x # row /\ y # row
      <4>1. PICK s \in sessions : x = then(s)
        BY <3>2, <1>5
      <4>2. PICK r \in sessions : y = then(r)
        BY <3>2, <1>5
      <4>3. s = r
        BY <2>1, <2>3, <4>1, <4>2, <1>5 DEF Belongs
      <4>. QED  BY <4>1, <4>2, <4>3
    <3>. QED  BY <3>1, <3>2
  <2>4. ASSUME NEW i \in DOMAIN owners', owners'[i] \in Live'
        PROVE  \E x \in sessions' : x.id = i
    <3>1. CASE i = row.id
      BY <3>1, <1>8
    <3>2. CASE i \in DOMAIN owners /\ owners'[i] = owners[i]
      <4>1. PICK s \in sessions : s.id = i
        BY <2>1, <2>4, <3>2, <1>10 DEF Belongs, IdsOf
      <4>. QED  BY <4>1, <1>5, <1>9
    <3>. QED  BY <3>1, <3>2, <1>6
  <2>5. \A i \in DOMAIN owners' : owners'[i] <= newest'
    BY <2>1, <1>6, <1>7 DEF Belongs
  <2>6. (\A q \in Live : q <= newest)' /\ (\A r \in receipts : r.profile \in Live)'
    BY <2>1, <1>7, <1>10 DEF Belongs
  <2>. QED  BY <2>2, <2>3, <2>4, <2>5, <2>6 DEF Belongs, IdsOf
<1>14. \A q \in Profiles : q # p => RowsOf(q)' = RowsOf(q) /\ log'[q] = log[q]
  BY <1>5, <1>7
<1>15. RowsOf(p)' # {} /\ log'[p] # <<>>
  BY <1>1, <1>5, <1>7 DEF Rows, Histories
<1>16. NoOrphans'
  BY <1>1, <1>7, <1>10 DEF Rows, NoOrphans
<1>17. ASSUME NEW q \in Live'  PROVE Sound(q)'
  <2>1. CASE q = p
    BY <2>1, <1>1, <1>2, OpeningIsSound
  <2>2. CASE q # p
    <3>1. q \in Profiles /\ Sound(q) /\ RowsOf(q)' = RowsOf(q) /\ log'[q] = log[q] /\ created' = created
          /\ \A r : r.profile = q => (r \in receipts' <=> r \in receipts)
      BY <1>1, <1>7, <1>10, <1>14, <2>2 DEF Rows, Live
    <3>2. Receipted(q)'
      BY <3>1 DEF Sound, Receipted
    <3>. QED  BY <3>1, <3>2 DEF Sound, Followed, Opens
  <2>. QED  BY <2>1, <2>2
<1>18. Histories'
  <2>1. ASSUME NEW q \in Profiles
        PROVE  /\ RowsOf(q)' = {} <=> log'[q] = <<>>
               /\ log'[q] # <<>> => \E s \in RowsOf(q)' : s.opened = log'[q][1].at
    <3>1. CASE q # p
      BY <3>1, <1>1, <1>14 DEF Rows, Histories
    <3>2. CASE q = p /\ RowsOf(p) = {}
      BY <3>2, <1>5, <1>7, <1>15
    <3>3. CASE q = p /\ RowsOf(p) # {}
      <4>1. PICK s \in RowsOf(p) : s.opened = log[p][1].at
        BY <3>3, <1>1 DEF Rows, Histories
      <4>2. s \in sessions
        BY DEF RowsOf
      <4>. QED  BY <3>3, <4>1, <4>2, <1>5, <1>7, <1>15
    <3>. QED  BY <3>1, <3>2, <3>3
  <2>. QED  BY <2>1 DEF Histories
<1>19. Past'
  <2> SUFFICES ASSUME clock' # SetBack
               PROVE  /\ \A q \in Profiles : created'[q] <= clock'
                      /\ \A x \in sessions' : x.opened <= clock' /\ x.closed <= clock'
                      /\ \A q \in Profiles : \A n \in DOMAIN log'[q] :
                             /\ \E x \in RowsOf(q)' : x.id = log'[q][n].session
                             /\ \A x \in sessions' : x.id = log'[q][n].session =>
                                    /\ x.opened <= log'[q][n].at
                                    /\ x.closed # Never => log'[q][n].at <= x.closed
                             /\ log'[q][n].at <= clock'
    BY DEF Past, InSession, IdsOf
  <2>1. clock # SetBack /\ clock <= t /\ clock' = t /\ Past
    BY <1>1, <1>3 DEF Rows
  <2>2. \A q \in Profiles : created'[q] <= clock'
    BY <2>1, <1>4, <1>7 DEF Past
  <2>3. ASSUME NEW x \in sessions'  PROVE x.opened <= clock' /\ x.closed <= clock'
    <3>1. CASE x = row
      BY <3>1, <2>1, <1>4, <1>7 DEF Never
    <3>2. ASSUME NEW s \in sessions, x = then(s)
          PROVE  x.opened <= clock' /\ x.closed <= clock'
      BY <3>2, <2>1, <1>4, <1>5 DEF Past
    <3>. QED  BY <3>1, <3>2, <1>5
  <2>4. ASSUME NEW q \in Profiles, NEW n \in DOMAIN log'[q]
        PROVE  /\ \E x \in RowsOf(q)' : x.id = log'[q][n].session
               /\ \A x \in sessions' : x.id = log'[q][n].session =>
                      /\ x.opened <= log'[q][n].at
                      /\ x.closed # Never => log'[q][n].at <= x.closed
               /\ log'[q][n].at <= clock'
    <3>1. CASE log'[q] = log[q]
      <4>1. /\ log[q][n].session \in IdsOf(RowsOf(q))
            /\ InSession(log[q][n]) /\ log[q][n].at <= clock /\ log[q][n].at \in Nat
        BY <3>1, <2>1, <2>4, <1>4 DEF Past
      <4>2. PICK s \in RowsOf(q) : s.id = log[q][n].session
        BY <4>1 DEF IdsOf
      <4>3. s \in sessions /\ s.profile = q
        BY DEF RowsOf
      <4>4. \E x \in RowsOf(q)' : x.id = log[q][n].session
        BY <4>2, <4>3, <1>5
      <4>5. ASSUME NEW x \in sessions', x.id = log[q][n].session
            PROVE  /\ x.opened <= log[q][n].at
                   /\ x.closed # Never => log[q][n].at <= x.closed
        <5>1. x.id \in DOMAIN owners
          BY <4>2, <4>3, <4>5, <1>6
        <5>2. PICK r \in sessions : x = then(r)
          BY <5>1, <1>5, <1>6
        <5>3. r.opened <= log[q][n].at /\ (r.closed # Never => log[q][n].at <= r.closed)
          BY <4>1, <4>5, <5>2, <1>5 DEF InSession
        <5>. QED  BY <5>2, <5>3, <4>1, <2>1, <1>4, <1>5
      <4>6. log[q][n].at <= clock'
        BY <4>1, <2>1, <1>4
      <4>. QED  BY <3>1, <4>4, <4>5, <4>6
    <3>2. CASE q = p /\ RowsOf(p) = {}
      <4>1. n = 1 /\ log'[q][n].session = row.id /\ log'[q][n].at = t
        BY <3>2, <2>4, <1>7
      <4>2. ASSUME NEW x \in sessions', x.id = row.id  PROVE x = row
        BY <4>2, <1>5, <1>6
      <4>. QED  BY <3>2, <4>1, <4>2, <2>1, <1>4, <1>5, <1>7
    <3>. QED  BY <3>1, <3>2, <1>7, <1>14
  <2>. QED  BY <2>2, <2>3, <2>4
<1>20. Rows'
  BY <1>13, <1>16, <1>17, <1>18, <1>19 DEF Rows
<1>. QED  BY <1>11, <1>12, <1>20, Created DEF CreateSession
\* One more event of a profile that has some, within the session it names.
LEMMA EventKeeps ==
    ASSUME Shape, Rows, NEW p \in Profiles, NEW e \in EventRows,
           log[p] # <<>>, Len(log[p]) < MaxEvents,
           log' = [log EXCEPT ![p] = Append(@, e)], UNCHANGED <<identity, clock>>,
           clock # SetBack => e.session \in IdsOf(RowsOf(p)) /\ InSession(e) /\ e.at <= clock
    PROVE  Tables' /\ Rows' /\ Onward
<1>1. /\ log[p] \in Seq(EventRows) /\ Len(log[p]) \in Nat /\ Len(log[p]) # 0
      /\ log \in [Profiles -> Seq(EventRows)]
  BY DEF Shape, Tables
<1>2. /\ log' \in [Profiles -> Seq(EventRows)]
      /\ \A q \in Profiles : q # p => log'[q] = log[q]
      /\ Len(log'[p]) = Len(log[p]) + 1 /\ log'[p] # <<>>
      /\ \A n \in 1..Len(log[p]) : log'[p][n] = log[p][n]
      /\ log'[p][Len(log[p]) + 1] = e
      /\ DOMAIN log[p] = 1..Len(log[p]) /\ DOMAIN log'[p] = 1..(Len(log[p]) + 1)
  BY <1>1
<1>3. p \in Live /\ Live' = Live /\ \A q : RowsOf(q)' = RowsOf(q)
  BY <1>1 DEF Rows, NoOrphans, Live, RowsOf, identity
<1>4. Tables'
  <2>1. \A q \in Profiles : Len(log'[q]) <= MaxEvents
    BY <1>1, <1>2, BoundsAssumption DEF Shape, Tables
  <2>. QED  BY <2>1, <1>2 DEF Shape, Tables, identity
<1>5. Belongs' /\ NoOrphans'
  BY <1>2, <1>3 DEF Rows, Belongs, NoOrphans, IdsOf, identity
<1>6. ASSUME NEW q \in Live'  PROVE Sound(q)'
  <2>1. q \in Live /\ q \in Profiles /\ Sound(q)
    BY <1>3 DEF Rows, Live
  <2>2. Receipted(q)' /\ Followed(q)'
    BY <2>1, <1>3 DEF Sound, Receipted, Followed, identity
  <2>3. ASSUME NEW s \in RowsOf(q)  PROVE Opens(q, s)'
    <3>1. Opens(q, s) /\ s.seen \in Nat
      BY <2>1, RowShape DEF Sound
    <3>2. CASE q # p
      BY <3>1, <3>2, <2>1, <1>2, <1>3 DEF Opens
    <3>3. CASE q = p
      <4>1. log'[p][1] = log[p][1]
        BY <1>1, <1>2
      <4>2. CASE s.seen = 0
        BY <3>1, <3>3, <4>1, <4>2, <1>2 DEF Opens
      <4>3. CASE s.seen # 0
        <5>1. s.seen <= Len(log'[p])
          BY <3>1, <3>3, <4>3, <1>1, <1>2 DEF Opens
        <5>2. \A n \in 1..s.seen : log'[p][n] = log[p][n]
          BY <3>1, <3>3, <4>3, <1>1, <1>2 DEF Opens
        <5>. QED  BY <3>1, <3>3, <4>1, <4>3, <5>1, <5>2, <1>3 DEF Opens
      <4>. QED  BY <4>2, <4>3
    <3>. QED  BY <3>2, <3>3
  <2>. QED  BY <2>1, <2>2, <2>3, <1>3 DEF Sound, identity
<1>7. Histories'
  <2>1. log'[p][1] = log[p][1]
    BY <1>1, <1>2
  <2>2. ASSUME NEW q \in Profiles
        PROVE  /\ RowsOf(q) = {} <=> log'[q] = <<>>
               /\ log'[q] # <<>> => \E s \in RowsOf(q) : s.opened = log'[q][1].at
    BY <2>1, <1>2 DEF Rows, Histories
  <2>. QED  BY <2>2, <1>3 DEF Histories
<1>8. Past'
  <2> SUFFICES ASSUME clock # SetBack
               PROVE  /\ \A q \in Profiles : created[q] <= clock
                      /\ \A s \in sessions : s.opened <= clock /\ s.closed <= clock
                      /\ \A q \in Profiles : \A n \in DOMAIN log'[q] :
                             /\ \E s \in RowsOf(q) : s.id = log'[q][n].session
                             /\ \A s \in sessions : s.id = log'[q][n].session =>
                                    /\ s.opened <= log'[q][n].at
                                    /\ s.closed # Never => log'[q][n].at <= s.closed
                             /\ log'[q][n].at <= clock
    BY <1>3 DEF Past, InSession, IdsOf, identity
  <2>1. Past
    BY DEF Rows
  <2>2. ASSUME NEW q \in Profiles, NEW n \in DOMAIN log'[q]
        PROVE  /\ \E s \in RowsOf(q) : s.id = log'[q][n].session
               /\ \A s \in sessions : s.id = log'[q][n].session =>
                      /\ s.opened <= log'[q][n].at
                      /\ s.closed # Never => log'[q][n].at <= s.closed
               /\ log'[q][n].at <= clock
    <3>1. CASE n \in DOMAIN log[q] /\ log'[q][n] = log[q][n]
      BY <3>1, <2>1 DEF Past, InSession, IdsOf
    <3>2. CASE q = p /\ log'[q][n] = e
      BY <3>2 DEF InSession, IdsOf
    <3>3. CASE q = p
      BY <3>1, <3>2, <3>3, <2>2, <1>1, <1>2
    <3>. QED  BY <3>1, <3>3, <2>2, <1>2
  <2>. QED  BY <2>1, <2>2 DEF Past
<1>9. Onward
  <2>1. \A s \in sessions : s.opened \in Nat /\ s.closed \in Nat /\ clock \in Nat
    BY RowShape
  <2>2. clock \in Nat
    BY RowShape
  <2>. QED  BY <2>1, <2>2 DEF Onward, identity
<1>. QED  BY <1>4, <1>5, <1>6, <1>7, <1>8, <1>9 DEF Rows

\* All rows of one profile go.
LEMMA DeletionKeeps ==
    ASSUME Shape, Rows, NEW p \in Live,
           created' = [created EXCEPT ![p] = Never],
           sessions' = sessions \ RowsOf(p),
           receipts' = {r \in receipts : r.profile # p},
           log' = [log EXCEPT ![p] = <<>>], UNCHANGED <<owners, newest, clock>>
    PROVE  Tables' /\ Rows' /\ Onward
<1>0. p \in Profiles
  BY DEF Live
<1>1. /\ log' \in [Profiles -> Seq(EventRows)]
      /\ \A q \in Profiles : q # p => log'[q] = log[q]
      /\ log'[p] = <<>> /\ Len(log'[p]) = 0 /\ DOMAIN log'[p] = {}
  <2>1. <<>> \in Seq(EventRows) /\ Len(<<>>) = 0 /\ DOMAIN <<>> = {}
    OBVIOUS
  <2>. QED  BY <2>1, <1>0 DEF Shape, Tables
<1>2. /\ \A q : q # p => RowsOf(q)' = RowsOf(q)
      /\ RowsOf(p)' = {}
      /\ \A s \in sessions' : s \in sessions /\ s.profile # p
      /\ \A s \in sessions : s.profile # p => s \in sessions'
  BY DEF RowsOf
<1>3. /\ created' \in [Profiles -> Instants \cup {Never}]
      /\ \A q \in Profiles : q # p => created'[q] = created[q]
      /\ created'[p] = Never
      /\ \A q : q \in Live' <=> (q \in Live /\ q # p)
  BY <1>0 DEF Shape, Tables, Live
<1>4. /\ clock \in Nat /\ Never <= clock
      /\ \A s \in sessions : s.opened \in Nat /\ s.closed \in Nat
  BY RowShape, InstantsAreNat
<1>5. Tables'
  BY <1>1, <1>2, <1>3, BoundsAssumption DEF Shape, Tables
<1>6. Belongs'
  <2>1. ASSUME NEW i \in DOMAIN owners, owners[i] \in Live'
        PROVE  \E s \in sessions' : s.id = i
    <3>1. PICK s \in sessions : s.id = i
      BY <2>1, <1>3 DEF Rows, Belongs, IdsOf
    <3>2. s.profile = owners[i]
      BY <3>1 DEF Rows, Belongs
    <3>. QED  BY <2>1, <3>1, <3>2, <1>2, <1>3
  <2>. QED  BY <2>1, <1>2, <1>3 DEF Rows, Belongs, IdsOf
<1>7. NoOrphans'
  BY <1>1, <1>3 DEF Rows, NoOrphans
<1>8. ASSUME NEW q \in Live'  PROVE Sound(q)'
  <2>1. /\ q \in Profiles /\ q # p /\ Sound(q) /\ RowsOf(q)' = RowsOf(q) /\ log'[q] = log[q]
        /\ created'[q] = created[q]
        /\ \A r : r.profile = q => (r \in receipts' <=> r \in receipts)
    BY <1>1, <1>2, <1>3 DEF Rows, Live
  <2>2. Receipted(q)'
    BY <2>1 DEF Sound, Receipted
  <2>. QED  BY <2>1, <2>2 DEF Sound, Followed, Opens
<1>9. Histories'
  BY <1>1, <1>2 DEF Rows, Histories
<1>10. Past'
  <2> SUFFICES ASSUME clock # SetBack
               PROVE  /\ \A q \in Profiles : created'[q] <= clock
                      /\ \A s \in sessions' : s.opened <= clock /\ s.closed <= clock
                      /\ \A q \in Profiles : \A n \in DOMAIN log'[q] :
                             /\ \E s \in RowsOf(q)' : s.id = log'[q][n].session
                             /\ \A s \in sessions' : s.id = log'[q][n].session =>
                                    /\ s.opened <= log'[q][n].at
                                    /\ s.closed # Never => log'[q][n].at <= s.closed
                             /\ log'[q][n].at <= clock
    BY DEF Past, InSession, IdsOf
  <2>1. Past
    BY DEF Rows
  <2>2. \A q \in Profiles : created'[q] <= clock
    BY <2>1, <1>3, <1>4 DEF Past
  <2>3. ASSUME NEW q \in Profiles, NEW n \in DOMAIN log'[q]
        PROVE  /\ \E s \in RowsOf(q)' : s.id = log'[q][n].session
               /\ \A s \in sessions' : s.id = log'[q][n].session =>
                      /\ s.opened <= log'[q][n].at
                      /\ s.closed # Never => log'[q][n].at <= s.closed
               /\ log'[q][n].at <= clock
    <3>1. q # p /\ log'[q] = log[q] /\ RowsOf(q)' = RowsOf(q)
      BY <2>3, <1>1, <1>2
    <3>. QED  BY <3>1, <2>1, <2>3, <1>2 DEF Past, InSession, IdsOf
  <2>. QED  BY <2>1, <2>2, <2>3, <1>2 DEF Past
<1>11. Onward
  BY <1>2, <1>4 DEF Onward
<1>. QED  BY <1>5, <1>6, <1>7, <1>8, <1>9, <1>10, <1>11 DEF Rows
-----------------------------------------------------------------------------
(* The steps of a command.                                                   *)

LEMMA Command ==
    ASSUME IInv, NEW me \in Servers
    PROVE  /\ Shape /\ Tables /\ Rows
           /\ call[me] \in Calls /\ Placed(call[me]) /\ Trusted(call[me], clock)
BY DEF IInv, Shape

LEMMA IdleIs ==
    /\ Idle \in Calls /\ Rests(Idle) /\ Idle.step = 0 /\ ~Idle.alarm
    /\ NoEvent \in Planned /\ NoEvent.ordinal = 0
BY BoundsAssumption DEF Idle, NoEvent, Planned, Calls, Rests, Never

\* On to the next step of a plan.
LEMMA Advanced ==
    ASSUME NEW b \in Calls, b.step \in 1..6, b.step # Len(Plan(b.kind))
    PROVE  /\ Advance(b) \in Calls
           /\ Advance(b).kind = b.kind /\ Advance(b).step = b.step + 1
           /\ Advance(b).session = b.session /\ Advance(b).ids = b.ids
           /\ Advance(b).rows = b.rows /\ Advance(b).event = b.event
           /\ Advance(b).disturbed = b.disturbed /\ Advance(b).alarm = b.alarm
<1>1. Advance(b) = [b EXCEPT !.step = b.step + 1]
  BY DEF Advance
<1>2. b.step + 1 \in 0..7
  OBVIOUS
<1>. QED  BY <1>1, <1>2 DEF Calls

\* A step that ends the command and writes no row the audits read.
LEMMA EndKeeps ==
    ASSUME IInv, NEW me \in Servers, Becomes(me, Idle) \/ Commits(me, Idle),
           UNCHANGED <<identity, log, clock>>
    PROVE  IInv'
<1>1. Idle \in Calls /\ Placed(Idle) /\ Trusted(Idle, clock')
  BY IdleIs DEF Placed, Trusted, Delivers, Reads, Idle, Tasks
<1>. QED  BY <1>1, Still

LEMMA AnsweredKeeps ==
    ASSUME IInv, NEW me \in Servers, NEW code, Becomes(me, Answer(call[me], code)),
           UNCHANGED <<identity, log, clock>>,
           code = "integrity_failure" /\ ~call[me].disturbed => clock = SetBack
    PROVE  IInv'
<1> DEFINE b == code = "integrity_failure" /\ ~call[me].disturbed
           c == Answer(call[me], code)
<1>1. call[me] \in Calls
  BY Command
<1>2. b \in BOOLEAN /\ c = [Idle EXCEPT !.alarm = b]
  BY DEF Answer
<1>3. b => clock = SetBack
  OBVIOUS
<1>. HIDE DEF b
<1>4. c \in Calls /\ c.step = 0 /\ c.kind = "none" /\ c.alarm = b
  BY <1>2, IdleIs DEF Idle, Calls
<1>5. Becomes(me, c) /\ UNCHANGED <<identity, log, clock>>
  OBVIOUS
<1>. HIDE DEF c
<1>6. Placed(c) /\ Trusted(c, clock')
  BY <1>3, <1>4, <1>5 DEF Placed, Trusted, Delivers, Reads
<1>. QED  BY <1>4, <1>5, <1>6, Still

LEMMA RefusedKeeps ==
    ASSUME IInv, NEW me \in Servers, NEW code, Refused(me, code),
           code = "integrity_failure" /\ ~call[me].disturbed => clock = SetBack
    PROVE  IInv'
BY AnsweredKeeps DEF Refused, database

\* A command that begins.
Begun(kind, session) == [Idle EXCEPT !.kind = kind, !.step = 1, !.session = session]

Observing(session, e) ==
    [Idle EXCEPT !.kind = "observe", !.step = 1, !.session = session, !.event = e]

LEMMA BegunIs ==
    ASSUME NEW kind \in Kinds, NEW session \in 0..MaxSessions
    PROVE  /\ Begun(kind, session) \in Calls /\ Begun(kind, session).kind = kind
           /\ Begun(kind, session).step = 1 /\ Begun(kind, session).session = session
           /\ ~Begun(kind, session).alarm
<1> DEFINE c1 == [Idle EXCEPT !.kind = kind]
           c2 == [c1 EXCEPT !.step = 1]
           c3 == [c2 EXCEPT !.session = session]
<1>1. c1 \in Calls /\ c1.kind = kind /\ ~c1.alarm
  BY IdleIs DEF Calls
<1>. HIDE DEF c1
<1>2. c2 \in Calls /\ c2.kind = kind /\ c2.step = 1 /\ ~c2.alarm
  BY <1>1 DEF Calls
<1>. HIDE DEF c2
<1>3. c3 \in Calls /\ c3.kind = kind /\ c3.step = 1 /\ c3.session = session /\ ~c3.alarm
  BY <1>2 DEF Calls
<1>4. Begun(kind, session) = c3
  BY DEF Begun, c1, c2
<1>. QED  BY <1>3, <1>4

LEMMA ObservingIs ==
    ASSUME NEW session \in 0..MaxSessions, NEW e \in Planned
    PROVE  /\ Observing(session, e) \in Calls /\ Observing(session, e).kind = "observe"
           /\ Observing(session, e).step = 1 /\ Observing(session, e).session = session
           /\ Observing(session, e).event = e /\ ~Observing(session, e).alarm
<1> DEFINE c == [Begun("observe", session) EXCEPT !.event = e]
<1>1. "observe" \in Kinds
  BY DEF Kinds
<1>2. /\ Begun("observe", session) \in Calls /\ Begun("observe", session).kind = "observe"
      /\ Begun("observe", session).step = 1 /\ Begun("observe", session).session = session
      /\ ~Begun("observe", session).alarm
  BY <1>1, BegunIs
<1>3. c \in Calls /\ c.kind = "observe" /\ c.step = 1 /\ c.session = session /\ c.event = e /\ ~c.alarm
  BY <1>2 DEF Calls
<1>4. Observing(session, e) = c
  BY DEF Begun, Observing
<1>. QED  BY <1>3, <1>4

LEMMA BeginKeeps ==
    ASSUME IInv, NEW me \in Servers, NEW s \in Sessions, Begin(me, s)
    PROVE  IInv'
<1> DEFINE c == Begun("authenticate", s)
<1>1. s \in DOMAIN owners /\ Becomes(me, c) /\ UNCHANGED <<identity, log, clock>>
  BY DEF Begin, Begun, database
<1>2. s \in 0..MaxSessions /\ "authenticate" \in Kinds
  BY BoundsAssumption DEF Sessions, Kinds
<1>3. c \in Calls /\ c.kind = "authenticate" /\ c.step = 1 /\ c.session = s /\ ~c.alarm
  BY <1>2, BegunIs
<1>. HIDE DEF c
<1>4. Placed(c) /\ Trusted(c, clock')
  BY <1>1, <1>3 DEF Placed, Trusted, Delivers, Reads, Tasks
<1>. QED  BY <1>1, <1>3, <1>4, Still

LEMMA PlansKeeps ==
    ASSUME IInv, NEW me \in Servers, NEW s \in sessions, NEW t \in Instants, Plans(me, s, t)
    PROVE  IInv'
<1> DEFINE e == [ordinal |-> Len(log[s.profile]) + 1, session |-> s.id, at |-> t,
                 what |-> "answer"]
           c == Observing(s.id, e)
<1>1. /\ s.closed = Never /\ Len(log[s.profile]) < MaxEvents /\ ReadClock(t)
      /\ Becomes(me, c)
      /\ UNCHANGED <<identity, log>>
  BY DEF Plans, Observing, database
<1>2. Shape /\ Tables /\ Rows
  BY Command
<1>3. /\ s.id \in Sessions /\ s.profile \in Profiles /\ t \in Nat /\ s.opened \in Nat /\ clock \in Nat
      /\ log[s.profile] \in Seq(EventRows) /\ Len(log[s.profile]) \in Nat
  BY <1>2, RowShape, InstantsAreNat
<1>4. s.id \in DOMAIN owners
  BY <1>2 DEF Rows, Belongs
<1>5. s \in RowsOf(s.profile) /\ log[s.profile] # <<>>
  BY <1>2, <1>3 DEF RowsOf, Rows, Histories
<1>6. Len(log[s.profile]) + 1 >= 2 /\ Len(log[s.profile]) + 1 \in 0..MaxEvents
  BY <1>1, <1>3, <1>5, BoundsAssumption
<1>7. clock' # SetBack => clock # SetBack /\ clock <= t /\ clock' = t
  BY <1>1, <1>2, ClockMoves
<1>8. /\ e \in Planned /\ e.ordinal >= 2 /\ e.session = s.id /\ e.at = t /\ e.what = "answer"
  <2>1. s.id \in 0..MaxSessions /\ t \in 0..MaxInstant
    BY <1>3, BoundsAssumption DEF Sessions, Instants
  <2>. QED  BY <1>6, <2>1 DEF Planned
<1>. HIDE DEF e
<1>9. c \in Calls /\ c.kind = "observe" /\ c.step = 1 /\ c.session = s.id /\ c.event = e /\ ~c.alarm
  <2>1. s.id \in 0..MaxSessions
    BY <1>3, BoundsAssumption DEF Sessions
  <2>. QED  BY <2>1, <1>8, ObservingIs
<1>. HIDE DEF c
<1>10. clock' # SetBack => e.at <= clock' /\ InSession(e)
  <2>1. ASSUME clock' # SetBack, NEW r \in sessions, r.id = s.id
        PROVE  r.opened <= t /\ r.closed = Never
    <3>1. r = s
      BY <2>1, <1>2 DEF Rows, Belongs
    <3>2. s.opened <= clock
      BY <2>1, <1>2, <1>7 DEF Rows, Past
    <3>. QED  BY <2>1, <3>1, <3>2, <1>1, <1>3, <1>7
  <2>. QED  BY <2>1, <1>3, <1>7, <1>8 DEF InSession
<1>11. Placed(c) /\ Trusted(c, clock')
  BY <1>4, <1>8, <1>9, <1>10 DEF Placed, Trusted, Delivers, Reads, Tasks
<1>. QED  BY <1>1, <1>9, <1>11, Still
LEMMA ReadRowKeeps ==
    ASSUME IInv, NEW me \in Servers, ReadRow(me)
    PROVE  IInv'
<1> DEFINE b == call[me]
           c == Advance(b)
<1>1. Shape /\ Rows /\ b \in Calls /\ Placed(b) /\ Trusted(b, clock)
  BY Command
<1>2. b.step = 1 /\ b.kind = "authenticate" /\ b.step # Len(Plan(b.kind)) /\ b.session \in DOMAIN owners
  BY <1>1, Planning DEF ReadRow, At, Busy, Placed
<1>3. /\ c \in Calls /\ c.kind = b.kind /\ c.step = b.step + 1 /\ c.session = b.session
      /\ c.alarm = b.alarm
  <2>1. b.step \in 1..6
    BY <1>2
  <2>. QED  BY ONLY <2>1, <1>1, <1>2, Advanced
<1>4. CASE b.session \in IdsOf(sessions) /\ Goes(me)
  <2>1. Becomes(me, c) /\ UNCHANGED <<identity, log, clock>>
    BY <1>4 DEF Goes, database
  <2>. HIDE DEF c
  <2>2. owners[c.session] \in Live
    BY <1>1, <1>3, <1>4 DEF IdsOf, Rows, Belongs
  <2>3. Placed(c) /\ Trusted(c, clock')
    BY <1>1, <1>2, <1>3, <2>1, <2>2 DEF Placed, Trusted, Delivers, Reads
  <2>. QED  BY <1>3, <2>1, <2>3, Still
<1>5. CASE Refused(me, "session_not_current")
  BY <1>5, RefusedKeeps
<1>. QED  BY <1>4, <1>5 DEF ReadRow

LEMMA ReadCoverageKeeps ==
    ASSUME IInv, NEW me \in Servers, ReadCoverage(me)
    PROVE  IInv'
<1> DEFINE b == call[me]
           p == Owner(me)
           d == [b EXCEPT !.ids = IdsOf(RowsOf(p))]
           c == Advance(d)
<1>1. Shape /\ Rows /\ b \in Calls /\ Placed(b) /\ Trusted(b, clock)
  BY Command
<1>2. /\ b.step \in {2, 5} /\ b.kind = "authenticate" /\ b.step # Len(Plan(b.kind))
      /\ b.session \in DOMAIN owners
  BY <1>1, Planning DEF ReadCoverage, At, Busy, Placed
<1>3. IdsOf(RowsOf(p)) \in SUBSET Sessions
  BY <1>1, RowShape DEF IdsOf
<1>4. /\ d \in Calls /\ d.kind = b.kind /\ d.step = b.step /\ d.session = b.session
      /\ d.alarm = b.alarm /\ d.disturbed = b.disturbed /\ d.ids = IdsOf(RowsOf(p))
  BY <1>1, <1>3 DEF Calls
<1>. HIDE DEF d
<1>5. /\ c \in Calls /\ c.kind = b.kind /\ c.step = b.step + 1 /\ c.session = b.session
      /\ c.alarm = b.alarm /\ c.disturbed = b.disturbed /\ c.ids = IdsOf(RowsOf(p))
  BY <1>2, <1>4, Advanced
<1>6. CASE p \in Live /\ Becomes(me, c) /\ UNCHANGED <<database, clock>>
  <2>1. Becomes(me, c) /\ UNCHANGED <<identity, log, clock>>
    BY <1>6 DEF database
  <2>. HIDE DEF c
  <2>2. Placed(c) /\ Trusted(c, clock')
    BY <1>1, <1>2, <1>5, <1>6, <2>1 DEF Placed, Trusted, Delivers, Reads, Tasks, Owner
  <2>. QED  BY <1>5, <2>1, <2>2, Still
<1>7. CASE (p \notin Live \/ ~NoOrphans) /\ Refused(me, "integrity_failure")
  <2>1. b.disturbed
    BY <1>1, <1>2, <1>7 DEF Rows, Trusted, Reads, Owner
  <2>. QED  BY <1>7, <2>1, RefusedKeeps
<1>8. CASE Refused(me, "session_not_current")
  BY <1>8, RefusedKeeps
<1>. QED  BY <1>6, <1>7, <1>8 DEF ReadCoverage, d

LEMMA ReadTimelineKeeps ==
    ASSUME IInv, NEW me \in Servers, ReadTimeline(me)
    PROVE  IInv'
<1> DEFINE b == call[me]
           p == Owner(me)
           a == [b EXCEPT !.ids = {}]
           d == [a EXCEPT !.rows = RowsOf(p)]
           c == Advance(d)
<1>1. Shape /\ Rows /\ b \in Calls /\ Placed(b) /\ Trusted(b, clock)
  BY Command
<1>2. /\ b.step \in {3, 6} /\ b.kind = "authenticate" /\ b.step # Len(Plan(b.kind))
      /\ b.session \in DOMAIN owners
  BY <1>1, Planning DEF ReadTimeline, At, Busy, Placed
<1>3. RowsOf(p) \in SUBSET SessionRows
  BY <1>1, RowShape
<1>4. /\ a \in Calls /\ a.kind = b.kind /\ a.step = b.step /\ a.session = b.session
      /\ a.alarm = b.alarm /\ a.disturbed = b.disturbed
  BY <1>1 DEF Calls
<1>. HIDE DEF a
<1>5. /\ d \in Calls /\ d.kind = b.kind /\ d.step = b.step /\ d.session = b.session
      /\ d.alarm = b.alarm /\ d.disturbed = b.disturbed /\ d.rows = RowsOf(p)
  BY <1>3, <1>4 DEF Calls
<1>. HIDE DEF d
<1>6. /\ c \in Calls /\ c.kind = b.kind /\ c.step = b.step + 1 /\ c.session = b.session
      /\ c.alarm = b.alarm /\ c.disturbed = b.disturbed /\ c.rows = RowsOf(p)
  BY <1>2, <1>5, Advanced
<1>7. CASE Becomes(me, c) /\ UNCHANGED <<database, clock>>
  <2>1. Becomes(me, c) /\ UNCHANGED <<identity, log, clock>>
    BY <1>7 DEF database
  <2>. HIDE DEF c
  <2>2. Placed(c) /\ Trusted(c, clock')
    BY <1>1, <1>2, <1>6, <2>1 DEF Placed, Trusted, Delivers, Reads, Tasks, Owner
  <2>. QED  BY <1>6, <2>1, <2>2, Still
<1>8. CASE /\ ~(Covered(p, b.ids) /\ Timeline(RowsOf(p)))
           /\ Refused(me, "integrity_failure")
  <2>1. ASSUME ~b.disturbed  PROVE FALSE
    <3>1. p \in Live /\ b.ids = IdsOf(RowsOf(p))
      BY <1>1, <1>2, <2>1 DEF Trusted, Reads, Owner
    <3>. QED  BY <3>1, <1>1, <1>8, SoundIsAudited
  <2>. QED  BY <1>8, <2>1, RefusedKeeps
<1>9. [b EXCEPT !.ids = {}, !.rows = RowsOf(p)] = d
  BY DEF d, a
<1>. QED  BY <1>7, <1>8, <1>9 DEF ReadTimeline

LEMMA AuthenticUndisturbed ==
    ASSUME Shape, Rows, NEW me \in Servers, Placed(call[me]), Trusted(call[me], clock),
           call[me].kind = "authenticate", call[me].step \in {4, 7}, ~Authentic(me)
    PROVE  call[me].disturbed
<1> SUFFICES ASSUME ~call[me].disturbed  PROVE FALSE
  OBVIOUS
<1>1. Owner(me) \in Live /\ call[me].rows = RowsOf(Owner(me))
  BY DEF Trusted, Reads, Owner
<1>. QED  BY <1>1, SoundIsAudited DEF Authentic

LEMMA ReadBindingKeeps ==
    ASSUME IInv, NEW me \in Servers, ReadBinding(me)
    PROVE  IInv'
<1> DEFINE b == call[me]
           d == [b EXCEPT !.rows = {}]
           c == Advance(d)
<1>1. Shape /\ Rows /\ b \in Calls /\ Placed(b) /\ Trusted(b, clock)
  BY Command
<1>2. /\ b.step = 4 /\ b.kind = "authenticate" /\ b.step # Len(Plan(b.kind))
      /\ b.session \in DOMAIN owners
  BY <1>1, Planning DEF ReadBinding, At, Busy, Placed
<1>3. /\ d \in Calls /\ d.kind = b.kind /\ d.step = b.step /\ d.session = b.session
      /\ d.alarm = b.alarm /\ d.disturbed = b.disturbed
  BY <1>1 DEF Calls
<1>. HIDE DEF d
<1>4. /\ c \in Calls /\ c.kind = b.kind /\ c.step = b.step + 1 /\ c.session = b.session
      /\ c.alarm = b.alarm /\ c.disturbed = b.disturbed
  <2>1. d.step \in 1..6 /\ d.step # Len(Plan(d.kind))
    BY <1>2, <1>3
  <2>. QED  BY ONLY <2>1, <1>3, Advanced
<1>5. CASE Becomes(me, c) /\ UNCHANGED <<database, clock>>
  <2>1. Becomes(me, c) /\ UNCHANGED <<identity, log, clock>>
    BY <1>5 DEF database
  <2>. HIDE DEF c
  <2>2. Placed(c) /\ Trusted(c, clock')
    BY <1>1, <1>2, <1>4, <2>1 DEF Placed, Trusted, Delivers, Reads, Tasks
  <2>. QED  BY <1>4, <2>1, <2>2, Still
<1>6. CASE Refused(me, "session_not_current")
  BY <1>6, RefusedKeeps
<1>7. CASE ~Authentic(me) /\ Refused(me, "integrity_failure")
  BY <1>1, <1>2, <1>7, AuthenticUndisturbed, RefusedKeeps
<1>. QED  BY <1>5, <1>6, <1>7 DEF ReadBinding, d

LEMMA ReadCurrentKeeps ==
    ASSUME IInv, NEW me \in Servers, ReadCurrent(me)
    PROVE  IInv'
<1> DEFINE b == call[me]
<1>1. Shape /\ Rows /\ b \in Calls /\ Placed(b) /\ Trusted(b, clock)
  BY Command
<1>2. b.step = 7 /\ b.kind = "authenticate" /\ b.session \in DOMAIN owners
  BY <1>1, Planning DEF ReadCurrent, At, Busy, Placed
<1>3. ASSUME NEW task \in Tasks, Authentic(me), UNCHANGED <<database, clock>>,
             Becomes(me, [b EXCEPT !.kind = task, !.step = 1, !.rows = {}])
      PROVE  IInv'
  <2> DEFINE a == [b EXCEPT !.kind = task]
             d == [a EXCEPT !.step = 1]
             c == [d EXCEPT !.rows = {}]
  <2>1. task \in Kinds \cup {"none"} /\ task # "authenticate" /\ task # "observe" /\ task # "none"
    BY DEF Kinds, Tasks
  <2>2. a \in Calls /\ a.kind = task /\ a.session = b.session /\ a.alarm = b.alarm
    BY <1>1, <2>1 DEF Calls
  <2>. HIDE DEF a
  <2>3. d \in Calls /\ d.kind = task /\ d.step = 1 /\ d.session = b.session /\ d.alarm = b.alarm
    BY <2>2 DEF Calls
  <2>. HIDE DEF d
  <2>4. c \in Calls /\ c.kind = task /\ c.step = 1 /\ c.session = b.session /\ c.alarm = b.alarm
    BY <2>3 DEF Calls
  <2>5. Becomes(me, c) /\ UNCHANGED <<identity, log, clock>>
    BY <1>3 DEF database, a, d
  <2>. HIDE DEF c
  <2>6. owners[b.session] \in Live
    BY <1>3 DEF Authentic, Owner
  <2>7. Placed(c) /\ Trusted(c, clock')
    BY <1>1, <1>2, <2>1, <2>4, <2>5, <2>6 DEF Placed, Trusted, Delivers, Reads, Tasks
  <2>. QED  BY <2>4, <2>5, <2>7, Still
<1>4. CASE Refused(me, "session_not_current")
  BY <1>4, RefusedKeeps
<1>5. CASE ~Authentic(me) /\ Refused(me, "integrity_failure")
  BY <1>1, <1>2, <1>5, AuthenticUndisturbed, RefusedKeeps
<1>. QED  BY <1>3, <1>4, <1>5 DEF ReadCurrent
LEMMA ReadEventsKeeps ==
    ASSUME IInv, NEW me \in Servers, ReadEvents(me)
    PROVE  IInv'
<1>1. call[me].step = Len(Plan(call[me].kind))
  BY Command, Planning DEF ReadEvents, At, Busy
<1>2. CASE Goes(me)
  <2>1. Becomes(me, Idle) /\ UNCHANGED <<identity, log, clock>>
    BY <1>1, <1>2 DEF Goes, Advance, database
  <2>. QED  BY <2>1, EndKeeps
<1>3. CASE Refused(me, "unavailable")
  BY <1>3, RefusedKeeps
<1>. QED  BY <1>2, <1>3 DEF ReadEvents

\* The three kinds of command that write the projection.
LEMMA ReduceKeeps ==
    ASSUME IInv, NEW me \in Servers, Reduce(me)
    PROVE  IInv'
<1> DEFINE b == call[me]
           d == [b EXCEPT !.through = LastOrdinal(Owner(me))]
           c == Advance(d)
<1>1. Shape /\ Tables /\ Rows /\ b \in Calls /\ Placed(b) /\ Trusted(b, clock)
  BY Command
<1>2. /\ b.step # Len(Plan(b.kind)) /\ b.session \in DOMAIN owners
      /\ \/ b.kind \in {"progress", "prepare"} /\ b.step = 1
         \/ b.kind = "observe" /\ b.step = 2
  BY <1>1, Planning DEF Reduce, At, Busy, Placed
<1>3. LastOrdinal(Owner(me)) \in 0..MaxEvents
  <2>1. Owner(me) \in Profiles
    BY <1>1, <1>2 DEF Tables, Owner
  <2>. QED  BY <2>1, <1>1, BoundsAssumption DEF Tables, LastOrdinal
<1>4. /\ d \in Calls /\ d.kind = b.kind /\ d.step = b.step /\ d.session = b.session
      /\ d.alarm = b.alarm /\ d.disturbed = b.disturbed
  BY <1>1, <1>3 DEF Calls
<1>5. Becomes(me, c) /\ UNCHANGED <<identity, log, clock>>
  BY DEF Reduce, database
<1>. HIDE DEF d
<1>6. /\ c \in Calls /\ c.kind = b.kind /\ c.step = b.step + 1 /\ c.session = b.session
      /\ c.alarm = b.alarm /\ c.disturbed = b.disturbed
  <2>1. d.step \in 1..6 /\ d.step # Len(Plan(d.kind))
    BY <1>2, <1>4
  <2>. QED  BY ONLY <2>1, <1>4, Advanced
<1>. HIDE DEF c
<1>7. Placed(c) /\ Trusted(c, clock')
  BY <1>1, <1>2, <1>5, <1>6 DEF Placed, Trusted, Delivers, Reads, Tasks
<1>. QED  BY <1>5, <1>6, <1>7, Still

LEMMA ProjectKeeps ==
    ASSUME IInv, NEW me \in Servers, Project(me)
    PROVE  IInv'
<1> DEFINE b == call[me]
           d == [b EXCEPT !.through = 0]
           c == Advance(d)
<1>1. Shape /\ Tables /\ Rows /\ b \in Calls /\ Placed(b) /\ Trusted(b, clock)
  BY Command
<1>2. /\ b.session \in DOMAIN owners
      /\ \/ /\ b.kind \in {"progress", "prepare"} /\ b.step = 2 /\ b.step # Len(Plan(b.kind))
         \/ b.kind = "observe" /\ b.step = 3 /\ b.step = Len(Plan(b.kind))
  BY <1>1, Planning DEF Project, At, Busy, Placed
<1>3. /\ d \in Calls /\ d.kind = b.kind /\ d.step = b.step /\ d.session = b.session
      /\ d.alarm = b.alarm /\ d.disturbed = b.disturbed
  BY <1>1, BoundsAssumption DEF Calls
<1>4. UNCHANGED <<identity, log, clock>>
  BY DEF Project
<1>5. Becomes(me, Answer(b, "catalog_conflict")) \/ Becomes(me, c)
  BY DEF Project
<1>. HIDE DEF d
<1>6. CASE Becomes(me, Answer(b, "catalog_conflict"))
  BY <1>4, <1>6, AnsweredKeeps
<1>7. CASE Becomes(me, c) /\ b.step = Len(Plan(b.kind))
  <2>1. c = Idle
    BY <1>3, <1>7 DEF Advance
  <2>. QED  BY <1>4, <1>7, <2>1, EndKeeps
<1>8. CASE Becomes(me, c) /\ b.step # Len(Plan(b.kind))
  <2>1. /\ c \in Calls /\ c.kind = b.kind /\ c.step = b.step + 1 /\ c.session = b.session
        /\ c.alarm = b.alarm /\ c.disturbed = b.disturbed
    <3>1. d.step \in 1..6 /\ d.step # Len(Plan(d.kind))
      BY <1>2, <1>3, <1>8
    <3>. QED  BY ONLY <3>1, <1>3, Advanced
  <2>. HIDE DEF c
  <2>2. b.kind \in {"progress", "prepare"} /\ b.step = 2
    BY <1>2, <1>8
  <2>3. Placed(c) /\ Trusted(c, clock')
    BY <1>1, <1>2, <1>4, <2>1, <2>2 DEF Placed, Trusted, Delivers, Reads, Tasks
  <2>. QED  BY <1>4, <1>8, <2>1, <2>3, Still
<1>. QED  BY <1>5, <1>6, <1>7, <1>8

LEMMA StampKeeps ==
    ASSUME IInv, NEW me \in Servers, NEW t \in Instants, Stamp(me, t)
    PROVE  IInv'
<1> DEFINE b == call[me]
           e == [ordinal |-> 0, session |-> b.session, at |-> t, what |-> "outcome"]
           d == [b EXCEPT !.event = e]
           c == Advance(d)
<1>1. Shape /\ Tables /\ Rows /\ b \in Calls /\ Placed(b) /\ Trusted(b, clock)
  BY Command
<1>2. /\ b.step = 3 /\ b.kind = "progress" /\ b.step # Len(Plan(b.kind))
      /\ b.session \in DOMAIN owners
  BY <1>1, Planning DEF Stamp, At, Busy, Placed
<1>3. ReadClock(t) /\ Becomes(me, c) /\ UNCHANGED <<identity, log>>
  BY DEF Stamp, database
<1>4. /\ clock' # SetBack => clock # SetBack /\ clock <= t /\ clock' = t
      /\ t \in Nat /\ clock \in Nat
      /\ \A s \in sessions : s.opened \in Nat
  BY <1>1, <1>3, ClockMoves, RowShape, InstantsAreNat
<1>5. e \in Planned /\ e.session = b.session /\ e.at = t /\ e.what = "outcome"
  <2>1. b.session \in 0..MaxSessions /\ t \in 0..MaxInstant
    BY <1>1, BoundsAssumption DEF Calls, Instants
  <2>. QED  BY <2>1, BoundsAssumption DEF Planned
<1>. HIDE DEF e
<1>6. /\ d \in Calls /\ d.kind = b.kind /\ d.step = b.step /\ d.session = b.session
      /\ d.alarm = b.alarm /\ d.disturbed = b.disturbed /\ d.event = e
  BY <1>1, <1>5 DEF Calls
<1>. HIDE DEF d
<1>7. /\ c \in Calls /\ c.kind = b.kind /\ c.step = b.step + 1 /\ c.session = b.session
      /\ c.alarm = b.alarm /\ c.disturbed = b.disturbed /\ c.event = e
  <2>1. d.step \in 1..6 /\ d.step # Len(Plan(d.kind))
    BY <1>2, <1>6
  <2>. QED  BY ONLY <2>1, <1>6, Advanced
<1>. HIDE DEF c
<1>8. ASSUME clock' # SetBack
      PROVE  /\ t <= clock'
             /\ \A s \in sessions : s.opened <= t
  <2>1. \A s \in sessions : s.opened <= clock
    BY <1>1, <1>4, <1>8 DEF Rows, Past
  <2>. QED  BY <2>1, <1>4, <1>8
<1>9. Delivers(c, clock')
  BY <1>2, <1>5, <1>7, <1>8 DEF Delivers
<1>10. Reads(c)
  BY <1>1, <1>2, <1>7 DEF Trusted, Reads, Tasks
<1>11. c.alarm => clock' = SetBack
  BY <1>1, <1>4, <1>7 DEF Trusted
<1>12. Placed(c) /\ Trusted(c, clock')
  BY <1>2, <1>7, <1>9, <1>10, <1>11 DEF Placed, Trusted
<1>. QED  BY <1>3, <1>7, <1>12, Still
\* An audit that fails was disturbed, or its profile is gone.
LEMMA AuditUndisturbed ==
    ASSUME Shape, Rows, NEW me \in Servers, Trusted(call[me], clock), call[me].step # 0,
           call[me].kind \in Tasks, ~call[me].disturbed
    PROVE  Owner(me) \in Live /\ Audit(Owner(me))
<1>1. Owner(me) \in Live
  BY DEF Trusted, Reads, Owner
<1>. QED  BY <1>1, SoundIsAudited

LEMMA EntryIs ==
    ASSUME NEW e \in Planned, e.session \in Sessions, e.at \in Instants, e.what \in {"answer", "outcome"}
    PROVE  /\ Entry(e) \in EventRows /\ Entry(e).session = e.session /\ Entry(e).at = e.at
BY DEF Entry, EventRows

LEMMA AppendOutcomeKeeps ==
    ASSUME IInv, NEW me \in Servers, AppendOutcome(me)
    PROVE  IInv'
<1> DEFINE b == call[me]
           p == Owner(me)
           e == b.event
<1>1. Shape /\ Tables /\ Rows /\ b \in Calls /\ Placed(b) /\ Trusted(b, clock)
  BY Command
<1>2. /\ b.step = 4 /\ b.kind = "progress" /\ b.step = Len(Plan(b.kind))
      /\ b.session \in DOMAIN owners
  BY <1>1, Planning DEF AppendOutcome, At, Busy, Placed
<1>3. CASE /\ MayAppend(me) /\ Len(log[p]) < MaxEvents
           /\ log' = [log EXCEPT ![p] = Append(@, Entry(e))]
           /\ Commits(me, Advance(b))
           /\ UNCHANGED <<identity, material, clock>>
  <2>1. p \in Live /\ p \in Profiles /\ IdsOf(OpenIn(RowsOf(p))) = {b.session}
    BY <1>3 DEF MayAppend, Current, Audit, Live
  <2>2. PICK s \in OpenIn(RowsOf(p)) : s.id = b.session
    BY <2>1 DEF IdsOf
  <2>3. s \in RowsOf(p) /\ s \in sessions /\ s.closed = Never
    BY <2>2 DEF OpenIn, RowsOf
  <2>4. log[p] # <<>>
    BY <2>1, <2>3, <1>1 DEF Rows, Histories
  <2>5. /\ e.session = b.session /\ e.at \in Instants /\ e.what = "outcome"
        /\ clock # SetBack =>
              /\ e.at <= clock
              /\ \A r \in sessions : r.id = b.session => r.opened <= e.at
    BY <1>1, <1>2 DEF Trusted, Delivers
  <2>6. e \in Planned /\ b.session \in Sessions
    <3>1. s.id \in Sessions
      BY <2>3, <1>1, RowShape
    <3>. QED  BY <3>1, <2>2, <1>1 DEF Calls
  <2>7. Entry(e) \in EventRows /\ Entry(e).session = b.session /\ Entry(e).at = e.at
    BY <2>5, <2>6, EntryIs
  <2>. HIDE DEF e, p
  <2>8. clock # SetBack => /\ Entry(e).session \in IdsOf(RowsOf(p)) /\ InSession(Entry(e))
                           /\ Entry(e).at <= clock
    <3>1. ASSUME NEW r \in sessions, r.id = b.session  PROVE r = s
      BY <3>1, <2>2, <2>3, <1>1 DEF Rows, Belongs
    <3>2. b.session \in IdsOf(RowsOf(p))
      BY <2>2, <2>3 DEF IdsOf
    <3>. QED  BY <3>1, <3>2, <2>3, <2>5, <2>7 DEF InSession
  <2>9. Tables' /\ Rows' /\ Onward
    BY <2>1, <2>4, <2>7, <2>8, <1>1, <1>3, EventKeeps
  <2>10. Commits(me, Idle)
    BY <1>2, <1>3 DEF Advance
  <2>11. Idle \in Calls /\ Placed(Idle) /\ Rests(Idle) /\ ~Idle.alarm
    BY IdleIs DEF Placed
  <2>. QED  BY <2>9, <2>10, <2>11, Changed
<1>4. CASE Refused(me, IF p \in Live /\ ~Audit(p) THEN "integrity_failure"
                       ELSE "session_not_current")
  <2>1. ~(p \in Live /\ ~Audit(p))
    BY <1>1, SoundIsAudited
  <2>2. Refused(me, "session_not_current")
    BY <1>4, <2>1
  <2>. QED  BY <2>2, RefusedKeeps
<1>. QED  BY <1>3, <1>4 DEF AppendOutcome

LEMMA AppendAnswerKeeps ==
    ASSUME IInv, NEW me \in Servers, AppendAnswer(me)
    PROVE  IInv'
<1> DEFINE b == call[me]
           p == Owner(me)
           e == b.event
           d == [b EXCEPT !.event = NoEvent]
           c == Advance(d)
<1>1. Shape /\ Tables /\ Rows /\ b \in Calls /\ Placed(b) /\ Trusted(b, clock)
  BY Command
<1>2. /\ b.step = 1 /\ b.kind = "observe" /\ b.step # Len(Plan(b.kind))
      /\ b.session \in DOMAIN owners
  BY <1>1, Planning DEF AppendAnswer, At, Busy, Placed
<1>3. /\ d \in Calls /\ d.kind = b.kind /\ d.step = b.step /\ d.session = b.session
      /\ d.alarm = b.alarm /\ d.disturbed = b.disturbed
  BY <1>1, IdleIs DEF Calls
<1>. HIDE DEF d
<1>4. /\ c \in Calls /\ c.kind = b.kind /\ c.step = b.step + 1 /\ c.session = b.session
      /\ c.alarm = b.alarm /\ c.disturbed = b.disturbed
  <2>1. d.step \in 1..6 /\ d.step # Len(Plan(d.kind))
    BY <1>2, <1>3
  <2>. QED  BY ONLY <2>1, <1>3, Advanced
<1>. HIDE DEF c
<1>5. p \in Profiles /\ b.session \in Sessions
  <2>1. owners \in Seq(Profiles) /\ Len(owners) <= MaxSessions /\ b.session \in 1..Len(owners)
    BY <1>1, <1>2 DEF Tables
  <2>2. b.session \in Sessions
    BY <2>1, BoundsAssumption DEF Sessions
  <2>. QED  BY <2>1, <2>2 DEF Owner
<1>6. /\ e.ordinal >= 2 /\ e.session = b.session /\ e.at \in Instants /\ e.what = "answer"
      /\ clock # SetBack => e.at <= clock /\ InSession(e)
  BY <1>1, <1>2 DEF Trusted, Delivers
<1>7. CASE Becomes(me, c) /\ UNCHANGED <<database, clock>>
  <2>1. UNCHANGED <<identity, log, clock>>
    BY <1>7 DEF database
  <2>2. Placed(c) /\ Trusted(c, clock')
    BY <1>1, <1>2, <1>4, <2>1 DEF Placed, Trusted, Delivers, Reads, Tasks
  <2>. QED  BY <1>4, <1>7, <2>1, <2>2, Still
<1>8. CASE /\ IsNext(p, e) /\ log' = [log EXCEPT ![p] = Append(@, Entry(e))]
           /\ Commits(me, c) /\ UNCHANGED <<identity, projection, material, clock>>
  <2>1. e \in Planned /\ e.ordinal \in 0..MaxEvents
    BY <1>1 DEF Calls, Planned
  <2>2. log[p] \in Seq(EventRows) /\ Len(log[p]) \in Nat
    BY <1>1, <1>5, RowShape
  <2>3. log[p] # <<>> /\ Len(log[p]) < MaxEvents
    BY <1>6, <1>8, <2>1, <2>2, BoundsAssumption DEF IsNext
  <2>4. p \in Live
    BY <2>3, <1>1, <1>5 DEF Rows, NoOrphans
  <2>5. Entry(e) \in EventRows /\ Entry(e).session = b.session /\ Entry(e).at = e.at
    BY <2>1, <1>5, <1>6, EntryIs
  <2>. HIDE DEF e
  <2>6. b.session \in IdsOf(RowsOf(p))
    <3>1. PICK s \in sessions : s.id = b.session
      BY <2>4, <1>1, <1>2 DEF Rows, Belongs, IdsOf, Owner
    <3>2. s.profile = p
      BY <3>1, <1>1 DEF Rows, Belongs, Owner
    <3>. QED  BY <3>1, <3>2 DEF IdsOf, RowsOf
  <2>. HIDE DEF p
  <2>7. clock # SetBack => /\ Entry(e).session \in IdsOf(RowsOf(p)) /\ InSession(Entry(e))
                           /\ Entry(e).at <= clock
    BY <2>5, <2>6, <1>6 DEF InSession
  <2>8. Tables' /\ Rows' /\ Onward
    BY <2>3, <2>5, <2>7, <1>1, <1>5, <1>8, EventKeeps
  <2>9. Placed(c)
    BY <1>2, <1>4 DEF Placed
  <2>10. Rests(c) /\ (c.alarm => clock' = SetBack)
    BY <1>1, <1>2, <1>4, <1>8 DEF Rests, Trusted
  <2>. QED  BY <2>8, <2>9, <2>10, <1>4, <1>8, Changed
<1>9. CASE Refused(me, "event_order")
  BY <1>9, RefusedKeeps
<1>. QED  BY <1>7, <1>8, <1>9 DEF AppendAnswer, d, c
LEMMA StorePreparedKeeps ==
    ASSUME IInv, NEW me \in Servers, StorePrepared(me)
    PROVE  IInv'
<1>1. call[me].step = Len(Plan(call[me].kind))
  BY Command, Planning DEF StorePrepared, At, Busy
<1>2. Commits(me, Idle) /\ UNCHANGED <<identity, log, clock>>
  BY <1>1 DEF StorePrepared, Advance
<1>. QED  BY <1>2, EndKeeps

LEMMA ExportKeeps ==
    ASSUME IInv, NEW me \in Servers, Export(me)
    PROVE  IInv'
<1>1. Shape /\ Rows /\ Trusted(call[me], clock)
  BY Command
<1>2. /\ call[me].step = Len(Plan(call[me].kind)) /\ call[me].step # 0
      /\ call[me].kind \in Tasks
  BY Command, Planning DEF Export, At, Busy, Tasks
<1>3. CASE Goes(me)
  <2>1. Becomes(me, Idle) /\ UNCHANGED <<identity, log, clock>>
    BY <1>2, <1>3 DEF Goes, Advance, database
  <2>. QED  BY <2>1, EndKeeps
<1>4. CASE Refused(me, "session_not_current")
  BY <1>4, RefusedKeeps
<1>5. CASE /\ ~Audit(Owner(me)) \/ ~ExportHolds(Owner(me))
           /\ Refused(me, "integrity_failure")
  <2>1. ASSUME ~call[me].disturbed  PROVE clock = SetBack
    BY <2>1, <1>1, <1>2, <1>5, AuditUndisturbed, HistoryIsExported
  <2>. QED  BY <1>5, <2>1, RefusedKeeps
<1>. QED  BY <1>3, <1>4, <1>5 DEF Export

LEMMA DeleteProfileKeeps ==
    ASSUME IInv, NEW me \in Servers, DeleteProfile(me)
    PROVE  IInv'
<1> DEFINE p == Owner(me)
<1>1. Shape /\ Rows /\ Trusted(call[me], clock)
  BY Command
<1>2. /\ call[me].step = Len(Plan(call[me].kind)) /\ call[me].step # 0
      /\ call[me].kind \in Tasks
  BY Command, Planning DEF DeleteProfile, At, Busy, Tasks
<1>3. CASE /\ Audit(p)
           /\ created' = [created EXCEPT ![p] = Never]
           /\ sessions' = sessions \ RowsOf(p)
           /\ receipts' = {r \in receipts : r.profile # p}
           /\ log' = [log EXCEPT ![p] = <<>>]
           /\ Commits(me, Advance(call[me]))
           /\ UNCHANGED <<owners, newest, clock>>
  <2>1. p \in Live
    BY <1>3 DEF Audit
  <2>. HIDE DEF p
  <2>2. Tables' /\ Rows' /\ Onward
    BY <2>1, <1>1, <1>3, DeletionKeeps
  <2>3. Commits(me, Idle)
    BY <1>2, <1>3 DEF Advance
  <2>4. Idle \in Calls /\ Placed(Idle) /\ Rests(Idle) /\ ~Idle.alarm
    BY IdleIs DEF Placed
  <2>. QED  BY <2>2, <2>3, <2>4, Changed
<1>4. CASE Refused(me, "session_not_current")
  BY <1>4, RefusedKeeps
<1>5. CASE ~Audit(p) /\ Refused(me, "integrity_failure")
  BY <1>1, <1>2, <1>5, AuditUndisturbed, RefusedKeeps
<1>. QED  BY <1>3, <1>4, <1>5 DEF DeleteProfile

LEMMA StorageBusyKeeps ==
    ASSUME IInv, NEW me \in Servers, StorageBusy(me)
    PROVE  IInv'
<1>1. Refused(me, "storage_busy")
  BY DEF StorageBusy
<1>. QED  BY <1>1, RefusedKeeps

LEMMA AbandonKeeps ==
    ASSUME IInv, NEW me \in Servers, Abandon(me)
    PROVE  IInv'
<1>1. Becomes(me, Idle) /\ UNCHANGED <<identity, log, clock>>
  BY DEF Abandon, database
<1>. QED  BY <1>1, EndKeeps

-----------------------------------------------------------------------------
(* The theorems.                                                             *)

LEMMA InitHolds == Init => IInv
<1> SUFFICES ASSUME Init PROVE IInv
  OBVIOUS
<1>1. /\ created = [p \in Profiles |-> Never]
      /\ sessions = {} /\ receipts = {} /\ material = {}
      /\ log = [p \in Profiles |-> <<>>]
      /\ owners = <<>> /\ newest = 0 /\ clock = Never
      /\ call = [q \in Servers |-> Idle]
  BY DEF Init
<1>2. <<>> \in Seq(EventRows) /\ Len(<<>>) = 0 /\ <<>> \in Seq(Profiles) /\ DOMAIN <<>> = {}
  OBVIOUS
<1>3. Tables
  <2>1. Never \in 0..SetBack /\ 0 \in 0..MaxProfiles /\ 0 <= MaxEvents /\ 0 <= MaxSessions
    BY BoundsAssumption DEF Never, SetBack
  <2>. QED  BY <1>1, <1>2, <2>1 DEF Tables
<1>4. Shape /\ \A q \in Servers : Trusted(call[q], clock)
  <2>1. Placed(Idle) /\ Trusted(Idle, clock)
    BY IdleIs DEF Placed, Trusted, Delivers, Reads, Idle, Tasks
  <2>. QED  BY <1>1, <1>3, <2>1, IdleIs DEF Shape
<1>5. Live = {} /\ \A p : RowsOf(p) = {}
  BY <1>1 DEF Live, RowsOf
<1>6. Rows
  <2>1. Belongs
    BY <1>1, <1>2, <1>5 DEF Belongs
  <2>2. NoOrphans /\ Histories
    BY <1>1, <1>5 DEF NoOrphans, Histories
  <2>3. Past
    BY <1>1, <1>2 DEF Past, Never
  <2>. QED  BY <1>5, <2>1, <2>2, <2>3 DEF Rows
<1>. QED  BY <1>4, <1>6 DEF IInv

LEMMA StutterKeeps ==
    ASSUME IInv, UNCHANGED vars
    PROVE  IInv'
<1>1. Shape /\ Tables /\ Rows /\ \A q \in Servers : Trusted(call[q], clock)
  BY DEF IInv, Shape
<1>2. UNCHANGED <<identity, log, clock, call>>
  BY DEF vars, database
<1>3. Tables'
  BY <1>1, <1>2 DEF Tables, identity
<1>4. ASSUME NEW q \in Servers  PROVE Placed(call[q])' /\ Trusted(call[q], clock)'
  <2>1. Placed(call[q]) /\ Trusted(call[q], clock)
    BY <1>1 DEF Shape
  <2>2. Placed(call[q])'
    BY <2>1, <1>2 DEF Placed, identity
  <2>3. Trusted(call[q], clock)'
    BY <2>1, <1>2 DEF Trusted, Delivers, Reads, InSession, RowsOf, Live, identity
  <2>. QED  BY <2>2, <2>3
<1>5. Shape'
  BY <1>1, <1>2, <1>3, <1>4 DEF Shape
<1>6. Belongs' /\ NoOrphans' /\ Histories' /\ (\A p \in Live : Sound(p))'
  <2>1. UNCHANGED <<created, sessions, receipts, log, owners, newest>>
    BY <1>2 DEF identity
  <2>2. Live' = Live /\ \A p : RowsOf(p)' = RowsOf(p)
    BY <2>1 DEF Live, RowsOf
  <2>3. Belongs'
    BY <1>1, <2>1, <2>2 DEF Rows, Belongs, IdsOf
  <2>4. NoOrphans' /\ Histories'
    BY <1>1, <2>1, <2>2 DEF Rows, NoOrphans, Histories
  <2>5. ASSUME NEW p \in Live'  PROVE Sound(p)'
    <3>1. Sound(p) /\ RowsOf(p)' = RowsOf(p)
      BY <1>1, <2>2 DEF Rows
    <3>2. Receipted(p)' /\ Followed(p)'
      BY <2>1, <3>1 DEF Sound, Receipted, Followed
    <3>3. \A s \in RowsOf(p) : Opens(p, s)'
      BY <2>1, <3>1 DEF Sound, Opens
    <3>. QED  BY <2>1, <3>1, <3>2, <3>3 DEF Sound, OpenIn
  <2>. QED  BY <2>3, <2>4, <2>5
<1>7. Past'
  BY <1>1, <1>2 DEF Rows, Past, InSession, RowsOf, IdsOf, identity
<1>. QED  BY <1>4, <1>5, <1>6, <1>7 DEF IInv, Rows

LEMMA RunsKeep ==
    ASSUME IInv, NEW me \in Servers, Runs(me)
    PROVE  IInv'
<1>1. ASSUME NEW s \in Sessions, Begin(me, s)  PROVE IInv'
  BY <1>1, BeginKeeps
<1>2. ASSUME NEW s \in sessions, NEW t \in Instants, Plans(me, s, t)  PROVE IInv'
  BY <1>2, PlansKeeps
<1>3. CASE ReadRow(me)
  BY <1>3, ReadRowKeeps
<1>4. CASE ReadCoverage(me)
  BY <1>4, ReadCoverageKeeps
<1>5. CASE ReadTimeline(me)
  BY <1>5, ReadTimelineKeeps
<1>6. CASE ReadBinding(me)
  BY <1>6, ReadBindingKeeps
<1>7. CASE ReadCurrent(me)
  BY <1>7, ReadCurrentKeeps
<1>8. CASE ReadEvents(me)
  BY <1>8, ReadEventsKeeps
<1>9. CASE Reduce(me)
  BY <1>9, ReduceKeeps
<1>10. CASE Project(me)
  BY <1>10, ProjectKeeps
<1>11. ASSUME NEW t \in Instants, Stamp(me, t)  PROVE IInv'
  BY <1>11, StampKeeps
<1>12. CASE AppendOutcome(me)
  BY <1>12, AppendOutcomeKeeps
<1>13. CASE AppendAnswer(me)
  BY <1>13, AppendAnswerKeeps
<1>14. CASE StorePrepared(me)
  BY <1>14, StorePreparedKeeps
<1>15. CASE Export(me)
  BY <1>15, ExportKeeps
<1>16. CASE DeleteProfile(me)
  BY <1>16, DeleteProfileKeeps
<1>17. CASE StorageBusy(me)
  BY <1>17, StorageBusyKeeps
<1>18. CASE Abandon(me)
  BY <1>18, AbandonKeeps
<1>. QED  BY <1>1, <1>2, <1>3, <1>4, <1>5, <1>6, <1>7, <1>8, <1>9, <1>10, <1>11, <1>12, <1>13,
              <1>14, <1>15, <1>16, <1>17, <1>18 DEF Runs

\* Sessions follow each other without a gap, events lie in the session that was
\* open, and a command knows what it read unless something was committed beside
\* it: whatever processes interleave, the clock does, or is deleted.
THEOREM RowsAgree == Spec => []IInv
<1>1. Init => IInv
  BY InitHolds
<1>2. IInv /\ [Next]_vars => IInv'
  <2> SUFFICES ASSUME IInv, [Next]_vars  PROVE IInv'
    OBVIOUS
  <2>1. ASSUME NEW t \in Instants, CreateProfile(t)  PROVE IInv'
    BY <2>1, CreateProfileKeeps
  <2>2. ASSUME NEW p \in Profiles, NEW t \in Instants, CreateSession(p, t)  PROVE IInv'
    BY <2>2, CreateSessionKeeps
  <2>3. ASSUME NEW me \in Servers, Runs(me)  PROVE IInv'
    BY <2>3, RunsKeep
  <2>4. CASE UNCHANGED vars
    BY <2>4, StutterKeeps
  <2>. QED  BY <2>1, <2>2, <2>3, <2>4 DEF Next
<1>. QED  BY <1>1, <1>2, PTL DEF Spec

\* No interleaving of commands of any number of processes leaves rows that the
\* audit of load_session and load_open_session would refuse.
THEOREM AuditsPass == Spec => []AuditsHold
<1>1. IInv => AuditsHold
  BY SoundIsAudited DEF IInv, Rows, AuditsHold
<1>. QED  BY <1>1, RowsAgree, PTL

\* Until the clock goes back, create_session finds the history in order and
\* opens the next session.
THEOREM SessionsFollow == Spec => []NextSessionOpens
<1>1. IInv => NextSessionOpens
  BY NothingInTheWay DEF IInv, NextSessionOpens
<1>. QED  BY <1>1, RowsAgree, PTL

\* A command that calls the learner's data corrupt was disturbed by a commit, or
\* the clock went back: the SELECTs of an authentication disagree for no other
\* reason.
THEOREM AlarmsHaveACause == Spec => []FailureMeansChange
<1>1. IInv => FailureMeansChange
  BY DEF IInv, Trusted, FailureMeansChange
<1>. QED  BY <1>1, RowsAgree, PTL
=============================================================================
