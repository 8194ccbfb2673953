------------------------------ MODULE Evidence ------------------------------
(***************************************************************************)
(* What the server derives from a learner's event log: the reducer         *)
(* app/evidence_reducer.py, the gates app/boss_gate.py, and the slot       *)
(* planner app/adaptive_planner.py.  Every operator takes the log (or a    *)
(* prefix of it); an event's ordinal is its position.                      *)
(*                                                                         *)
(* A world is its sequence number, a skill the pair <<world, number>>, and *)
(* a battle its sequence number in its world.  Abstractions: every item is *)
(* a fresh question with a template of its own, every fragile-skill        *)
(* transfer is set in a fresh context, a wrong option belongs to one of    *)
(* two procedures of its skill, only the mark "guess" carries the          *)
(* confidence "guessing", and all evidence is of one session (so a skill   *)
(* never reaches "mastery").                                               *)
(***************************************************************************)
EXTENDS Naturals, Sequences, SequencesExt

CONSTANTS
    NumWorlds,      \* worlds of the campaign; the last ends in the finale
    CoreSkills,     \* core subskills of each world
    LeadInItems,    \* items of each lead-in battle, in order
    BossItems, FinaleItems,         \* items of a boss battle
    BossPass, FinalePass,           \* its final-pass threshold
    TrialItems, TrialPass,          \* the same of a Seal Trial
    RequiredItems,                  \* the boss gate: valid items,
    Window, WindowCorrect           \* and how many of the latest are right

Worlds == 1..NumWorlds

ASSUME CampaignAssumption ==
    /\ NumWorlds \in Nat \ {0}
    /\ CoreSkills \in [Worlds -> Nat \ {0}]
    /\ LeadInItems \in Seq(Nat \ {0})
    /\ {BossItems, FinaleItems, TrialItems} \subseteq Nat \ {0}
    /\ {BossPass, FinalePass, TrialPass, RequiredItems} \subseteq Nat
    /\ {Window, WindowCorrect} \subseteq Nat

Skills == {<<w, k>> : w \in Worlds, k \in 1..Max({CoreSkills[v] : v \in Worlds})}

Core(w) == [k \in 1..CoreSkills[w] |-> <<w, k>>]

Boss == Len(LeadInItems) + 1

ItemCount(w, b) ==
    IF b < Boss THEN LeadInItems[b]
    ELSE IF w = NumWorlds THEN FinaleItems ELSE BossItems

PassMark(w) == IF w = NumWorlds THEN FinalePass ELSE BossPass

-----------------------------------------------------------------------------
(* Marks: how one item was answered on its two passes.                      *)

\* "spoiled" was right first and wrong finally, "switched" wrong twice with
\* options of different procedures.
Marks == {"right", "guess", "corrected", "spoiled", "wrong", "switched"}

FirstCorrect(m) == m \in {"right", "guess", "spoiled"}

FinalCorrect(m) == m \in {"right", "guess", "corrected"}

\* The procedures whose options were chosen on either pass.
Shown(o) ==
    CASE o.mark \in {"corrected", "spoiled", "wrong"} -> {<<o.skill, "a">>}
      [] o.mark = "switched" -> {<<o.skill, "a">>, <<o.skill, "b">>}
      [] OTHER -> {}

Procedures == Skills \X {"a", "b"}

-----------------------------------------------------------------------------
(* The reduced state.                                                       *)

Positions(L, type) == {n \in DOMAIN L : L[n].type = type}

Observed(L) == Positions(L, "observation")

\* The positions of the observations of a skill.
Of(L, s) == {n \in Observed(L) : L[n].skill = s}

ActiveWorld(L) == L[Max(Positions(L, "activation"))].world

\* sorted(): the elements of S in the order given by Before, a strict total one.
Sorted(S, Before(_, _)) ==
    [k \in 1..Cardinality(S) |->
        CHOOSE x \in S : Cardinality({y \in S : Before(y, x)}) = k - 1]

\* _ordered_unique: what the positions I tell, without repetitions, in the
\* order of the first positions that tell it.
OrderedUnique(I, Told(_)) ==
    LET at == Sorted({n \in I : \A m \in I : Told(m) = Told(n) => n <= m}, <)
    IN [k \in DOMAIN at |-> Told(at[k])]

\* Victories in lead-in battles of w.
Won(L, w) == {n \in DOMAIN L : \/ L[n].type = "completion" /\ L[n].world = w
                               \/ L[n].type = "revived" /\ L[n].world = w /\ L[n].won}

\* The lead-in battles of w won, in the order they were first won.
Wins(L, w) ==
    LET Battle(n) == L[n].battle
    IN OrderedUnique(Won(L, w), Battle)

\* Observations of the mathematics of w (all are valid).
WorldItems(L, w) == {n \in Observed(L) : L[n].world = w}

Errors(L, p) == {n \in Observed(L) : p \in Shown(L[n])}

Kept(L, p) == {n \in Errors(L, p) : L[n].mark = "wrong"}

\* (mutant) The review of earlier worlds is not marked as transfer.
ProbeKinds == {"active_misconception_probe", "misconception_discrimination",
               "fragile_skill_transfer"}

\* Slots whose observations count as transfer.
TransferKinds == {"active_misconception_probe", "misconception_discrimination",
                  "fragile_skill_transfer", "spaced_prior_world_transfer"}

\* Later right answers to slots that targeted the procedure.
Repairs(L, p) == {n \in Observed(L) : /\ \A e \in Errors(L, p) : n > e
                                      /\ FirstCorrect(L[n].mark)
                                      /\ L[n].kind \in TransferKinds
                                      /\ p \in L[n].targets}

Resolved(L, p) == /\ Cardinality(Repairs(L, p)) >= 3
                  /\ Cardinality({L[n].batch : n \in Repairs(L, p)}) >= 2

\* Two templates, one of them answered with confidence.
ActiveProcedures(L) ==
    {p \in Procedures : Cardinality(Errors(L, p)) >= 2 /\ ~Resolved(L, p)}

Priority(L, p) ==
    12 * Cardinality(Errors(L, p)) + 5 * Cardinality(Kept(L, p)) + 5

FragileMarks == {"guess", "corrected", "spoiled"}

\* Fragile evidence that no three later right answers, one of them in a
\* changed context, have made secure.
Fragile(L, s) ==
    LET fragile == {n \in Of(L, s) : L[n].mark \in FragileMarks}
        since == {n \in Of(L, s) : n > Max(fragile) /\ L[n].mark = "right"}
        secure == /\ Cardinality(since) >= 3
                  /\ \E n \in since : L[n].kind = "fragile_skill_transfer"
    IN fragile # {} /\ ~secure

-----------------------------------------------------------------------------
(* app/boss_gate.py                                                         *)

CountIf(S, Test(_)) == Cardinality({i \in DOMAIN S : Test(S[i])})

\* The last items of w, a window of them.
Latest(L, w) ==
    LET items == WorldItems(L, w)
    IN {n \in items : Cardinality({m \in items : m > n}) < Window}

RightAtFirst(L, I) == {n \in I : FirstCorrect(L[n].mark)}

\* A core skill met twice and once answered right at first.
ReadySkill(L, s) == /\ Cardinality(Of(L, s)) >= 2
                    /\ RightAtFirst(L, Of(L, s)) # {}

LatestRight(L, w) ==
    /\ Cardinality(Latest(L, w)) >= Window
    /\ Cardinality(RightAtFirst(L, Latest(L, w))) >= WindowCorrect

GateOpen(L, w) == /\ Len(Wins(L, w)) >= Len(LeadInItems)
                  /\ Cardinality(WorldItems(L, w)) >= RequiredItems
                  /\ LatestRight(L, w)
                  /\ \A s \in ToSet(Core(w)) : ReadySkill(L, s)

BossEvents(L, w) == {n \in Positions(L, "boss") : L[n].world = w}

\* Seal Trials taken since the boss fell.
Trials(L, w) ==
    LET boss == BossEvents(L, w)
    IN {n \in Positions(L, "seal") : L[n].world = w /\ \A b \in boss : n > b}

Missed(L, w) == Cardinality({n \in Trials(L, w) : ~L[n].passed})

\* The assisted route completed since the boss fell.
Assisted(L, w) == \E n \in Positions(L, "assisted") :
                      /\ L[n].world = w
                      /\ \A b \in BossEvents(L, w) : n > b

Cleared(L, w) ==
    LET boss == BossEvents(L, w) IN
    /\ boss # {}
    /\ \/ L[Max(boss)].score >= PassMark(w)
       \/ \E n \in Trials(L, w) : L[n].passed
       \/ Assisted(L, w)

\* (mutant) A trial is offered once.
TrialRequiredOnce(L, w) ==
    BossEvents(L, w) # {} /\ ~Cleared(L, w) /\ Trials(L, w) = {}

TrialRequired(L, w) == BossEvents(L, w) # {} /\ ~Cleared(L, w)

RouteUnlocked(L, w) == TrialRequired(L, w) /\ Missed(L, w) >= 2

-----------------------------------------------------------------------------
(* plan_slots of app/adaptive_planner.py                                    *)

Slot(kind, s, targets) == [kind |-> kind, skill |-> s, targets |-> targets]

Seen(L) == {s \in Skills : Of(L, s) # {}}

LastSeen(L, s) == Max(Of(L, s))

\* Skills two procedures of which were confused, oldest first, until answers
\* to targeted slots resolve both.
ConfusedSkills(L) ==
    LET Skill(n) == L[n].skill
        Open(s) == \E h \in {"a", "b"} : ~Resolved(L, <<s, h>>)
    IN OrderedUnique({n \in Observed(L) : L[n].mark = "switched" /\ Open(Skill(n))},
                     Skill)

Candidates(L) ==
    LET w == ActiveWorld(L)
        ById(p, q) == \/ p[1][1] < q[1][1]
                      \/ p[1][1] = q[1][1] /\ p[1][2] < q[1][2]
                      \/ p[1] = q[1] /\ p[2] = "a" /\ q[2] = "b"
        Urgent(p, q) == \/ Priority(L, p) > Priority(L, q)
                        \/ Priority(L, p) = Priority(L, q) /\ ById(p, q)
        Older(s, t) == LastSeen(L, s) < LastSeen(L, t)
        Rarer(s, t) == \/ Cardinality(Of(L, s)) < Cardinality(Of(L, t))
                       \/ Cardinality(Of(L, s)) = Cardinality(Of(L, t))
                          /\ Older(s, t)
        here == {s \in Seen(L) : s[1] = w}
        fragile == {s \in here : Fragile(L, s)}
        Probe(p) == Slot("active_misconception_probe", p[1], {p})
        Tell(s) == Slot("misconception_discrimination", s,
                        {<<s, "a">>, <<s, "b">>})
        Plain(kind, S) == [i \in DOMAIN S |-> Slot(kind, S[i], {})]
        Each(S, Op(_)) == [i \in DOMAIN S |-> Op(S[i])]
        Lower(s, t) == s[2] < t[2]
    IN Each(Sorted(ActiveProcedures(L), Urgent), Probe)
       \o Each(ConfusedSkills(L), Tell)
       \o Plain("fragile_skill_transfer", Sorted(fragile, Older))
       \o Plain("under_sampled_core_skill",
                Sorted(here \ fragile, Rarer))
       \o Plain("spaced_prior_world_transfer",
                Sorted(Seen(L) \ here, Older))
       \o Plain("novel_current_skill", Sorted(ToSet(Core(w)) \ here, Lower))

\* n slots: the first candidates, then the core skills in turn.
Plan(L, n) ==
    LET core == Core(ActiveWorld(L))
        first == Candidates(L)
        Fill(i) == LET s == core[((i - Len(first) - 1) % Len(core)) + 1]
                   IN Slot(IF s \in Seen(L) THEN "under_sampled_core_skill"
                           ELSE "novel_current_skill", s, {})
    IN [i \in 1..n |-> IF i <= Len(first) THEN first[i] ELSE Fill(i)]
=============================================================================
