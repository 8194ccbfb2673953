--------------------------- MODULE CampaignProofs ---------------------------
(***************************************************************************)
(* What holds of the campaign for every catalog, learner and bound.  The   *)
(* module goes from the operators of Evidence (what is sorted, what a      *)
(* growing log keeps, what a plan consists of) over the inductive          *)
(* invariant IInv, with one lemma per command, to the theorems.            *)
(***************************************************************************)
EXTENDS CampaignContract, FiniteSetTheorems, TLAPS

-----------------------------------------------------------------------------
(* Sets in an order.                                                        *)

\* R orders S strictly and totally.
Orders(R, S) ==
    /\ \A x \in S : <<x, x>> \notin R
    /\ \A x, y \in S : x # y => <<x, y>> \in R \/ <<y, x>> \in R
    /\ \A x, y, z \in S : <<x, y>> \in R /\ <<y, z>> \in R => <<x, z>> \in R

\* The elements of S below x.
Under(R, S, x) == {y \in S : <<y, x>> \in R}

\* In an ordered set every number of smaller elements belongs to one element.
LEMMA Ranks ==
    ASSUME NEW S, IsFiniteSet(S), NEW R, Orders(R, S)
    PROVE  /\ \A x \in S : Cardinality(Under(R, S, x)) \in 0..(Cardinality(S) - 1)
           /\ \A x, y \in S : Cardinality(Under(R, S, x)) = Cardinality(Under(R, S, y))
                                  => x = y
           /\ \A k \in 1..Cardinality(S) :
                  \E x \in S : Cardinality(Under(R, S, x)) = k - 1
<1> DEFINE rank == [x \in S |-> Cardinality(Under(R, S, x)) + 1]
<1>0. Cardinality(S) \in Nat
  BY FS_CardinalityType
<1>1. ASSUME NEW x \in S
      PROVE  /\ IsFiniteSet(Under(R, S, x)) /\ Cardinality(Under(R, S, x)) \in Nat
             /\ Cardinality(Under(R, S, x)) < Cardinality(S)
  <2>1. Under(R, S, x) \in SUBSET (S \ {x})
    BY DEF Under, Orders
  <2>2. IsFiniteSet(S \ {x}) /\ Cardinality(S \ {x}) = Cardinality(S) - 1
    BY FS_RemoveElement
  <2> QED
    BY <1>0, <2>1, <2>2, FS_Subset, FS_CardinalityType
<1>2. rank \in [S -> 1..Cardinality(S)]
  BY <1>0, <1>1
<1>3. ASSUME NEW x \in S, NEW y \in S, <<x, y>> \in R
      PROVE  Cardinality(Under(R, S, x)) # Cardinality(Under(R, S, y))
  <2>1. Under(R, S, x) \cup {x} \in SUBSET Under(R, S, y) /\ x \notin Under(R, S, x)
    BY <1>3 DEF Under, Orders
  <2>2. Cardinality(Under(R, S, x) \cup {x}) = Cardinality(Under(R, S, x)) + 1
    BY <1>1, <2>1, FS_AddElement
  <2>3. Cardinality(Under(R, S, x) \cup {x}) <= Cardinality(Under(R, S, y))
    BY <1>1, <2>1, FS_Subset
  <2> QED
    BY <1>1, <2>2, <2>3
<1>4. \A x, y \in S : Cardinality(Under(R, S, x)) = Cardinality(Under(R, S, y)) => x = y
  BY <1>3 DEF Orders
<1>5. rank \in Injection(S, 1..Cardinality(S))
  <2>1. \A x, y \in S : x # y => rank[x] # rank[y]
    BY <1>1, <1>4
  <2> QED
    BY <1>2, <2>1 DEF Injection, IsInjective
<1>6. IsFiniteSet(1..Cardinality(S)) /\ Cardinality(1..Cardinality(S)) = Cardinality(S)
  BY <1>0, FS_Interval
<1>7. rank \in Surjection(S, 1..Cardinality(S))
  BY <1>5, <1>6, FS_Injection
<1>8. ASSUME NEW k \in 1..Cardinality(S)
      PROVE  \E x \in S : Cardinality(Under(R, S, x)) = k - 1
  <2>1. PICK x \in S : rank[x] = k
    BY <1>7 DEF Surjection
  <2> QED
    BY <1>0, <1>1, <2>1
<1> QED
  BY <1>0, <1>1, <1>4, <1>8

LEMMA RanksAreUsed ==
    ASSUME NEW S, IsFiniteSet(S), NEW R, Orders(R, S),
           NEW k \in 1..Cardinality(S)
    PROVE  \E x \in S : Cardinality(Under(R, S, x)) = k - 1
BY Ranks

\* The elements of S in the order R: each once, at the place of its rank.
Listed(R, S) == [k \in 1..Cardinality(S) |->
                     CHOOSE x \in S : Cardinality(Under(R, S, x)) = k - 1]

LEMMA ListedIs ==
    ASSUME NEW S, IsFiniteSet(S), NEW R, Orders(R, S)
    PROVE  /\ Cardinality(S) \in Nat
           /\ Listed(R, S) \in [1..Cardinality(S) -> S]
           /\ \A k \in 1..Cardinality(S) :
                  Cardinality(Under(R, S, Listed(R, S)[k])) = k - 1
           /\ \A x \in S : \E k \in 1..Cardinality(S) : Listed(R, S)[k] = x
<1> DEFINE at == Listed(R, S)
<1>0. Cardinality(S) \in Nat
  BY FS_CardinalityType
<1>1. ASSUME NEW k \in 1..Cardinality(S)
      PROVE  at[k] \in S /\ Cardinality(Under(R, S, at[k])) = k - 1
  BY Ranks DEF Listed
<1> HIDE DEF at
<1>2. ASSUME NEW x \in S
      PROVE  \E k \in 1..Cardinality(S) : at[k] = x
  <2>1. PICK k \in 1..Cardinality(S) : Cardinality(Under(R, S, x)) = k - 1
    <3>1. Cardinality(Under(R, S, x)) \in 0..(Cardinality(S) - 1)
      BY Ranks
    <3>2. Cardinality(Under(R, S, x)) + 1 \in 1..Cardinality(S)
      BY <1>0, <3>1
    <3> QED
      BY <1>0, <3>1, <3>2
  <2>2. at[k] \in S /\ Cardinality(Under(R, S, at[k])) = Cardinality(Under(R, S, x))
    BY <1>1, <2>1
  <2> QED
    BY <2>2, Ranks
<1>3. at \in [1..Cardinality(S) -> S]
  BY <1>1 DEF at, Listed
<1> QED
  BY <1>0, <1>1, <1>2, <1>3 DEF at

LEMMA NumbersAreOrdered ==
    ASSUME NEW S \in SUBSET Int
    PROVE  Orders({p \in S \X S : p[1] < p[2]}, S)
BY DEF Orders

LEMMA MaxIs ==
    ASSUME NEW S \in SUBSET Int, IsFiniteSet(S), S # {}
    PROVE  Max(S) \in S /\ \A y \in S : y <= Max(S)
<1> DEFINE R == {p \in S \X S : p[1] < p[2]}
<1>1. Orders(R, S)
  BY NumbersAreOrdered
<1> HIDE DEF R
<1>2. Cardinality(S) \in Nat /\ Cardinality(S) # 0
  BY FS_CardinalityType, FS_EmptySet
<1>3. PICK x \in S : Cardinality(Under(R, S, x)) = Cardinality(S) - 1
  BY <1>1, <1>2, Ranks
<1>4. Under(R, S, x) \in SUBSET (S \ {x})
  BY <1>1 DEF Under, Orders
<1>5. IsFiniteSet(S \ {x}) /\ Cardinality(S \ {x}) = Cardinality(S) - 1
  BY FS_RemoveElement
<1>6. Under(R, S, x) = S \ {x}
  BY <1>3, <1>4, <1>5, FS_Subset
<1>7. ASSUME NEW y \in S
      PROVE  x >= y
  <2>1. CASE y = x
    BY <2>1
  <2>2. CASE y # x
    <3>1. <<y, x>> \in R
      BY <1>6, <2>2 DEF Under
    <3> QED
      BY <3>1 DEF R
  <2> QED
    BY <2>1, <2>2
<1>8. Max(S) \in S /\ \A y \in S : Max(S) >= y
  BY <1>7, Zenon DEF Max
<1> QED
  BY <1>8

LEMMA MinIs ==
    ASSUME NEW S \in SUBSET Int, IsFiniteSet(S), S # {}
    PROVE  \E x \in S : \A y \in S : x <= y
<1> DEFINE R == {p \in S \X S : p[1] < p[2]}
<1>1. Orders(R, S)
  BY NumbersAreOrdered
<1> HIDE DEF R
<1>2. Cardinality(S) \in Nat /\ Cardinality(S) # 0
  BY FS_CardinalityType, FS_EmptySet
<1>3. PICK x \in S : Cardinality(Under(R, S, x)) = 0
  <2>1. PICK k \in 1..Cardinality(S) : k = 1
    BY <1>2
  <2>2. PICK y \in S : Cardinality(Under(R, S, y)) = k - 1
    BY <1>1, RanksAreUsed
  <2>3. Cardinality(Under(R, S, y)) = 0
    BY <2>1, <2>2
  <2> QED
    BY <2>3
<1>4. IsFiniteSet(Under(R, S, x))
  <2>1. Under(R, S, x) \in SUBSET S
    BY DEF Under
  <2> QED
    BY <2>1, FS_Subset
<1>5. Under(R, S, x) = {}
  BY <1>3, <1>4, FS_EmptySet
<1>7. ASSUME NEW y \in S
      PROVE  x <= y
  <2>1. <<y, x>> \notin R
    BY <1>5 DEF Under
  <2> QED
    BY <2>1 DEF R
<1> QED
  BY <1>7

-----------------------------------------------------------------------------
(* The invariant.                                                           *)

\* Every kind of slot.
Kinds == TransferKinds \cup {"under_sampled_core_skill", "novel_current_skill"}

\* The event of each type.
Events ==
    [type : {"activation", "assisted"}, world : Worlds]
    \cup [type : {"boss"}, world : Worlds, score : Nat]
    \cup [type : {"completion"}, world : Worlds, battle : 1..Boss]
    \cup [type : {"seal"}, world : Worlds, attempt : Nat \ {0}, passed : BOOLEAN]
    \cup [type : {"started", "wind_quiz"}, world : Worlds, battle : 1..Boss,
          attempt : Attempts]
    \cup [type : {"revived"}, world : Worlds, battle : 1..Boss, attempt : Attempts,
          won : BOOLEAN]
    \cup [type : {"observation"}, world : Worlds, skill : Skills, kind : Kinds,
          targets : SUBSET Procedures, batch : Nat, mark : Marks]

\* Where worlds were activated.
Activations == Positions(log, "activation")

\* The world active at n.
Active(n) == Cardinality({k \in Activations : k <= n})

\* The first event activates the first world, each later activation the next.
InOrder == /\ log \in Seq(Events)
           /\ 1 \in Activations
           /\ \A n \in Activations : log[n].world = Active(n)

\* Observations are of the skill's world; nothing is of a world to come.
NoneAhead == /\ \A n \in DOMAIN log : log[n].world <= w0
             /\ \A n \in Observed(log) : log[n].skill[1] = log[n].world

\* What is not of the world it was logged in is of one left before.
Past == \A n \in DOMAIN log :
            \/ InItsWorld(log, Activations, n)
            \/ \E w \in Worlds : w = log[n].world /\ w < w0 /\ LeftUnfinished(w)

\* The battles of the world are won in order, the boss apart.
WonSoFar == \E m \in 0..Len(LeadInItems) : Wins(log, w0) = [i \in 1..m |-> i]

\* A Second Wind is started, quizzed, fought; its battle is not ahead.
WindsInOrder ==
    /\ \A n \in Positions(log, "started") :
           /\ log[n].battle < Boss
           /\ log[n].world = w0 => log[n].battle <= CurrentBattle
    /\ \A n \in Positions(log, "wind_quiz") : WindStarted(log[n].attempt)
    /\ \A n \in Positions(log, "revived") : Logged("wind_quiz", log[n].attempt) # {}

\* A slot of any world.
SlotKinds == [kind : Kinds, skill : Skills, targets : SUBSET Procedures]

\* The slots a quiz of w may have.
SlotsFor(w) == {s \in SlotKinds : IF s.kind \in TransferKinds THEN s.skill[1] <= w
                                                              ELSE s.skill[1] = w}

\* What a live batch waits for is still to come.
Serves == batch # NoBatch =>
    /\ batch.slots \in Seq(SlotsFor(batch.world))
    /\ \/ /\ batch.purpose = "battle"
          /\ batch.world = w0
          /\ batch.number <= CurrentBattle
          /\ BossEvents(log, w0) = {}
       \/ /\ batch.purpose = "seal"
          /\ batch.world = w0
          /\ TrialRequired(log, w0)
          /\ batch.number = Missed(log, w0) + 1
       \/ /\ batch.purpose = "wind"
          /\ batch.number \in Attempts
          /\ WindStarted(batch.number)
          /\ Logged("wind_quiz", batch.number) = {}
          /\ StartOf(batch.number).world = batch.world

\* A live route is of the active world, which still needs it.
RouteServes == route # 0 => route = w0 /\ RouteUnlocked(log, w0)

\* Every answer passes, and a Seal Trial is of a boss that fell.
Answered == \A n \in DOMAIN log :
    /\ ReplyAccepted(n)
    /\ log[n].type = "seal" => BossEvents(Upto(n), log[n].world) # {}

\* Inductive.  The named properties are not: that the history breaks only
\* over late Second Winds needs to know which worlds a live batch asks about
\* (Serves, and what plan_slots may put into it), that it asks for something
\* still to come, and in which order a Second Wind is logged.
IInv == /\ TypeOK /\ InOrder /\ NoneAhead /\ Past /\ WonSoFar /\ WindsInOrder
        /\ Serves /\ RouteServes /\ OneActivity /\ Answered

-----------------------------------------------------------------------------
(* What is read out of a log that grows.                                    *)

\* M goes on where L ends, with events of the types T.
Grows(L, M, T) ==
    /\ L \in Seq(Events) /\ M \in Seq(Events)
    /\ Len(L) <= Len(M)
    /\ \A n \in 1..Len(L) : M[n] = L[n]
    /\ \A n \in (Len(L) + 1)..Len(M) : M[n].type \in T

LEMMA EventFields ==
    ASSUME NEW e \in Events
    PROVE  /\ e.world \in Worlds
           /\ e.type = "boss" => e.score \in Nat
           /\ e.type = "completion" => e.battle \in 1..Boss
           /\ e.type = "seal" => e.attempt \in Nat \ {0} /\ e.passed \in BOOLEAN
           /\ e.type \in {"started", "wind_quiz", "revived"} =>
                  e.battle \in 1..Boss /\ e.attempt \in Attempts
           /\ e.type = "revived" => e.won \in BOOLEAN
           /\ e.type = "observation" =>
                  /\ e.skill \in Skills /\ e.kind \in Kinds
                  /\ e.targets \in SUBSET Procedures
                  /\ e.batch \in Nat /\ e.mark \in Marks
BY DEF Events

LEMMA PositionsAre ==
    ASSUME NEW L \in Seq(Events), NEW t
    PROVE  /\ Positions(L, t) \in SUBSET (1..Len(L))
           /\ Positions(L, t) \in SUBSET Int
           /\ IsFiniteSet(Positions(L, t))
<1>1. Positions(L, t) \in SUBSET (1..Len(L)) /\ Len(L) \in Nat
  BY DEF Positions
<1>2. IsFiniteSet(1..Len(L))
  BY <1>1, FS_Interval
<1> QED
  BY <1>1, <1>2, FS_Subset

LEMMA SamePositions ==
    ASSUME NEW L, NEW M, NEW T, Grows(L, M, T), NEW t, t \notin T
    PROVE  /\ Positions(M, t) = Positions(L, t)
           /\ \A n \in Positions(L, t) : M[n] = L[n]
<1>1. /\ L \in Seq(Events) /\ M \in Seq(Events) /\ Len(L) \in Nat /\ Len(M) \in Nat
      /\ DOMAIN L = 1..Len(L) /\ DOMAIN M = 1..Len(M)
  BY DEF Grows
<1>2. ASSUME NEW n \in Positions(M, t)
      PROVE  n \in Positions(L, t)
  <2>1. n \in 1..Len(M) /\ M[n].type = t
    BY <1>1, <1>2 DEF Positions
  <2>2. n \in 1..Len(L)
    BY <1>1, <2>1 DEF Grows
  <2> QED
    BY <1>1, <2>1, <2>2 DEF Grows, Positions
<1>3. ASSUME NEW n \in Positions(L, t)
      PROVE  n \in Positions(M, t) /\ M[n] = L[n]
  BY <1>1, <1>3 DEF Grows, Positions
<1> QED
  BY <1>2, <1>3

LEMMA SameClearance ==
    ASSUME NEW L, NEW M, NEW T, Grows(L, M, T), NEW w,
           "boss" \notin T, "seal" \notin T, "assisted" \notin T
    PROVE  /\ BossEvents(M, w) = BossEvents(L, w)
           /\ Missed(M, w) = Missed(L, w)
           /\ Cleared(M, w) = Cleared(L, w)
           /\ TrialRequired(M, w) = TrialRequired(L, w)
           /\ RouteUnlocked(M, w) = RouteUnlocked(L, w)
<1>1. BossEvents(M, w) = BossEvents(L, w) /\ \A n \in BossEvents(L, w) : M[n] = L[n]
  BY SamePositions DEF BossEvents
<1>2. Trials(M, w) = Trials(L, w) /\ \A n \in Trials(L, w) : M[n] = L[n]
  BY SamePositions, <1>1 DEF Trials
<1>3. Assisted(M, w) = Assisted(L, w)
  BY SamePositions, <1>1 DEF Assisted
<1>4. Missed(M, w) = Missed(L, w)
  <2>1. {n \in Trials(M, w) : ~M[n].passed} = {n \in Trials(L, w) : ~L[n].passed}
    BY <1>2
  <2> QED
    BY <2>1 DEF Missed
<1>5. BossEvents(L, w) # {} => Max(BossEvents(L, w)) \in BossEvents(L, w)
  <2>1. Positions(L, "boss") \in SUBSET Int /\ IsFiniteSet(Positions(L, "boss"))
    BY PositionsAre DEF Grows
  <2>2. BossEvents(L, w) \in SUBSET Int /\ IsFiniteSet(BossEvents(L, w))
    <3>1. BossEvents(L, w) \in SUBSET Positions(L, "boss")
      BY DEF BossEvents
    <3> QED
      BY <2>1, <3>1, FS_Subset
  <2> QED
    BY <2>2, MaxIs
<1>6. Cleared(M, w) = Cleared(L, w)
  <2>1. CASE BossEvents(L, w) = {}
    BY <1>1, <2>1 DEF Cleared
  <2>2. CASE BossEvents(L, w) # {}
    <3>1. M[Max(BossEvents(L, w))] = L[Max(BossEvents(L, w))]
      BY <1>1, <1>5, <2>2
    <3>2. (\E n \in Trials(M, w) : M[n].passed) = (\E n \in Trials(L, w) : L[n].passed)
      BY <1>2
    <3> QED
      BY <1>1, <1>3, <2>2, <3>1, <3>2 DEF Cleared
  <2> QED
    BY <2>1, <2>2
<1>7. TrialRequired(M, w) = TrialRequired(L, w)
  BY <1>1, <1>6 DEF TrialRequired
<1> QED
  BY <1>1, <1>4, <1>6, <1>7 DEF RouteUnlocked

-----------------------------------------------------------------------------
(* The wins, read in order.                                                 *)

\* The positions of first victories.
Firsts(L, w) == {n \in Won(L, w) :
                     \A m \in Won(L, w) : L[m].battle = L[n].battle => n <= m}

\* The order in which Wins reads them.
ByPlace(S) == {p \in S \X S : p[1] < p[2]}

InPlace(S) == Listed(ByPlace(S), S)

LEMMA SortedInPlace ==
    ASSUME NEW S \in SUBSET Int
    PROVE  Sorted(S, <) = InPlace(S)
<1> DEFINE Place(k) == CHOOSE x \in S : Cardinality({y \in S : y < x}) = k - 1
           Listing(k) == CHOOSE x \in S : Cardinality(Under(ByPlace(S), S, x)) = k - 1
<1>1. ASSUME NEW x \in S
      PROVE  {y \in S : y < x} = Under(ByPlace(S), S, x)
  BY DEF Under, ByPlace
<1>2. \A k : \A x \in S : Cardinality({y \in S : y < x}) = k - 1
                              <=> Cardinality(Under(ByPlace(S), S, x)) = k - 1
  BY <1>1
<1>3. \A k : Place(k) = Listing(k)
  BY <1>2
<1>4. Sorted(S, <) = [k \in 1..Cardinality(S) |-> Place(k)]
  BY DEF Sorted
<1>5. InPlace(S) = [k \in 1..Cardinality(S) |-> Listing(k)]
  BY DEF InPlace, Listed
<1> HIDE DEF Place, Listing
<1> QED
  BY <1>3, <1>4, <1>5

LEMMA WinsAre ==
    ASSUME NEW L \in Seq(Events), NEW w
    PROVE  Wins(L, w) = [k \in 1..Cardinality(Firsts(L, w)) |->
                             L[InPlace(Firsts(L, w))[k]].battle]
<1> DEFINE S == Firsts(L, w)
           at == Sorted(S, <)
<1>1. Wins(L, w) = [k \in DOMAIN at |-> L[at[k]].battle]
  BY DEF Wins, OrderedUnique, Firsts
<1>2. S \in SUBSET Int
  <2>1. Won(L, w) \in SUBSET DOMAIN L /\ DOMAIN L = 1..Len(L) /\ Len(L) \in Nat
    BY DEF Won
  <2> QED
    BY <2>1 DEF Firsts
<1>3. at = InPlace(S)
  BY <1>2, SortedInPlace
<1>4. DOMAIN InPlace(S) = 1..Cardinality(S)
  BY DEF InPlace, Listed
<1> HIDE DEF at, S
<1> QED
  BY <1>1, <1>3, <1>4 DEF S

LEMMA InPlaceIs ==
    ASSUME NEW S \in SUBSET Int, IsFiniteSet(S)
    PROVE  /\ Cardinality(S) \in Nat
           /\ InPlace(S) \in [1..Cardinality(S) -> S]
           /\ \A k \in 1..Cardinality(S) :
                  Cardinality(Under(ByPlace(S), S, InPlace(S)[k])) = k - 1
           /\ \A x \in S : \E k \in 1..Cardinality(S) : InPlace(S)[k] = x
<1>1. Orders(ByPlace(S), S)
  BY NumbersAreOrdered DEF ByPlace
<1>2. Cardinality(S) \in Nat
  BY FS_CardinalityType
<1> HIDE DEF ByPlace
<1> QED
  BY <1>1, <1>2, ListedIs DEF InPlace

\* A number above all others comes last.
LEMMA InPlaceGrows ==
    ASSUME NEW S \in SUBSET Int, IsFiniteSet(S), NEW n \in Int, \A x \in S : x < n
    PROVE  /\ Cardinality(S \cup {n}) = Cardinality(S) + 1
           /\ \A k \in 1..Cardinality(S) : InPlace(S \cup {n})[k] = InPlace(S)[k]
           /\ InPlace(S \cup {n})[Cardinality(S) + 1] = n
<1> DEFINE T == S \cup {n}
           c == Cardinality(S)
<1>1. IsFiniteSet(T) /\ Cardinality(T) = c + 1 /\ T \in SUBSET Int
  BY FS_AddElement
<1>2. c \in Nat
  BY FS_CardinalityType
<1>3. ASSUME NEW x \in S
      PROVE  Under(ByPlace(T), T, x) = Under(ByPlace(S), S, x)
  <2>1. \A y : y \in Under(ByPlace(T), T, x) <=> y \in T /\ y < x
    BY <1>1 DEF Under, ByPlace
  <2>2. \A y : y \in Under(ByPlace(S), S, x) <=> y \in S /\ y < x
    BY DEF Under, ByPlace
  <2>3. x \in Int /\ x < n
    OBVIOUS
  <2>4. \A y : y \in T /\ y < x <=> y \in S /\ y < x
    BY <2>3
  <2> HIDE DEF T
  <2> QED
    BY <2>1, <2>2, <2>4
<1>4. Under(ByPlace(T), T, n) = S
  <2>1. \A y : y \in Under(ByPlace(T), T, n) <=> y \in T /\ y < n
    BY <1>1 DEF Under, ByPlace
  <2>2. ASSUME NEW y
        PROVE  y \in T /\ y < n <=> y \in S
    <3>1. ~(n < n)
      OBVIOUS
    <3> QED
      BY <3>1
  <2> HIDE DEF T
  <2> QED
    BY <2>1, <2>2
<1> HIDE DEF T
<1>5. Orders(ByPlace(S), S)
  BY NumbersAreOrdered DEF ByPlace
<1>6. \A x, y \in S : Cardinality(Under(ByPlace(S), S, x))
                          = Cardinality(Under(ByPlace(S), S, y)) => x = y
  BY <1>5, Ranks
<1>7. \A x \in S : Cardinality(Under(ByPlace(S), S, x)) \in 0..(c - 1)
  BY <1>5, Ranks
<1>8. /\ InPlace(T) \in [1..Cardinality(T) -> T]
      /\ \A k \in 1..Cardinality(T) :
             Cardinality(Under(ByPlace(T), T, InPlace(T)[k])) = k - 1
  BY <1>1, InPlaceIs
<1>9. /\ InPlace(S) \in [1..c -> S]
      /\ \A k \in 1..c : Cardinality(Under(ByPlace(S), S, InPlace(S)[k])) = k - 1
  BY InPlaceIs
<1>10. ASSUME NEW k \in 1..c
       PROVE  InPlace(T)[k] = InPlace(S)[k]
  <2>1. k \in 1..Cardinality(T) /\ InPlace(T)[k] \in T
    BY <1>1, <1>2, <1>8
  <2>2. Cardinality(Under(ByPlace(T), T, InPlace(T)[k])) = k - 1
    BY <1>8, <2>1
  <2>3. InPlace(T)[k] # n
    BY <1>2, <1>4, <2>2
  <2>4. InPlace(T)[k] \in S
    BY <2>1, <2>3 DEF T
  <2> QED
    BY <1>3, <1>6, <1>9, <2>2, <2>4
<1>11. InPlace(T)[c + 1] = n
  <2>1. c + 1 \in 1..Cardinality(T) /\ InPlace(T)[c + 1] \in T
    BY <1>1, <1>2, <1>8
  <2>2. Cardinality(Under(ByPlace(T), T, InPlace(T)[c + 1])) = c
    BY <1>2, <1>8, <2>1
  <2>3. \A x \in S : Cardinality(Under(ByPlace(T), T, x)) # c
    BY <1>2, <1>3, <1>7
  <2> QED
    BY <2>1, <2>2, <2>3 DEF T
<1> QED
  BY <1>1, <1>10, <1>11 DEF T

-----------------------------------------------------------------------------

LEMMA WonAre ==
    ASSUME NEW L \in Seq(Events), NEW w
    PROVE  /\ Won(L, w) \in SUBSET (1..Len(L)) /\ Firsts(L, w) \in SUBSET Won(L, w)
           /\ Firsts(L, w) \in SUBSET Int /\ IsFiniteSet(Firsts(L, w))
           /\ \A n \in Won(L, w) : L[n].battle \in 1..Boss
           /\ \A n \in Won(L, w) : \E m \in Firsts(L, w) : L[m].battle = L[n].battle
<1>1. Len(L) \in Nat /\ DOMAIN L = 1..Len(L) /\ IsFiniteSet(1..Len(L))
  BY FS_Interval
<1>2. Won(L, w) \in SUBSET (1..Len(L)) /\ Firsts(L, w) \in SUBSET Won(L, w)
  BY <1>1 DEF Won, Firsts
<1>3. IsFiniteSet(Won(L, w)) /\ IsFiniteSet(Firsts(L, w))
  BY <1>1, <1>2, FS_Subset
<1>4. ASSUME NEW n \in Won(L, w)
      PROVE  L[n].battle \in 1..Boss
  <2>1. L[n] \in Events /\ L[n].type \in {"completion", "revived"}
    BY <1>1, <1>4 DEF Won
  <2> QED
    BY <2>1, EventFields
<1>5. ASSUME NEW n \in Won(L, w)
      PROVE  \E m \in Firsts(L, w) : L[m].battle = L[n].battle
  <2> DEFINE S == {m \in Won(L, w) : L[m].battle = L[n].battle}
  <2>1. S \in SUBSET Int /\ S # {} /\ IsFiniteSet(S)
    <3>1. S \in SUBSET Won(L, w) /\ n \in S
      OBVIOUS
    <3> QED
      BY <1>2, <1>3, <3>1, FS_Subset
  <2> HIDE DEF S
  <2>2. PICK m \in S : \A y \in S : m <= y
    BY <2>1, MinIs
  <2> QED
    BY <2>2 DEF S, Firsts
<1> QED
  BY <1>2, <1>3, <1>4, <1>5

\* Nothing else changes what was won.
LEMMA SameWins ==
    ASSUME NEW L, NEW M, NEW T, Grows(L, M, T), NEW w,
           "completion" \notin T, "revived" \notin T
    PROVE  Wins(M, w) = Wins(L, w)
<1>1. /\ L \in Seq(Events) /\ M \in Seq(Events) /\ Len(L) \in Nat /\ Len(M) \in Nat
      /\ DOMAIN L = 1..Len(L) /\ DOMAIN M = 1..Len(M)
  BY DEF Grows
<1>2. Won(M, w) = Won(L, w)
  <2>1. ASSUME NEW n \in Won(M, w)
        PROVE  n \in Won(L, w)
    <3>1. n \in 1..Len(M) /\ M[n].type \in {"completion", "revived"}
      BY <1>1, <2>1 DEF Won
    <3>2. n \in 1..Len(L)
      BY <1>1, <3>1 DEF Grows
    <3>3. M[n] = L[n]
      BY <3>2 DEF Grows
    <3> QED
      BY <1>1, <2>1, <3>2, <3>3 DEF Won
  <2>2. ASSUME NEW n \in Won(L, w)
        PROVE  n \in Won(M, w)
    <3>1. n \in 1..Len(L) /\ n \in 1..Len(M)
      BY <1>1, <2>2 DEF Won, Grows
    <3>3. M[n] = L[n]
      BY <3>1 DEF Grows
    <3> QED
      BY <1>1, <2>2, <3>1, <3>3 DEF Won
  <2> QED
    BY <2>1, <2>2
<1>3. \A n \in Won(L, w) : M[n] = L[n]
  BY <1>1, WonAre DEF Grows
<1>4. Firsts(M, w) = Firsts(L, w)
  BY <1>2, <1>3 DEF Firsts
<1>5. \A k \in 1..Cardinality(Firsts(L, w)) :
          M[InPlace(Firsts(L, w))[k]] = L[InPlace(Firsts(L, w))[k]]
  BY <1>1, <1>3, WonAre, InPlaceIs
<1>6. Wins(M, w) = [k \in 1..Cardinality(Firsts(L, w)) |->
                        M[InPlace(Firsts(L, w))[k]].battle]
  <2>1. Wins(M, w) = [k \in 1..Cardinality(Firsts(M, w)) |->
                          M[InPlace(Firsts(M, w))[k]].battle]
    BY <1>1, WinsAre
  <2> QED
    BY <1>4, <2>1
<1>7. Wins(L, w) = [k \in 1..Cardinality(Firsts(L, w)) |->
                        L[InPlace(Firsts(L, w))[k]].battle]
  BY <1>1, WinsAre
<1> QED
  BY <1>5, <1>6, <1>7

\* The first m battles, in order.
FirstOnes(m) == [i \in 1..m |-> i]

LEMMA CountTo ==
    ASSUME NEW n \in Nat
    PROVE  Cardinality(1..n) = n /\ IsFiniteSet(1..n)
BY FS_Interval

\* The victories of a world whose first m battles were won.
LEMMA WonSoFarAre ==
    ASSUME NEW L \in Seq(Events), NEW w, NEW m \in Nat, Wins(L, w) = FirstOnes(m)
    PROVE  /\ Cardinality(Firsts(L, w)) = m
           /\ \A n \in Won(L, w) : L[n].battle \in 1..m
           /\ \A i \in 1..m : \E n \in Firsts(L, w) : L[n].battle = i
<1> DEFINE S == Firsts(L, w)
           c == Cardinality(S)
<1>1. /\ c \in Nat /\ InPlace(S) \in [1..c -> S]
      /\ \A x \in S : \E k \in 1..c : InPlace(S)[k] = x
  BY WonAre, InPlaceIs
<1>2. Wins(L, w) = [k \in 1..c |-> L[InPlace(S)[k]].battle]
  BY WinsAre
<1>3. DOMAIN Wins(L, w) = 1..c /\ DOMAIN FirstOnes(m) = 1..m
  BY <1>2 DEF FirstOnes
<1>4. c = m
  <2>1. 1..c = 1..m
    BY <1>3
  <2>2. Cardinality(1..c) = c /\ Cardinality(1..m) = m
    BY <1>1, CountTo
  <2> QED
    BY <2>1, <2>2
<1>5. \A k \in 1..m : L[InPlace(S)[k]].battle = k
  BY <1>2, <1>4 DEF FirstOnes
<1>6. ASSUME NEW n \in Won(L, w)
      PROVE  L[n].battle \in 1..m
  <2>1. PICK x \in S : L[x].battle = L[n].battle
    BY WonAre
  <2>2. PICK k \in 1..m : InPlace(S)[k] = x
    BY <1>1, <1>4
  <2> QED
    BY <1>5, <2>1, <2>2
<1>7. ASSUME NEW i \in 1..m
      PROVE  \E n \in S : L[n].battle = i
  BY <1>1, <1>4, <1>5
<1> QED
  BY <1>4, <1>6, <1>7

\* An event that wins a lead-in battle of w.
WinsIn(e, w) == \/ e.type = "completion" /\ e.world = w
                \/ e.type = "revived" /\ e.world = w /\ e.won

LEMMA Appended ==
    ASSUME NEW L \in Seq(Events), NEW e \in Events
    PROVE  /\ Append(L, e) \in Seq(Events)
           /\ Len(L) \in Nat /\ Len(Append(L, e)) = Len(L) + 1
           /\ DOMAIN L = 1..Len(L) /\ DOMAIN Append(L, e) = 1..(Len(L) + 1)
           /\ \A n \in 1..Len(L) : Append(L, e)[n] = L[n]
           /\ Append(L, e)[Len(L) + 1] = e
OBVIOUS

LEMMA WonGrows ==
    ASSUME NEW L \in Seq(Events), NEW e \in Events, NEW w
    PROVE  /\ WinsIn(e, w) => Won(Append(L, e), w) = Won(L, w) \cup {Len(L) + 1}
           /\ ~WinsIn(e, w) => Won(Append(L, e), w) = Won(L, w)
           /\ \A n \in Won(L, w) : Append(L, e)[n] = L[n] /\ n \in 1..Len(L)
<1> DEFINE M == Append(L, e)
<1>1. /\ Len(L) \in Nat /\ DOMAIN L = 1..Len(L) /\ DOMAIN M = 1..(Len(L) + 1)
      /\ \A n \in 1..Len(L) : M[n] = L[n]
      /\ M[Len(L) + 1] = e
  BY Appended
<1> HIDE DEF M
<1>2. ASSUME NEW n \in 1..Len(L)
      PROVE  n \in Won(M, w) <=> n \in Won(L, w)
  BY <1>1 DEF Won
<1>3. Len(L) + 1 \in Won(M, w) <=> WinsIn(e, w)
  BY <1>1 DEF Won, WinsIn
<1>4. Won(M, w) \in SUBSET (1..(Len(L) + 1)) /\ Won(L, w) \in SUBSET (1..Len(L))
  BY <1>1 DEF Won
<1>5. \A n \in 1..(Len(L) + 1) : n \in 1..Len(L) \/ n = Len(L) + 1
  BY <1>1
<1>6. WinsIn(e, w) => Won(M, w) = Won(L, w) \cup {Len(L) + 1}
  BY <1>2, <1>3, <1>4, <1>5
<1>7. ~WinsIn(e, w) => Won(M, w) = Won(L, w)
  BY <1>2, <1>3, <1>4, <1>5
<1> QED
  BY <1>1, <1>4, <1>6, <1>7 DEF M

LEMMA NoNewWin ==
    ASSUME NEW L \in Seq(Events), NEW e \in Events, NEW w,
           \/ ~WinsIn(e, w)
           \/ \E n \in Won(L, w) : L[n].battle = e.battle
    PROVE  Wins(Append(L, e), w) = Wins(L, w)
<1> DEFINE M == Append(L, e)
           S == Firsts(L, w)
<1>1. /\ Len(L) \in Nat /\ M[Len(L) + 1] = e /\ M \in Seq(Events)
      /\ WinsIn(e, w) => Won(M, w) = Won(L, w) \cup {Len(L) + 1}
      /\ ~WinsIn(e, w) => Won(M, w) = Won(L, w)
      /\ \A n \in Won(L, w) : M[n] = L[n] /\ n \in 1..Len(L)
  BY Appended, WonGrows
<1> HIDE DEF M
<1>2. Firsts(M, w) = Firsts(L, w)
  <2>1. CASE ~WinsIn(e, w)
    BY <1>1, <2>1 DEF Firsts
  <2>2. CASE WinsIn(e, w)
    <3>1. PICK n \in Won(L, w) : L[n].battle = e.battle
      BY <2>2
    <3>2. Len(L) + 1 \notin Firsts(M, w)
      BY <1>1, <2>2, <3>1 DEF Firsts
    <3>3. ASSUME NEW x \in Won(L, w)
          PROVE  x \in Firsts(M, w) <=> x \in Firsts(L, w)
      <4>1. x \in Int /\ x <= Len(L) + 1 /\ x \in Won(M, w)
        BY <1>1, <2>2
      <4>2. (\A y \in Won(M, w) : M[y].battle = M[x].battle => x <= y)
                <=> (\A y \in Won(L, w) : L[y].battle = L[x].battle => x <= y)
        BY <1>1, <2>2, <4>1
      <4> QED
        BY <4>1, <4>2 DEF Firsts
    <3>4. Firsts(M, w) \in SUBSET Won(M, w) /\ Firsts(L, w) \in SUBSET Won(L, w)
      BY DEF Firsts
    <3> QED
      BY <1>1, <2>2, <3>2, <3>3, <3>4
  <2> QED
    BY <2>1, <2>2
<1>3. InPlace(S) \in [1..Cardinality(S) -> S] /\ S \in SUBSET Won(L, w)
  BY WonAre, InPlaceIs
<1>4. \A k \in 1..Cardinality(S) : M[InPlace(S)[k]] = L[InPlace(S)[k]]
  BY <1>1, <1>3
<1>5. Wins(M, w) = [k \in 1..Cardinality(S) |-> M[InPlace(S)[k]].battle]
  BY <1>1, <1>2, WinsAre
<1>6. Wins(L, w) = [k \in 1..Cardinality(S) |-> L[InPlace(S)[k]].battle]
  BY WinsAre
<1> QED
  BY <1>4, <1>5, <1>6 DEF M

LEMMA NextWin ==
    ASSUME NEW L \in Seq(Events), NEW e \in Events, NEW w, WinsIn(e, w),
           NEW m \in Nat, Wins(L, w) = FirstOnes(m), e.battle = m + 1
    PROVE  Wins(Append(L, e), w) = FirstOnes(m + 1)
<1> DEFINE M == Append(L, e)
           S == Firsts(L, w)
           n == Len(L) + 1
<1>1. /\ Len(L) \in Nat /\ M[n] = e /\ M \in Seq(Events)
      /\ Won(M, w) = Won(L, w) \cup {n}
      /\ \A x \in Won(L, w) : M[x] = L[x] /\ x \in 1..Len(L)
  BY Appended, WonGrows
<1>2. /\ Cardinality(S) = m
      /\ \A x \in Won(L, w) : L[x].battle \in 1..m
  BY WonSoFarAre
<1>0. n \in Int /\ \A x \in 1..Len(L) : x < n
  BY <1>1
<1> HIDE DEF M, n
<1>3. Firsts(M, w) = S \cup {n}
  <2>1. n \in Firsts(M, w)
    <3>1. \A x \in Won(L, w) : M[x].battle # M[n].battle
      BY <1>1, <1>2
    <3> QED
      BY <1>0, <1>1, <3>1 DEF Firsts
  <2>2. ASSUME NEW x \in Won(L, w)
        PROVE  x \in Firsts(M, w) <=> x \in S
    <3>1. x \in Int /\ x <= n /\ x \in Won(M, w)
      BY <1>0, <1>1
    <3>2. (\A y \in Won(M, w) : M[y].battle = M[x].battle => x <= y)
              <=> (\A y \in Won(L, w) : L[y].battle = L[x].battle => x <= y)
      BY <1>1, <3>1
    <3> QED
      BY <3>1, <3>2 DEF Firsts
  <2>3. Firsts(M, w) \in SUBSET Won(M, w) /\ S \in SUBSET Won(L, w)
    BY DEF Firsts
  <2> QED
    BY <1>1, <2>1, <2>2, <2>3
<1>4. /\ S \in SUBSET Int /\ IsFiniteSet(S) /\ S \in SUBSET Won(L, w)
      /\ InPlace(S) \in [1..m -> S]
  BY <1>2, WonAre, InPlaceIs
<1>5. \A x \in S : x < n
  BY <1>0, <1>1, <1>4
<1>6. /\ Cardinality(S \cup {n}) = m + 1
      /\ \A k \in 1..m : InPlace(S \cup {n})[k] = InPlace(S)[k]
      /\ InPlace(S \cup {n})[m + 1] = n
  BY <1>0, <1>2, <1>4, <1>5, InPlaceGrows
<1>7. Wins(M, w) = [k \in 1..(m + 1) |-> M[InPlace(S \cup {n})[k]].battle]
  <2>1. Wins(M, w) = [k \in 1..Cardinality(Firsts(M, w)) |->
                          M[InPlace(Firsts(M, w))[k]].battle]
    BY <1>1, WinsAre
  <2> QED
    BY <1>3, <1>6, <2>1
<1>8. Wins(L, w) = [k \in 1..m |-> L[InPlace(S)[k]].battle]
  BY <1>2, WinsAre
<1>9. ASSUME NEW k \in 1..m
      PROVE  M[InPlace(S \cup {n})[k]].battle = k
  <2>1. L[InPlace(S)[k]].battle = k
    BY <1>8 DEF FirstOnes
  <2> QED
    BY <1>1, <1>4, <1>6, <2>1
<1>10. M[InPlace(S \cup {n})[m + 1]].battle = m + 1
  BY <1>1, <1>6
<1>11. \A k \in 1..(m + 1) : k \in 1..m \/ k = m + 1
  OBVIOUS
<1>12. \A k \in 1..(m + 1) : M[InPlace(S \cup {n})[k]].battle = k
  BY <1>9, <1>10, <1>11
<1> QED
  BY <1>7, <1>12 DEF FirstOnes, M

-----------------------------------------------------------------------------
(* Worlds.                                                                  *)

\* The positions of S up to n.
UpTo(S, n) == {k \in S : k <= n}

LEMMA SameActiveWorld ==
    ASSUME NEW L, NEW M, NEW T, Grows(L, M, T), "activation" \notin T,
           Positions(L, "activation") # {}
    PROVE  ActiveWorld(M) = ActiveWorld(L)
<1>1. L \in Seq(Events)
  BY DEF Grows
<1>2. Max(Positions(L, "activation")) \in Positions(L, "activation")
  BY <1>1, PositionsAre, MaxIs
<1> QED
  BY <1>2, SamePositions DEF ActiveWorld

LEMMA SameUpTo ==
    ASSUME NEW L, NEW M, NEW T, Grows(L, M, T), NEW n \in 1..Len(L), NEW t
    PROVE  UpTo(Positions(M, t), n) = UpTo(Positions(L, t), n)
<1>1. /\ L \in Seq(Events) /\ M \in Seq(Events) /\ Len(L) \in Nat /\ Len(M) \in Nat
      /\ DOMAIN L = 1..Len(L) /\ DOMAIN M = 1..Len(M) /\ Len(L) <= Len(M)
      /\ \A k \in 1..Len(L) : M[k] = L[k]
  BY DEF Grows
<1>2. ASSUME NEW k
      PROVE  k \in UpTo(Positions(M, t), n) <=> k \in UpTo(Positions(L, t), n)
  <2>1. CASE k \in 1..Len(L)
    BY <1>1, <2>1 DEF UpTo, Positions
  <2>2. CASE k \notin 1..Len(L)
    BY <1>1, <2>2 DEF UpTo, Positions
  <2> QED
    BY <2>1, <2>2
<1> QED
  BY <1>2

LEMMA SameInItsWorld ==
    ASSUME NEW L, NEW M, NEW T, Grows(L, M, T), NEW n \in 1..Len(L)
    PROVE  InItsWorld(M, Positions(M, "activation"), n)
               <=> InItsWorld(L, Positions(L, "activation"), n)
<1>1. {k \in Positions(M, "activation") : k <= n}
          = {k \in Positions(L, "activation") : k <= n}
  BY SameUpTo DEF UpTo
<1>2. M[n] = L[n]
  BY DEF Grows
<1> QED
  BY <1>1, <1>2 DEF InItsWorld

LEMMA ActiveIs ==
    ASSUME InOrder
    PROVE  /\ w0 = Cardinality(Activations)
           /\ \A n \in DOMAIN log \cup {Len(log) + 1} :
                  Active(n) \in 1..w0 /\ (n >= Max(Activations) => Active(n) = w0)
           /\ w0 \in Worlds /\ w0 \in Nat /\ Len(log) \in Nat
           /\ DOMAIN log = 1..Len(log) /\ 1 \in DOMAIN log
           /\ Max(Activations) \in Activations /\ Activations \in SUBSET (1..Len(log))
<1>1. /\ log \in Seq(Events) /\ Len(log) \in Nat /\ DOMAIN log = 1..Len(log)
      /\ Activations \in SUBSET (1..Len(log)) /\ IsFiniteSet(Activations)
      /\ Activations \in SUBSET Int /\ 1 \in Activations
  BY PositionsAre DEF InOrder, Activations
<1> DEFINE x == Max(Activations)
<1>2. x \in Activations /\ \A y \in Activations : y <= x
  BY <1>1, MaxIs
<1> HIDE DEF x
<1>3. ASSUME NEW n \in DOMAIN log \cup {Len(log) + 1}
      PROVE  /\ UpTo(Activations, n) \in SUBSET Activations /\ 1 \in UpTo(Activations, n)
             /\ IsFiniteSet(UpTo(Activations, n))
             /\ n >= x => UpTo(Activations, n) = Activations
  <2>1. UpTo(Activations, n) \in SUBSET Activations
    BY DEF UpTo
  <2>2. 1 \in UpTo(Activations, n)
    BY <1>1 DEF UpTo
  <2>3. ASSUME n >= x
        PROVE  UpTo(Activations, n) = Activations
    <3>1. n \in Int /\ x \in Int
      BY <1>1, <1>2
    <3>2. \A k \in Activations : k <= n
      BY <1>1, <1>2, <2>3, <3>1
    <3> QED
      BY <3>2 DEF UpTo
  <2> QED
    BY <1>1, <2>1, <2>2, <2>3, FS_Subset
<1>4. w0 = Cardinality(Activations)
  <2>1. w0 = log[x].world /\ log[x].world = Cardinality(UpTo(Activations, x))
    BY <1>2 DEF w0, ActiveWorld, InOrder, Active, UpTo, Activations, x
  <2>2. x \in DOMAIN log /\ x >= x
    BY <1>1, <1>2
  <2> QED
    BY <1>3, <2>1, <2>2
<1>5. ASSUME NEW n \in DOMAIN log \cup {Len(log) + 1}
      PROVE  Active(n) \in 1..w0 /\ (n >= x => Active(n) = w0)
  <2>1. Active(n) = Cardinality(UpTo(Activations, n))
    BY DEF Active, UpTo
  <2>2. Cardinality(UpTo(Activations, n)) <= w0 /\ w0 \in Nat
    BY <1>1, <1>3, <1>4, FS_Subset, FS_CardinalityType
  <2>3. Cardinality(UpTo(Activations, n)) \in Nat /\ Cardinality(UpTo(Activations, n)) # 0
    BY <1>3, FS_CardinalityType, FS_EmptySet
  <2> QED
    BY <1>3, <1>4, <2>1, <2>2, <2>3
<1>6. log[x] \in Events /\ w0 = log[x].world
  BY <1>1, <1>2 DEF w0, ActiveWorld, Activations, x
<1>7. w0 \in Worlds
  BY <1>6, EventFields
<1>8. w0 \in Nat
  BY <1>1, <1>4, FS_CardinalityType
<1> QED
  BY <1>1, <1>2, <1>4, <1>5, <1>7, <1>8 DEF x

\* As long as no world is activated.
LEMMA OrderKept ==
    ASSUME InOrder, NEW T, Grows(log, log', T), "activation" \notin T
    PROVE  InOrder' /\ w0' = w0 /\ Activations' = Activations
<1>1. Activations' = Activations /\ \A n \in Activations : log'[n] = log[n]
  BY SamePositions DEF Activations
<1>2. \A n : Active(n)' = Active(n)
  BY <1>1 DEF Active
<1>3. w0' = w0
  BY <1>1, SameActiveWorld DEF w0, InOrder, Activations
<1> QED
  BY <1>1, <1>2, <1>3 DEF InOrder, Grows

-----------------------------------------------------------------------------
(* Second Winds.                                                            *)

\* A started attempt is not started again.
StartsAreNew ==
    \A n \in (Len(log) + 1)..Len(log') :
        log'[n].type = "started" => ~WindStarted(log'[n].attempt)

LEMMA LoggedAre ==
    ASSUME NEW T, Grows(log, log', T), NEW t, NEW a
    PROVE  /\ \A n \in Logged(t, a) : n \in 1..Len(log) /\ n \in Logged(t, a)' /\ log'[n] = log[n]
           /\ t \notin T => Logged(t, a)' = Logged(t, a)
           /\ Logged(t, a) \in SUBSET Int /\ IsFiniteSet(Logged(t, a))
           /\ \A n \in Logged(t, a)' : n \in Logged(t, a) \/ n \in (Len(log) + 1)..Len(log')
<1>1. /\ log \in Seq(Events) /\ log' \in Seq(Events) /\ Len(log) \in Nat /\ Len(log') \in Nat
      /\ DOMAIN log = 1..Len(log) /\ DOMAIN log' = 1..Len(log') /\ Len(log) <= Len(log')
      /\ \A k \in 1..Len(log) : log'[k] = log[k]
  BY DEF Grows
<1>2. \A n \in Logged(t, a) : n \in 1..Len(log) /\ n \in Logged(t, a)' /\ log'[n] = log[n]
  BY <1>1 DEF Logged, Positions
<1>3. t \notin T => Logged(t, a)' = Logged(t, a)
  BY <1>1, SamePositions DEF Logged
<1>4. Logged(t, a) \in SUBSET Positions(log, t)
  BY DEF Logged
<1>5. Logged(t, a) \in SUBSET Int /\ IsFiniteSet(Logged(t, a))
  BY <1>1, <1>4, PositionsAre, FS_Subset
<1>6. \A n \in Logged(t, a)' : n \in Logged(t, a) \/ n \in (Len(log) + 1)..Len(log')
  BY <1>1 DEF Logged, Positions
<1> QED
  BY <1>2, <1>3, <1>5, <1>6

LEMMA StartKept ==
    ASSUME NEW T, Grows(log, log', T), StartsAreNew, NEW a, WindStarted(a)
    PROVE  /\ WindStarted(a)' /\ StartOf(a)' = StartOf(a)
           /\ Max(Logged("started", a)) \in Logged("started", a)
           /\ StartOf(a) \in Events
           /\ StartOf(a).type = "started" /\ StartOf(a).attempt = a
<1>1. ASSUME NEW n \in Logged("started", a)'
      PROVE  n \in Logged("started", a)
  <2>1. CASE n \in (Len(log) + 1)..Len(log')
    BY <1>1, <2>1 DEF StartsAreNew, Logged, Positions
  <2> QED
    BY <1>1, <2>1, LoggedAre
<1>2. Logged("started", a)' = Logged("started", a)
  BY <1>1, LoggedAre
<1>3. Max(Logged("started", a)) \in Logged("started", a)
  BY LoggedAre, MaxIs DEF WindStarted
<1>4. log'[Max(Logged("started", a))] = log[Max(Logged("started", a))]
  BY <1>3, LoggedAre
<1>5. /\ StartOf(a) \in Events
      /\ StartOf(a).type = "started" /\ StartOf(a).attempt = a
  BY <1>3 DEF StartOf, Logged, Positions, Grows
<1> QED
  BY <1>2, <1>3, <1>4, <1>5 DEF StartOf, WindStarted

\* An unfinished Second Wind of a world left stays unfinished.
LEMMA UnfinishedKept ==
    ASSUME NEW T, Grows(log, log', T), StartsAreNew, NEW w, LeftUnfinished(w),
           \A n \in (Len(log) + 1)..Len(log') :
               log'[n].type = "activation" => log'[n].world # w + 1
    PROVE  LeftUnfinished(w)'
<1>1. PICK a \in Attempts :
          /\ WindStarted(a) /\ StartOf(a).world = w
          /\ \A n \in Positions(log, "activation"), r \in Logged("revived", a) :
                 log[n].world = w + 1 => r > n
  BY DEF LeftUnfinished
<1>2. WindStarted(a)' /\ StartOf(a)' = StartOf(a)
  BY <1>1, StartKept
<1>3. /\ log \in Seq(Events) /\ log' \in Seq(Events) /\ Len(log) \in Nat /\ Len(log') \in Nat
      /\ DOMAIN log = 1..Len(log) /\ DOMAIN log' = 1..Len(log') /\ Len(log) <= Len(log')
      /\ \A k \in 1..Len(log) : log'[k] = log[k]
  BY DEF Grows
<1>4. ASSUME NEW n \in Positions(log', "activation"), NEW r \in Logged("revived", a)',
             log'[n].world = w + 1
      PROVE  r > n
  <2>1. n \in 1..Len(log) /\ n \in Positions(log, "activation") /\ log[n].world = w + 1
    BY <1>3, <1>4 DEF Positions
  <2>2. CASE r \in Logged("revived", a)
    BY <1>1, <2>1, <2>2
  <2>3. CASE r \in (Len(log) + 1)..Len(log')
    BY <1>3, <2>1, <2>3
  <2> QED
    BY <2>2, <2>3, LoggedAre
<1> QED
  BY <1>1, <1>2, <1>4 DEF LeftUnfinished

-----------------------------------------------------------------------------
(* The slots planned.                                                       *)

LEMMA SkillsAre ==
    /\ IsFiniteSet(Skills) /\ IsFiniteSet(Procedures)
    /\ \A s \in Skills : s[1] \in Worlds /\ s[2] \in Nat \ {0} /\ s = <<s[1], s[2]>>
    /\ \A p \in Procedures : p[1] \in Skills /\ p[2] \in {"a", "b"} /\ p = <<p[1], p[2]>>
    /\ \A w \in Worlds : \A k \in 1..CoreSkills[w] : <<w, k>> \in Skills
    /\ \A w \in Worlds : CoreSkills[w] \in Nat \ {0}
<1> DEFINE counts == {CoreSkills[v] : v \in Worlds}
           m == Max(counts)
<1>1. /\ NumWorlds \in Nat \ {0} /\ IsFiniteSet(Worlds) /\ 1 \in Worlds
      /\ \A w \in Worlds : CoreSkills[w] \in Nat \ {0}
  BY CampaignAssumption, CountTo DEF Worlds
<1>2. IsFiniteSet(counts) /\ counts \in SUBSET Int /\ counts # {}
  <2>1. CoreSkills \in Surjection(Worlds, counts)
    BY CampaignAssumption DEF Surjection
  <2>2. IsFiniteSet(counts)
    BY <1>1, <2>1, FS_Surjection
  <2> QED
    BY <1>1, <2>2
<1>3. m \in counts /\ \A y \in counts : y <= m
  BY <1>2, MaxIs
<1>4. m \in Nat /\ \A w \in Worlds : CoreSkills[w] <= m
  BY <1>1, <1>3
<1>5. Skills = {<<w, k>> : w \in Worlds, k \in 1..m}
  BY DEF Skills
<1> HIDE DEF m, counts
<1>6. Skills \in SUBSET (Worlds \X (1..m))
  BY <1>5
<1>7. IsFiniteSet(Skills)
  <2>1. IsFiniteSet(1..m)
    BY <1>4, CountTo
  <2>2. IsFiniteSet(Worlds \X (1..m))
    BY <1>1, <2>1, FS_Product
  <2> QED
    BY <1>6, <2>2, FS_Subset
<1>8. IsFiniteSet(Procedures)
  <2>1. IsFiniteSet({"a", "b"})
    <3>1. IsFiniteSet({"a"})
      BY FS_Singleton
    <3>2. IsFiniteSet({"a"} \cup {"b"})
      BY <3>1, FS_AddElement
    <3>3. {"a", "b"} = {"a"} \cup {"b"}
      OBVIOUS
    <3> QED
      BY <3>2, <3>3
  <2> QED
    BY <1>7, <2>1, FS_Product DEF Procedures
<1>9. \A s \in Skills : s[1] \in Worlds /\ s[2] \in Nat \ {0} /\ s = <<s[1], s[2]>>
  BY <1>4, <1>6
<1>10. \A p \in Procedures : p[1] \in Skills /\ p[2] \in {"a", "b"} /\ p = <<p[1], p[2]>>
  BY DEF Procedures
<1>11. ASSUME NEW w \in Worlds, NEW k \in 1..CoreSkills[w]
       PROVE  <<w, k>> \in Skills
  <2>1. k \in 1..m
    BY <1>1, <1>4
  <2> QED
    BY <1>5, <2>1
<1> QED
  BY <1>1, <1>7, <1>8, <1>9, <1>10, <1>11

LEMMA OfAre ==
    ASSUME NEW L \in Seq(Events), NEW s
    PROVE  /\ Of(L, s) \in SUBSET Int /\ IsFiniteSet(Of(L, s))
           /\ Cardinality(Of(L, s)) \in Nat
           /\ \A n \in Of(L, s) : n \in Observed(L) /\ L[n].skill = s
           /\ Of(L, s) # {} => LastSeen(L, s) \in Of(L, s)
<1>1. Of(L, s) \in SUBSET Positions(L, "observation")
  BY DEF Of, Observed
<1>2. Of(L, s) \in SUBSET Int /\ IsFiniteSet(Of(L, s))
  BY <1>1, PositionsAre, FS_Subset
<1>3. Of(L, s) # {} => LastSeen(L, s) \in Of(L, s)
  BY <1>2, MaxIs DEF LastSeen
<1> QED
  BY <1>2, <1>3, FS_CardinalityType DEF Of

\* The orders of plan_slots: by last observation, by number of observations,
\* by number in the world.
OlderThan(L, S) == {p \in S \X S : LastSeen(L, p[1]) < LastSeen(L, p[2])}

LEMMA OlderOrders ==
    ASSUME NEW L \in Seq(Events), NEW S \in SUBSET Seen(L)
    PROVE  Orders(OlderThan(L, S), S)
<1>1. \A s \in S : LastSeen(L, s) \in Int /\ L[LastSeen(L, s)].skill = s
  BY OfAre DEF Seen
<1>2. \A s, t \in S : s # t => LastSeen(L, s) # LastSeen(L, t)
  BY <1>1
<1> QED
  BY <1>1, <1>2 DEF Orders, OlderThan

RarerThan(L, S) ==
    {p \in S \X S : \/ Cardinality(Of(L, p[1])) < Cardinality(Of(L, p[2]))
                    \/ Cardinality(Of(L, p[1])) = Cardinality(Of(L, p[2]))
                       /\ LastSeen(L, p[1]) < LastSeen(L, p[2])}

LEMMA RarerOrders ==
    ASSUME NEW L \in Seq(Events), NEW S \in SUBSET Seen(L)
    PROVE  Orders(RarerThan(L, S), S)
<1> DEFINE c(s) == Cardinality(Of(L, s))
           l(s) == LastSeen(L, s)
<1>1. \A s \in S : c(s) \in Nat /\ l(s) \in Int /\ L[l(s)].skill = s
  BY OfAre DEF Seen
<1>2. \A s, t \in S : s # t => l(s) # l(t)
  BY <1>1
<1>3. \A s, t \in S : <<s, t>> \in RarerThan(L, S) <=> (c(s) < c(t) \/ (c(s) = c(t) /\ l(s) < l(t)))
  BY DEF RarerThan
<1> HIDE DEF c, l
<1> QED
  BY <1>1, <1>2, <1>3 DEF Orders

LowerThan(S) == {p \in S \X S : p[1][2] < p[2][2]}

LEMMA LowerOrders ==
    ASSUME NEW w \in Worlds, NEW S \in SUBSET {<<w, k>> : k \in 1..CoreSkills[w]}
    PROVE  Orders(LowerThan(S), S)
<1>1. \A s \in S : s[2] \in Int /\ s = <<w, s[2]>>
  OBVIOUS
<1>2. \A s, t \in S : <<s, t>> \in LowerThan(S) <=> s[2] < t[2]
  BY DEF LowerThan
<1> QED
  BY <1>1, <1>2 DEF Orders

\* The order of procedures of the same priority.
Earlier(p, q) == \/ p[1][1] < q[1][1]
                 \/ p[1][1] = q[1][1] /\ p[1][2] < q[1][2]
                 \/ p[1] = q[1] /\ p[2] = "a" /\ q[2] = "b"

\* The order of the probes.
UrgentThan(L, S) ==
    {r \in S \X S : \/ Priority(L, r[1]) > Priority(L, r[2])
                    \/ Priority(L, r[1]) = Priority(L, r[2]) /\ Earlier(r[1], r[2])}

LEMMA EarlierOrders ==
    ASSUME NEW p \in Procedures, NEW q \in Procedures, NEW r \in Procedures
    PROVE  /\ ~Earlier(p, p)
           /\ p # q => Earlier(p, q) \/ Earlier(q, p)
           /\ Earlier(p, q) /\ Earlier(q, r) => Earlier(p, r)
<1>1. \A x \in Procedures : /\ x[1][1] \in Int /\ x[1][2] \in Int /\ x[2] \in {"a", "b"}
                            /\ x[1] = <<x[1][1], x[1][2]>> /\ x = <<x[1], x[2]>>
  BY SkillsAre DEF Worlds
<1> QED
  BY <1>1 DEF Earlier

LEMMA UrgentOrders ==
    ASSUME NEW L \in Seq(Events), NEW S \in SUBSET Procedures
    PROVE  Orders(UrgentThan(L, S), S)
<1> DEFINE u(p) == Priority(L, p)
<1>1. ASSUME NEW p
      PROVE  u(p) \in Int
  <2>1. Errors(L, p) \in SUBSET Positions(L, "observation")
        /\ Kept(L, p) \in SUBSET Positions(L, "observation")
    BY DEF Errors, Kept, Observed
  <2>2. IsFiniteSet(Errors(L, p)) /\ IsFiniteSet(Kept(L, p))
    BY <2>1, PositionsAre, FS_Subset
  <2>3. Cardinality(Errors(L, p)) \in Nat /\ Cardinality(Kept(L, p)) \in Nat
    BY <2>2, FS_CardinalityType
  <2> QED
    BY <2>3 DEF Priority
<1>2. \A p, q \in S : <<p, q>> \in UrgentThan(L, S)
                          <=> (u(p) > u(q) \/ (u(p) = u(q) /\ Earlier(p, q)))
  BY DEF UrgentThan
<1> HIDE DEF u
<1>3. \A p \in S : ~Earlier(p, p)
  BY EarlierOrders
<1>4. \A p, q \in S : p # q => Earlier(p, q) \/ Earlier(q, p)
  BY EarlierOrders
<1>5. \A p, q, r \in S : Earlier(p, q) /\ Earlier(q, r) => Earlier(p, r)
  BY EarlierOrders
<1> QED
  BY <1>1, <1>2, <1>3, <1>4, <1>5 DEF Orders

\* A list of the elements of S.
LEMMA ListedIn ==
    ASSUME NEW S, IsFiniteSet(S), NEW R, Orders(R, S)
    PROVE  Listed(R, S) \in Seq(S)
<1>1. Cardinality(S) \in Nat /\ Listed(R, S) \in [1..Cardinality(S) -> S]
  BY ListedIs
<1> QED
  BY <1>1

LEMMA SortedByUrgency ==
    ASSUME NEW L \in Seq(Events), NEW S \in SUBSET Procedures,
           NEW at, at = [k \in 1..Cardinality(S) |-> CHOOSE x \in S :
                             Cardinality({y \in S :
                                 \/ Priority(L, y) > Priority(L, x)
                                 \/ Priority(L, y) = Priority(L, x)
                                    /\ \/ y[1][1] < x[1][1]
                                       \/ y[1][1] = x[1][1] /\ y[1][2] < x[1][2]
                                       \/ y[1] = x[1] /\ y[2] = "a" /\ x[2] = "b"}) = k - 1]
    PROVE  at \in Seq(S)
<1> DEFINE Place(k) == CHOOSE x \in S :
                             Cardinality({y \in S :
                                 \/ Priority(L, y) > Priority(L, x)
                                 \/ Priority(L, y) = Priority(L, x)
                                    /\ \/ y[1][1] < x[1][1]
                                       \/ y[1][1] = x[1][1] /\ y[1][2] < x[1][2]
                                       \/ y[1] = x[1] /\ y[2] = "a" /\ x[2] = "b"}) = k - 1
           Listing(k) == CHOOSE x \in S : Cardinality(Under(UrgentThan(L, S), S, x)) = k - 1
<1>1. ASSUME NEW x \in S
      PROVE  {y \in S : \/ Priority(L, y) > Priority(L, x)
                        \/ Priority(L, y) = Priority(L, x)
                           /\ \/ y[1][1] < x[1][1]
                              \/ y[1][1] = x[1][1] /\ y[1][2] < x[1][2]
                              \/ y[1] = x[1] /\ y[2] = "a" /\ x[2] = "b"}
             = Under(UrgentThan(L, S), S, x)
  BY DEF Under, UrgentThan, Earlier
<1>2. \A k : Place(k) = Listing(k)
  BY <1>1
<1>3. at = [k \in 1..Cardinality(S) |-> Place(k)]
  OBVIOUS
<1>4. Listed(UrgentThan(L, S), S) = [k \in 1..Cardinality(S) |-> Listing(k)]
  BY DEF Listed
<1> HIDE DEF Place, Listing
<1>5. at = Listed(UrgentThan(L, S), S)
  BY <1>2, <1>3, <1>4
<1>6. IsFiniteSet(S)
  BY SkillsAre, FS_Subset
<1> QED
  BY <1>5, <1>6, UrgentOrders, ListedIn

LEMMA SortedByAge ==
    ASSUME NEW L \in Seq(Events), NEW S \in SUBSET Seen(L),
           NEW at, at = [k \in 1..Cardinality(S) |-> CHOOSE x \in S :
                             Cardinality({y \in S : LastSeen(L, y) < LastSeen(L, x)}) = k - 1]
    PROVE  at \in Seq(S)
<1> DEFINE Place(k) == CHOOSE x \in S :
                Cardinality({y \in S : LastSeen(L, y) < LastSeen(L, x)}) = k - 1
           Listing(k) == CHOOSE x \in S : Cardinality(Under(OlderThan(L, S), S, x)) = k - 1
<1>1. ASSUME NEW x \in S
      PROVE  {y \in S : LastSeen(L, y) < LastSeen(L, x)} = Under(OlderThan(L, S), S, x)
  BY DEF Under, OlderThan
<1>2. \A k : Place(k) = Listing(k)
  BY <1>1
<1>3. at = [k \in 1..Cardinality(S) |-> Place(k)]
  OBVIOUS
<1>4. Listed(OlderThan(L, S), S) = [k \in 1..Cardinality(S) |-> Listing(k)]
  BY DEF Listed
<1> HIDE DEF Place, Listing
<1>5. at = Listed(OlderThan(L, S), S)
  BY <1>2, <1>3, <1>4
<1>6. IsFiniteSet(S)
  <2>1. S \in SUBSET Skills
    BY DEF Seen
  <2> QED
    BY <2>1, SkillsAre, FS_Subset
<1> QED
  BY <1>5, <1>6, OlderOrders, ListedIn

LEMMA SortedByCount ==
    ASSUME NEW L \in Seq(Events), NEW S \in SUBSET Seen(L),
           NEW at, at = [k \in 1..Cardinality(S) |-> CHOOSE x \in S :
                             Cardinality({y \in S :
                                 \/ Cardinality(Of(L, y)) < Cardinality(Of(L, x))
                                 \/ Cardinality(Of(L, y)) = Cardinality(Of(L, x))
                                    /\ LastSeen(L, y) < LastSeen(L, x)}) = k - 1]
    PROVE  at \in Seq(S)
<1> DEFINE Place(k) == CHOOSE x \in S :
                             Cardinality({y \in S :
                                 \/ Cardinality(Of(L, y)) < Cardinality(Of(L, x))
                                 \/ Cardinality(Of(L, y)) = Cardinality(Of(L, x))
                                    /\ LastSeen(L, y) < LastSeen(L, x)}) = k - 1
           Listing(k) == CHOOSE x \in S : Cardinality(Under(RarerThan(L, S), S, x)) = k - 1
<1>1. ASSUME NEW x \in S
      PROVE  {y \in S : \/ Cardinality(Of(L, y)) < Cardinality(Of(L, x))
                        \/ Cardinality(Of(L, y)) = Cardinality(Of(L, x))
                           /\ LastSeen(L, y) < LastSeen(L, x)}
             = Under(RarerThan(L, S), S, x)
  BY DEF Under, RarerThan
<1>2. \A k : Place(k) = Listing(k)
  BY <1>1
<1>3. at = [k \in 1..Cardinality(S) |-> Place(k)]
  OBVIOUS
<1>4. Listed(RarerThan(L, S), S) = [k \in 1..Cardinality(S) |-> Listing(k)]
  BY DEF Listed
<1> HIDE DEF Place, Listing
<1>5. at = Listed(RarerThan(L, S), S)
  BY <1>2, <1>3, <1>4
<1>6. IsFiniteSet(S)
  <2>1. S \in SUBSET Skills
    BY DEF Seen
  <2> QED
    BY <2>1, SkillsAre, FS_Subset
<1> QED
  BY <1>5, <1>6, RarerOrders, ListedIn

LEMMA CoreIs ==
    ASSUME NEW w \in Worlds
    PROVE  /\ ToSet(Core(w)) = {<<w, k>> : k \in 1..CoreSkills[w]}
           /\ ToSet(Core(w)) \in SUBSET Skills
           /\ Core(w) \in [1..CoreSkills[w] -> ToSet(Core(w))]
           /\ Len(Core(w)) = CoreSkills[w] /\ CoreSkills[w] \in Nat \ {0}
           /\ Cardinality(ToSet(Core(w))) = CoreSkills[w] /\ IsFiniteSet(ToSet(Core(w)))
<1>1. CoreSkills[w] \in Nat \ {0}
  BY SkillsAre
<1>2. /\ Core(w) = [k \in 1..CoreSkills[w] |-> <<w, k>>]
      /\ ToSet(Core(w)) = {<<w, k>> : k \in 1..CoreSkills[w]}
  BY DEF Core, ToSet
<1>3. ToSet(Core(w)) \in SUBSET Skills
  BY <1>2, SkillsAre
<1>4. Core(w) \in Bijection(1..CoreSkills[w], ToSet(Core(w)))
  BY <1>2 DEF Bijection, Injection, IsInjective, Surjection
<1>5. Cardinality(ToSet(Core(w))) = CoreSkills[w] /\ IsFiniteSet(ToSet(Core(w)))
  <2>1. Cardinality(1..CoreSkills[w]) = CoreSkills[w] /\ IsFiniteSet(1..CoreSkills[w])
    BY <1>1, CountTo
  <2>2. ExistsBijection(1..CoreSkills[w], ToSet(Core(w)))
    BY <1>4 DEF ExistsBijection
  <2> QED
    BY <2>1, <2>2, FS_Bijection
<1>6. Core(w) \in [1..CoreSkills[w] -> ToSet(Core(w))]
  BY <1>2
<1> QED
  BY <1>1, <1>2, <1>3, <1>5, <1>6

LEMMA SortedByNumber ==
    ASSUME NEW w \in Worlds, NEW S \in SUBSET ToSet(Core(w)),
           NEW at, at = [k \in 1..Cardinality(S) |-> CHOOSE x \in S :
                             Cardinality({y \in S : y[2] < x[2]}) = k - 1]
    PROVE  at \in Seq(S)
<1> DEFINE Place(k) == CHOOSE x \in S : Cardinality({y \in S : y[2] < x[2]}) = k - 1
           Listing(k) == CHOOSE x \in S : Cardinality(Under(LowerThan(S), S, x)) = k - 1
<1>1. ASSUME NEW x \in S
      PROVE  {y \in S : y[2] < x[2]} = Under(LowerThan(S), S, x)
  BY DEF Under, LowerThan
<1>2. \A k : Place(k) = Listing(k)
  BY <1>1
<1>3. at = [k \in 1..Cardinality(S) |-> Place(k)]
  OBVIOUS
<1>4. Listed(LowerThan(S), S) = [k \in 1..Cardinality(S) |-> Listing(k)]
  BY DEF Listed
<1> HIDE DEF Place, Listing
<1>5. at = Listed(LowerThan(S), S)
  BY <1>2, <1>3, <1>4
<1>6. IsFiniteSet(S)
  BY CoreIs, FS_Subset
<1>7. S \in SUBSET {<<w, k>> : k \in 1..CoreSkills[w]}
  BY CoreIs
<1> QED
  BY <1>5, <1>6, <1>7, LowerOrders, ListedIn

\* The slots made for a list.
LEMMA SlotsOf ==
    ASSUME NEW w, NEW S, NEW at \in Seq(S), NEW kind \in Kinds,
           \A x \in S : x \in Skills /\ (IF kind \in TransferKinds THEN x[1] <= w
                                                                   ELSE x[1] = w)
    PROVE  [i \in DOMAIN at |-> Slot(kind, at[i], {})] \in Seq(SlotsFor(w))
<1>1. \A i \in DOMAIN at : at[i] \in S
  OBVIOUS
<1>2. \A i \in DOMAIN at : Slot(kind, at[i], {}) \in SlotsFor(w)
  BY <1>1 DEF Slot, SlotsFor, SlotKinds
<1>3. DOMAIN at = 1..Len(at) /\ Len(at) \in Nat
  OBVIOUS
<1> HIDE DEF Slot
<1> DEFINE F(i) == Slot(kind, at[i], {})
<1>4. \A i \in 1..Len(at) : F(i) \in SlotsFor(w)
  BY <1>2, <1>3
<1> HIDE DEF F
<1>5. [i \in 1..Len(at) |-> F(i)] \in Seq(SlotsFor(w))
  BY <1>3, <1>4
<1> QED
  BY <1>3, <1>5 DEF F

LEMMA TransferSlots ==
    ASSUME NEW w, NEW S, NEW at \in Seq(S), NEW kind \in TransferKinds,
           \A x \in S : x \in Skills /\ x[1] <= w
    PROVE  [i \in DOMAIN at |-> Slot(kind, at[i], {})] \in Seq(SlotsFor(w))
<1>1. kind \in Kinds
  BY DEF Kinds
<1> QED
  BY <1>1, SlotsOf

LEMMA OwnSlots ==
    ASSUME NEW w, NEW S, NEW at \in Seq(S), NEW kind \in Kinds \ TransferKinds,
           \A x \in S : x \in Skills /\ x[1] = w
    PROVE  [i \in DOMAIN at |-> Slot(kind, at[i], {})] \in Seq(SlotsFor(w))
BY SlotsOf

LEMMA ConfusedAre ==
    ASSUME NEW L \in Seq(Events)
    PROVE  ConfusedSkills(L) \in Seq(Seen(L))
<1> DEFINE Open(s) == \E h \in {"a", "b"} : ~Resolved(L, <<s, h>>)
           I == {n \in Observed(L) : L[n].mark = "switched" /\ Open(L[n].skill)}
           S == {n \in I : \A m \in I : L[m].skill = L[n].skill => n <= m}
           at == Sorted(S, <)
<1>1. ConfusedSkills(L) = [k \in DOMAIN at |-> L[at[k]].skill]
  BY DEF ConfusedSkills, OrderedUnique
<1>2. S \in SUBSET Observed(L)
  OBVIOUS
<1> HIDE DEF S
<1>3. S \in SUBSET Int /\ IsFiniteSet(S)
  BY <1>2, PositionsAre, FS_Subset DEF Observed
<1>4. at = InPlace(S)
  BY <1>3, SortedInPlace
<1> HIDE DEF at
<1>5. at \in [1..Cardinality(S) -> S] /\ Cardinality(S) \in Nat
  BY <1>3, <1>4, InPlaceIs
<1>6. ASSUME NEW k \in 1..Cardinality(S)
      PROVE  L[at[k]].skill \in Seen(L)
  <2>1. at[k] \in Observed(L)
    BY <1>2, <1>5
  <2>2. L[at[k]] \in Events /\ L[at[k]].type = "observation"
    BY <2>1 DEF Observed, Positions
  <2>3. L[at[k]].skill \in Skills
    BY <2>2, EventFields
  <2>4. at[k] \in Of(L, L[at[k]].skill)
    BY <2>1 DEF Of
  <2> QED
    BY <2>3, <2>4 DEF Seen
<1>7. ConfusedSkills(L) = [k \in 1..Cardinality(S) |-> L[at[k]].skill]
  BY <1>1, <1>5
<1> QED
  BY <1>5, <1>6, <1>7

\* Observations are of the world of their skill, none of a world to come.
LEMMA SeenAre ==
    ASSUME NEW L \in Seq(Events), NEW w \in Nat,
           \A n \in Observed(L) : L[n].skill[1] = L[n].world /\ L[n].world <= w
    PROVE  \A s \in Seen(L) : s \in Skills /\ s[1] <= w
<1> SUFFICES ASSUME NEW s \in Seen(L)
             PROVE  s \in Skills /\ s[1] <= w
  OBVIOUS
<1>1. s \in Skills /\ Of(L, s) # {}
  BY DEF Seen
<1>2. PICK n \in Of(L, s) : TRUE
  BY <1>1
<1>3. n \in Observed(L) /\ L[n].skill = s
  BY DEF Of
<1> QED
  BY <1>1, <1>3

LEMMA ActiveAre ==
    ASSUME NEW L \in Seq(Events)
    PROVE  \A p \in ActiveProcedures(L) : p \in Procedures /\ p[1] \in Seen(L)
<1> SUFFICES ASSUME NEW p \in ActiveProcedures(L)
             PROVE  p \in Procedures /\ p[1] \in Seen(L)
  OBVIOUS
<1>1. p \in Procedures /\ Cardinality(Errors(L, p)) >= 2
  BY DEF ActiveProcedures
<1>2. Errors(L, p) # {}
  <2>1. Errors(L, p) = {} => Cardinality(Errors(L, p)) = 0
    BY FS_EmptySet
  <2> QED
    BY <1>1, <2>1
<1>3. PICK n \in Errors(L, p) : TRUE
  BY <1>2
<1>4. n \in Observed(L) /\ p \in Shown(L[n])
  BY DEF Errors
<1>5. p[1] = L[n].skill
  BY <1>4 DEF Shown
<1>6. p[1] \in Skills
  BY <1>1, SkillsAre
<1>7. n \in Of(L, p[1])
  BY <1>4, <1>5 DEF Of
<1> QED
  BY <1>1, <1>6, <1>7 DEF Seen

LEMMA CandidatesServe ==
    ASSUME NEW L \in Seq(Events), NEW w \in Worlds, w = ActiveWorld(L),
           \A n \in Observed(L) : L[n].skill[1] = L[n].world /\ L[n].world <= w
    PROVE  Candidates(L) \in Seq(SlotsFor(w))
<1> DEFINE here == {s \in Seen(L) : s[1] = w}
           fragile == {s \in here : Fragile(L, s)}
           Ids(p, q) == \/ p[1][1] < q[1][1]
                        \/ p[1][1] = q[1][1] /\ p[1][2] < q[1][2]
                        \/ p[1] = q[1] /\ p[2] = "a" /\ q[2] = "b"
           Urgent(p, q) == \/ Priority(L, p) > Priority(L, q)
                           \/ Priority(L, p) = Priority(L, q) /\ Ids(p, q)
           Older(s, t) == LastSeen(L, s) < LastSeen(L, t)
           Rarer(s, t) == \/ Cardinality(Of(L, s)) < Cardinality(Of(L, t))
                          \/ Cardinality(Of(L, s)) = Cardinality(Of(L, t))
                             /\ Older(s, t)
           Lower(s, t) == s[2] < t[2]
           at1 == Sorted(ActiveProcedures(L), Urgent)
           at2 == ConfusedSkills(L)
           at3 == Sorted(fragile, Older)
           at4 == Sorted(here \ fragile, Rarer)
           at5 == Sorted(Seen(L) \ here, Older)
           at6 == Sorted(ToSet(Core(w)) \ here, Lower)
           probes == [i \in DOMAIN at1 |->
                          Slot("active_misconception_probe", at1[i][1], {at1[i]})]
           tells == [i \in DOMAIN at2 |-> Slot("misconception_discrimination", at2[i],
                                               {<<at2[i], "a">>, <<at2[i], "b">>})]
           mends == [i \in DOMAIN at3 |-> Slot("fragile_skill_transfer", at3[i], {})]
           samples == [i \in DOMAIN at4 |-> Slot("under_sampled_core_skill", at4[i], {})]
           returns == [i \in DOMAIN at5 |-> Slot("spaced_prior_world_transfer", at5[i], {})]
           news == [i \in DOMAIN at6 |-> Slot("novel_current_skill", at6[i], {})]
<1>1. Candidates(L) = probes \o tells \o mends \o samples \o returns \o news
  BY DEF Candidates
<1>2. at1 \in Seq(ActiveProcedures(L))
  <2>1. ActiveProcedures(L) \in SUBSET Procedures
    BY ActiveAre
  <2> QED
    BY <2>1, SortedByUrgency DEF Sorted
<1>3. at2 \in Seq(Seen(L))
  BY ConfusedAre
<1>4. at3 \in Seq(fragile)
  <2>1. fragile \in SUBSET Seen(L)
    OBVIOUS
  <2> HIDE DEF fragile
  <2> QED
    BY <2>1, SortedByAge DEF Sorted
<1>5. at4 \in Seq(here \ fragile)
  <2> DEFINE rest == here \ fragile
  <2>1. rest \in SUBSET Seen(L)
    OBVIOUS
  <2> HIDE DEF rest
  <2>2. Sorted(rest, Rarer) \in Seq(rest)
    BY <2>1, SortedByCount DEF Sorted
  <2> QED
    BY <2>2 DEF rest
<1>6. at5 \in Seq(Seen(L) \ here)
  <2> DEFINE rest == Seen(L) \ here
  <2>1. rest \in SUBSET Seen(L)
    OBVIOUS
  <2> HIDE DEF rest
  <2>2. Sorted(rest, Older) \in Seq(rest)
    BY <2>1, SortedByAge DEF Sorted
  <2> QED
    BY <2>2 DEF rest
<1>7. at6 \in Seq(ToSet(Core(w)) \ here)
  <2> DEFINE rest == ToSet(Core(w)) \ here
  <2>1. rest \in SUBSET ToSet(Core(w))
    OBVIOUS
  <2> HIDE DEF rest
  <2>2. Sorted(rest, Lower) \in Seq(rest)
    BY <2>1, SortedByNumber DEF Sorted
  <2> QED
    BY <2>2 DEF rest
<1>8. /\ \A s \in Seen(L) : s \in Skills /\ s[1] <= w
      /\ \A s \in fragile : s \in Skills /\ s[1] <= w
      /\ \A s \in here \ fragile : s \in Skills /\ s[1] = w
      /\ \A s \in Seen(L) \ here : s \in Skills /\ s[1] <= w
  <2>1. \A s \in Seen(L) : s \in Skills /\ s[1] <= w
    BY SeenAre DEF Worlds
  <2> QED
    BY <2>1
<1>9. \A s \in ToSet(Core(w)) \ here : s \in Skills /\ s[1] = w
  BY CoreIs
<1>10. \A p \in ActiveProcedures(L) : p \in Procedures /\ p[1] \in Skills /\ p[1][1] <= w
  BY <1>8, ActiveAre
<1>11. \A s \in Seen(L) : {<<s, "a">>, <<s, "b">>} \in SUBSET Procedures
  BY <1>8 DEF Procedures
<1> HIDE DEF here, fragile, at1, at2, at3, at4, at5, at6
<1>12. probes \in Seq(SlotsFor(w))
  <2> DEFINE F(i) == Slot("active_misconception_probe", at1[i][1], {at1[i]})
  <2>1. ASSUME NEW i \in 1..Len(at1)
        PROVE  F(i) \in SlotsFor(w)
    <3>1. at1[i] \in ActiveProcedures(L)
      BY <1>2
    <3> QED
      BY <1>10, <3>1 DEF Slot, SlotsFor, SlotKinds, Kinds, TransferKinds
  <2> HIDE DEF F
  <2>2. [i \in 1..Len(at1) |-> F(i)] \in Seq(SlotsFor(w))
    BY <1>2, <2>1
  <2>3. DOMAIN at1 = 1..Len(at1)
    BY <1>2
  <2> QED
    BY <2>2, <2>3 DEF F
<1>13. tells \in Seq(SlotsFor(w))
  <2> DEFINE F(i) == Slot("misconception_discrimination", at2[i],
                          {<<at2[i], "a">>, <<at2[i], "b">>})
  <2>1. ASSUME NEW i \in 1..Len(at2)
        PROVE  F(i) \in SlotsFor(w)
    <3>1. at2[i] \in Seen(L)
      BY <1>3
    <3> QED
      BY <1>8, <1>11, <3>1 DEF Slot, SlotsFor, SlotKinds, Kinds, TransferKinds
  <2> HIDE DEF F
  <2>2. [i \in 1..Len(at2) |-> F(i)] \in Seq(SlotsFor(w))
    BY <1>3, <2>1
  <2>3. DOMAIN at2 = 1..Len(at2)
    BY <1>3
  <2> QED
    BY <2>2, <2>3 DEF F
<1>14. /\ "fragile_skill_transfer" \in TransferKinds
       /\ "spaced_prior_world_transfer" \in TransferKinds
       /\ "under_sampled_core_skill" \in Kinds \ TransferKinds
       /\ "novel_current_skill" \in Kinds \ TransferKinds
  BY DEF Kinds, TransferKinds
<1>15. mends \in Seq(SlotsFor(w))
  BY <1>4, <1>8, <1>14, TransferSlots
<1>16. samples \in Seq(SlotsFor(w))
  BY <1>5, <1>8, <1>14, OwnSlots
<1>17. returns \in Seq(SlotsFor(w))
  BY <1>6, <1>8, <1>14, TransferSlots
<1>18. news \in Seq(SlotsFor(w))
  BY <1>7, <1>9, <1>14, OwnSlots
<1> HIDE DEF probes, tells, mends, samples, returns, news
<1> QED
  BY <1>1, <1>12, <1>13, <1>15, <1>16, <1>17, <1>18

LEMMA PlanServes ==
    ASSUME NEW L \in Seq(Events), NEW w \in Worlds, w = ActiveWorld(L),
           \A n \in Observed(L) : L[n].skill[1] = L[n].world /\ L[n].world <= w,
           NEW n \in Nat
    PROVE  Plan(L, n) \in Seq(SlotsFor(w)) /\ Len(Plan(L, n)) = n
<1> DEFINE core == Core(w)
           first == Candidates(L)
           Fill(i) == LET s == core[((i - Len(first) - 1) % Len(core)) + 1]
                      IN Slot(IF s \in Seen(L) THEN "under_sampled_core_skill"
                              ELSE "novel_current_skill", s, {})
<1>1. Plan(L, n) = [i \in 1..n |-> IF i <= Len(first) THEN first[i] ELSE Fill(i)]
  BY DEF Plan
<1>2. first \in Seq(SlotsFor(w))
  BY CandidatesServe
<1>3. /\ core \in [1..Len(core) -> ToSet(core)] /\ Len(core) \in Nat \ {0}
      /\ \A s \in ToSet(core) : s \in Skills /\ s[1] = w
  BY CoreIs
<1> HIDE DEF core, first
<1>4. ASSUME NEW i \in 1..n, ~(i <= Len(first))
      PROVE  Fill(i) \in SlotsFor(w)
  <2> DEFINE k == ((i - Len(first) - 1) % Len(core)) + 1
             s == core[k]
  <2>1. i - Len(first) - 1 \in Nat
    BY <1>2, <1>4
  <2>2. k \in 1..Len(core)
    BY <1>3, <2>1
  <2> HIDE DEF k
  <2>3. s \in Skills /\ s[1] = w
    BY <1>3, <2>2
  <2> HIDE DEF s
  <2>4. Slot(IF s \in Seen(L) THEN "under_sampled_core_skill"
             ELSE "novel_current_skill", s, {}) \in SlotsFor(w)
    <3>1. PICK kind \in {"under_sampled_core_skill", "novel_current_skill"} :
              kind = IF s \in Seen(L) THEN "under_sampled_core_skill"
                     ELSE "novel_current_skill"
      OBVIOUS
    <3>2. Slot(kind, s, {}) \in SlotsFor(w)
      BY <2>3, <3>1 DEF Slot, SlotsFor, SlotKinds, Kinds, TransferKinds
    <3> QED
      BY <3>1, <3>2
  <2> QED
    BY <2>4 DEF s, k
<1>5. \A i \in 1..n : i <= Len(first) => first[i] \in SlotsFor(w)
  BY <1>2
<1> HIDE DEF Fill
<1> QED
  BY <1>1, <1>4, <1>5

-----------------------------------------------------------------------------
(* What every growth of the log keeps, as long as no world is activated.    *)

\* The positions a step adds.
NewOnes == (Len(log) + 1)..Len(log')

LEMMA GrowsIs ==
    ASSUME NEW T, Grows(log, log', T)
    PROVE  /\ log \in Seq(Events) /\ log' \in Seq(Events)
           /\ Len(log) \in Nat /\ Len(log') \in Nat /\ Len(log) <= Len(log')
           /\ DOMAIN log = 1..Len(log) /\ DOMAIN log' = 1..Len(log')
           /\ \A k \in 1..Len(log) : log'[k] = log[k]
           /\ \A k \in DOMAIN log' : k \in 1..Len(log) \/ k \in NewOnes
           /\ \A k \in NewOnes : k \in DOMAIN log' /\ k > Len(log) /\ log'[k].type \in T
                                 /\ log'[k] \in Events
BY DEF Grows, NewOnes

LEMMA AheadKept ==
    ASSUME InOrder, NoneAhead, NEW T, Grows(log, log', T), "activation" \notin T,
           \A k \in NewOnes : /\ log'[k].world <= w0
                              /\ log'[k].type = "observation" =>
                                     log'[k].skill[1] = log'[k].world
    PROVE  NoneAhead'
<1>1. w0' = w0
  BY OrderKept
<1>2. \A k \in DOMAIN log' : log'[k].world <= w0
  BY GrowsIs DEF NoneAhead
<1>3. ASSUME NEW k \in Observed(log')
      PROVE  log'[k].skill[1] = log'[k].world
  <2>1. k \in DOMAIN log' /\ log'[k].type = "observation"
    BY DEF Observed, Positions
  <2>2. CASE k \in NewOnes
    BY <2>1, <2>2
  <2>3. CASE k \in 1..Len(log)
    <3>1. log'[k] = log[k] /\ k \in DOMAIN log
      BY <2>3, GrowsIs
    <3>2. k \in Observed(log)
      BY <2>1, <3>1 DEF Observed, Positions
    <3> QED
      BY <3>1, <3>2 DEF NoneAhead
  <2> QED
    BY <2>1, <2>2, <2>3, GrowsIs
<1> QED
  BY <1>1, <1>2, <1>3 DEF NoneAhead

\* A new event is of the active world, or a transfer, or of a world left
\* with a Second Wind unfinished.
LEMMA PastKept ==
    ASSUME InOrder, Past, NEW T, Grows(log, log', T), "activation" \notin T,
           StartsAreNew,
           \A k \in NewOnes :
               \/ log'[k].world = w0
               \/ /\ log'[k].type = "observation" /\ log'[k].kind \in TransferKinds
                  /\ log'[k].world <= w0
               \/ \E w \in Worlds : w = log'[k].world /\ w < w0 /\ LeftUnfinished(w)'
    PROVE  Past'
<1>0. InOrder' /\ w0' = w0 /\ Activations' = Activations
  BY OrderKept
<1>1. ASSUME NEW k \in 1..Len(log)
      PROVE  \/ InItsWorld(log', Activations', k)
             \/ \E w \in Worlds : w = log'[k].world /\ w < w0 /\ LeftUnfinished(w)'
  <2>1. k \in DOMAIN log /\ log'[k] = log[k]
    BY GrowsIs
  <2>2. CASE InItsWorld(log, Activations, k)
    BY <2>2, SameInItsWorld DEF Activations
  <2>3. ASSUME NEW w \in Worlds, w = log[k].world, w < w0, LeftUnfinished(w)
        PROVE  LeftUnfinished(w)'
    <3>1. \A n \in (Len(log) + 1)..Len(log') : log'[n].type # "activation"
      BY GrowsIs DEF NewOnes
    <3> QED
      BY <2>3, <3>1, UnfinishedKept
  <2> QED
    BY <2>1, <2>2, <2>3 DEF Past
<1>2. ASSUME NEW k \in NewOnes
      PROVE  \/ InItsWorld(log', Activations', k)
             \/ \E w \in Worlds : w = log'[k].world /\ w < w0 /\ LeftUnfinished(w)'
  <2>1. /\ k \in DOMAIN log' /\ log'[k].world \in Worlds
        /\ k > Len(log) /\ k \in Int /\ log'[k].type \in T
    BY GrowsIs, EventFields DEF NewOnes
  <2>2. /\ Activations \in SUBSET (1..Len(log)) /\ Len(log) \in Nat
        /\ w0 = Cardinality(Activations) /\ w0 \in Nat
    BY ActiveIs
  <2>3. {n \in Activations' : n <= k} = Activations
    <3>1. \A n \in Activations : n <= k
      BY <2>1, <2>2
    <3>2. {n \in Activations : n <= k} = Activations
      BY <3>1
    <3> QED
      BY <1>0, <3>2
  <2>4. Cardinality({n \in Activations' : n <= k}) = w0
    BY <2>2, <2>3
  <2>5. CASE log'[k].world = w0
    <3>1. w0 \in 1..w0
      BY <2>1, <2>2, <2>5 DEF Worlds
    <3> QED
      BY <2>4, <2>5, <3>1 DEF InItsWorld
  <2>6. CASE log'[k].type = "observation" /\ log'[k].kind \in TransferKinds
             /\ log'[k].world <= w0
    <3>1. log'[k].world \in 1..w0
      BY <2>1, <2>2, <2>6 DEF Worlds
    <3> QED
      BY <2>4, <2>6, <3>1 DEF InItsWorld
  <2> QED
    BY <2>5, <2>6
<1>3. \A k \in DOMAIN log' : k \in 1..Len(log) \/ k \in NewOnes
  BY GrowsIs
<1> QED
  BY <1>0, <1>1, <1>2, <1>3 DEF Past

-----------------------------------------------------------------------------
(* How the log grows.                                                       *)

LEMMA NoMore ==
    ASSUME InOrder, log' = log
    PROVE  Grows(log, log', {}) /\ NewOnes = {}
BY DEF InOrder, Grows, NewOnes

LEMMA OneMore ==
    ASSUME InOrder, NEW e \in Events, log' = Append(log, e)
    PROVE  /\ Grows(log, log', {e.type})
           /\ NewOnes = {Len(log) + 1} /\ log'[Len(log) + 1] = e
           /\ \A k \in NewOnes : log'[k] = e
<1>1. log \in Seq(Events)
  BY DEF InOrder
<1>2. /\ log' \in Seq(Events)
      /\ Len(log) \in Nat /\ Len(log') = Len(log) + 1
      /\ \A n \in 1..Len(log) : log'[n] = log[n]
      /\ log'[Len(log) + 1] = e
  BY <1>1, Appended
<1>3. NewOnes = {Len(log) + 1}
  BY <1>2 DEF NewOnes
<1>4. \A n \in (Len(log) + 1)..Len(log') : n = Len(log) + 1
  BY <1>2
<1> QED
  BY <1>1, <1>2, <1>3, <1>4 DEF Grows

\* The reveal logs observations of the batch's slots.
AnswersOf(items) ==
    /\ DOMAIN items = DOMAIN batch.slots
    /\ \A i \in DOMAIN items :
           \E mark \in Marks : items[i] = ObservationOf(batch.slots[i], mark)

LEMMA ObservationsAre ==
    ASSUME NEW v \in Nat, v <= NumWorlds, batch.id \in Nat,
           NEW s \in SlotsFor(v), NEW mark \in Marks
    PROVE  LET o == ObservationOf(s, mark) IN
           /\ o \in Events /\ o.type = "observation" /\ o.skill[1] = o.world
           /\ o.world <= v
           /\ o.kind \in TransferKinds \/ o.world = v
<1>1. /\ s \in SlotKinds
      /\ IF s.kind \in TransferKinds THEN s.skill[1] <= v ELSE s.skill[1] = v
  BY DEF SlotsFor
<1>2. s.kind \in Kinds /\ s.skill \in Skills /\ s.targets \in SUBSET Procedures
  BY <1>1 DEF SlotKinds
<1>3. s.skill[1] \in Worlds /\ NumWorlds \in Nat
  BY <1>2, SkillsAre, CampaignAssumption
<1> DEFINE o == ObservationOf(s, mark)
<1>4. /\ o = [type |-> "observation", world |-> s.skill[1], skill |-> s.skill,
              kind |-> s.kind, targets |-> s.targets, batch |-> batch.id,
              mark |-> mark]
  BY DEF ObservationOf
<1> HIDE DEF o
<1>5. o \in Events
  <2>1. o \in [type : {"observation"}, world : Worlds, skill : Skills, kind : Kinds,
                targets : SUBSET Procedures, batch : Nat, mark : Marks]
    BY <1>2, <1>3, <1>4
  <2> QED
    BY <2>1 DEF Events
<1>6. s.skill[1] <= v
  BY <1>1, <1>3 DEF Worlds
<1> QED
  BY <1>1, <1>4, <1>5, <1>6 DEF o

LEMMA Joined ==
    ASSUME NEW L \in Seq(Events), NEW M \in Seq(Events)
    PROVE  /\ L \o M \in Seq(Events) /\ Len(L \o M) = Len(L) + Len(M)
           /\ \A k \in 1..Len(L) : (L \o M)[k] = L[k]
           /\ \A k \in (Len(L) + 1)..(Len(L) + Len(M)) : (L \o M)[k] = M[k - Len(L)]
OBVIOUS

LEMMA ManyMore ==
    ASSUME InOrder, NEW v \in Nat, v <= NumWorlds, batch.id \in Nat,
           batch.slots \in Seq(SlotsFor(v)),
           NEW items, AnswersOf(items),
           DOMAIN items = 1..Len(batch.slots), items = [i \in DOMAIN items |-> items[i]],
           log' = log \o items
    PROVE  /\ Grows(log, log', {"observation"})
           /\ items \in Seq(Events) /\ Len(items) = Len(batch.slots)
           /\ \A k \in NewOnes : /\ log'[k].type = "observation"
                                 /\ log'[k].skill[1] = log'[k].world
                                 /\ log'[k].world <= v
                                 /\ log'[k].kind \in TransferKinds \/ log'[k].world = v
<1> DEFINE Fits(o) == /\ o \in Events /\ o.type = "observation" /\ o.skill[1] = o.world
                      /\ o.world <= v
                      /\ o.kind \in TransferKinds \/ o.world = v
           n == Len(batch.slots)
<1>1. n \in Nat /\ \A i \in 1..n : batch.slots[i] \in SlotsFor(v)
  OBVIOUS
<1>2. \A i \in 1..n : Fits(items[i])
  <2> SUFFICES ASSUME NEW i \in 1..n
               PROVE  Fits(items[i])
    OBVIOUS
  <2>1. PICK mark \in Marks : items[i] = ObservationOf(batch.slots[i], mark)
    BY DEF AnswersOf
  <2> QED
    BY <1>1, <2>1, ObservationsAre
<1> HIDE DEF n
<1>3. items \in Seq(Events) /\ Len(items) = n
  <2>1. \A i \in 1..n : items[i] \in Events
    BY <1>2
  <2>2. items = [i \in 1..n |-> items[i]]
    BY DEF n
  <2>3. [i \in 1..n |-> items[i]] \in Seq(Events) /\ Len([i \in 1..n |-> items[i]]) = n
    BY <1>1, <2>1
  <2> QED
    BY <2>2, <2>3
<1>4. /\ log \in Seq(Events) /\ Len(log) \in Nat
  BY DEF InOrder
<1>5. /\ log' \in Seq(Events) /\ Len(log') = Len(log) + n
      /\ \A k \in 1..Len(log) : log'[k] = log[k]
      /\ \A k \in (Len(log) + 1)..Len(log') : log'[k] = items[k - Len(log)]
  <2>1. /\ log \o items \in Seq(Events) /\ Len(log \o items) = Len(log) + Len(items)
        /\ \A k \in 1..Len(log) : (log \o items)[k] = log[k]
        /\ \A k \in (Len(log) + 1)..(Len(log) + Len(items)) :
               (log \o items)[k] = items[k - Len(log)]
    BY <1>3, <1>4, Joined
  <2> QED
    BY <1>3, <2>1
<1>6. ASSUME NEW k \in (Len(log) + 1)..Len(log')
      PROVE  Fits(log'[k])
  <2>1. k - Len(log) \in 1..n
    BY <1>1, <1>4, <1>5
  <2> QED
    BY <1>2, <1>5, <2>1
<1>7. Grows(log, log', {"observation"})
  BY <1>1, <1>4, <1>5, <1>6 DEF Grows
<1> QED
  BY <1>3, <1>6, <1>7 DEF NewOnes, n

-----------------------------------------------------------------------------
(* Battles, Second Winds and live batches as the log grows.                 *)

LEMMA LeadInsAre == /\ Len(LeadInItems) \in Nat /\ Boss = Len(LeadInItems) + 1
                    /\ \A b \in 1..Len(LeadInItems) : LeadInItems[b] \in Nat \ {0}
BY CampaignAssumption DEF Boss

\* m lead-in battles of the active world are won.
WonFirst(m) == m \in 0..Len(LeadInItems) /\ Wins(log, w0) = FirstOnes(m)

LEMMA BattleIs ==
    ASSUME NEW m, WonFirst(m)
    PROVE  /\ m \in Nat /\ Len(Wins(log, w0)) = m /\ CurrentBattle = m + 1
           /\ CurrentBattle \in 1..Boss
           /\ WonSoFar
<1>1. m \in Nat /\ m \in 0..Len(LeadInItems) /\ Wins(log, w0) = FirstOnes(m)
  BY LeadInsAre DEF WonFirst
<1>2. Len(FirstOnes(m)) = m
  BY <1>1 DEF FirstOnes
<1>3. WonSoFar
  BY <1>1 DEF WonSoFar, FirstOnes
<1>4. Len(Wins(log, w0)) = m
  BY <1>1, <1>2
<1> QED
  BY <1>1, <1>3, <1>4, LeadInsAre DEF CurrentBattle

LEMMA SomeWon ==
    ASSUME WonSoFar
    PROVE  \E m \in 0..Len(LeadInItems) : WonFirst(m)
BY DEF WonSoFar, WonFirst, FirstOnes

\* The same of the next state.
LEMMA NextBattleIs ==
    ASSUME NEW m \in 0..Len(LeadInItems), Wins(log, w0)' = FirstOnes(m)
    PROVE  /\ CurrentBattle' = m + 1 /\ CurrentBattle' \in 1..Boss
           /\ WonSoFar'
<1>1. m \in Nat
  BY LeadInsAre
<1>2. Len(FirstOnes(m)) = m
  BY <1>1 DEF FirstOnes
<1>3. WonSoFar'
  BY DEF WonSoFar, FirstOnes
<1>4. Len(Wins(log, w0)') = m
  BY <1>2
<1>5. CurrentBattle' = m + 1
  BY <1>4 DEF CurrentBattle
<1> QED
  BY <1>1, <1>3, <1>5, LeadInsAre

LEMMA WonKept ==
    ASSUME InOrder, WonSoFar, NEW T, Grows(log, log', T), "activation" \notin T,
           "completion" \notin T, "revived" \notin T
    PROVE  WonSoFar' /\ CurrentBattle' = CurrentBattle
<1>1. PICK m \in 0..Len(LeadInItems) : WonFirst(m)
  BY SomeWon
<1>2. CurrentBattle = m + 1 /\ Wins(log, w0) = FirstOnes(m)
  BY <1>1, BattleIs DEF WonFirst
<1>3. w0' = w0
  BY OrderKept
<1>4. Wins(log', w0) = Wins(log, w0)
  BY SameWins
<1>5. Wins(log, w0)' = FirstOnes(m)
  BY <1>2, <1>3, <1>4
<1> QED
  BY <1>2, <1>5, NextBattleIs

\* New events of a Second Wind follow what they need.
WindsFollow ==
    \A k \in NewOnes :
        LET e == log'[k] IN
        /\ e.type = "started" =>
               /\ e.battle < Boss
               /\ e.world = w0' => e.battle <= CurrentBattle'
        /\ e.type = "wind_quiz" => WindStarted(e.attempt)
        /\ e.type = "revived" => Logged("wind_quiz", e.attempt) # {}

LEMMA WindsKept ==
    ASSUME WindsInOrder, NEW T, Grows(log, log', T), StartsAreNew, WindsFollow,
           \A n \in Positions(log, "started") :
               log[n].world = w0' => log[n].battle <= CurrentBattle'
    PROVE  WindsInOrder'
<1>1. ASSUME NEW n \in Positions(log', "started")
      PROVE  /\ log'[n].battle < Boss
             /\ log'[n].world = w0' => log'[n].battle <= CurrentBattle'
  <2>1. n \in DOMAIN log' /\ log'[n].type = "started"
    BY DEF Positions
  <2>2. CASE n \in NewOnes
    BY <2>1, <2>2 DEF WindsFollow
  <2>3. CASE n \in 1..Len(log)
    <3>1. log'[n] = log[n] /\ n \in DOMAIN log
      BY <2>3, GrowsIs
    <3>2. n \in Positions(log, "started")
      BY <2>1, <3>1 DEF Positions
    <3> QED
      BY <3>1, <3>2 DEF WindsInOrder
  <2> QED
    BY <2>1, <2>2, <2>3, GrowsIs
<1>2. ASSUME NEW n \in Positions(log', "wind_quiz"), NEW a, a = log'[n].attempt
      PROVE  WindStarted(a)'
  <2>1. n \in DOMAIN log' /\ log'[n].type = "wind_quiz"
    BY DEF Positions
  <2>2. WindStarted(a)
    <3>1. CASE n \in NewOnes
      BY <1>2, <2>1, <3>1 DEF WindsFollow
    <3>2. CASE n \in 1..Len(log)
      <4>1. log'[n] = log[n] /\ n \in DOMAIN log
        BY <3>2, GrowsIs
      <4>2. n \in Positions(log, "wind_quiz")
        BY <2>1, <4>1 DEF Positions
      <4> QED
        BY <1>2, <4>1, <4>2 DEF WindsInOrder
    <3> QED
      BY <2>1, <3>1, <3>2, GrowsIs
  <2> QED
    BY <2>2, StartKept
<1>3. ASSUME NEW n \in Positions(log', "revived"), NEW a, a = log'[n].attempt
      PROVE  Logged("wind_quiz", a)' # {}
  <2>1. n \in DOMAIN log' /\ log'[n].type = "revived"
    BY DEF Positions
  <2>2. Logged("wind_quiz", a) # {}
    <3>1. CASE n \in NewOnes
      BY <1>3, <2>1, <3>1 DEF WindsFollow
    <3>2. CASE n \in 1..Len(log)
      <4>1. log'[n] = log[n] /\ n \in DOMAIN log
        BY <3>2, GrowsIs
      <4>2. n \in Positions(log, "revived")
        BY <2>1, <4>1 DEF Positions
      <4> QED
        BY <1>3, <4>1, <4>2 DEF WindsInOrder
    <3> QED
      BY <2>1, <3>1, <3>2, GrowsIs
  <2> QED
    BY <2>2, LoggedAre
<1>4. \A n \in Positions(log', "wind_quiz") : \E a : a = log'[n].attempt /\ WindStarted(a)'
  BY <1>2
<1>5. \A n \in Positions(log', "revived") :
          \E a : a = log'[n].attempt /\ Logged("wind_quiz", a)' # {}
  BY <1>3
<1> QED
  BY <1>1, <1>4, <1>5 DEF WindsInOrder, WindStarted, Logged

\* A live batch keeps its purpose while no event settles it.
LEMMA ServesKept ==
    ASSUME InOrder, Serves, NEW T, Grows(log, log', T), "activation" \notin T,
           "boss" \notin T, "seal" \notin T, "assisted" \notin T, "wind_quiz" \notin T,
           StartsAreNew,
           CurrentBattle \in Int, CurrentBattle' \in Int, CurrentBattle <= CurrentBattle',
           batch' # NoBatch => /\ batch # NoBatch /\ batch.number \in Int
                               /\ batch'.slots = batch.slots
                               /\ batch'.purpose = batch.purpose
                               /\ batch'.world = batch.world
                               /\ batch'.number = batch.number
    PROVE  Serves'
<1> SUFFICES ASSUME batch' # NoBatch
             PROVE  /\ batch'.slots \in Seq(SlotsFor(batch'.world))
                    /\ \/ /\ batch'.purpose = "battle"
                          /\ batch'.world = w0'
                          /\ batch'.number <= CurrentBattle'
                          /\ BossEvents(log', w0') = {}
                       \/ /\ batch'.purpose = "seal"
                          /\ batch'.world = w0'
                          /\ TrialRequired(log', w0')
                          /\ batch'.number = Missed(log', w0') + 1
                       \/ /\ batch'.purpose = "wind"
                          /\ batch'.number \in Attempts
                          /\ \E a \in Attempts :
                                /\ a = batch'.number
                                /\ WindStarted(a)'
                                /\ Logged("wind_quiz", a)' = {}
                                /\ StartOf(a)'.world = batch'.world
  BY DEF Serves, WindStarted, StartOf, Logged
<1>1. /\ batch # NoBatch /\ batch.number \in Int
      /\ batch'.slots = batch.slots
      /\ batch'.purpose = batch.purpose
      /\ batch'.world = batch.world
      /\ batch'.number = batch.number
  OBVIOUS
<1>2. w0' = w0
  BY OrderKept
<1>3. /\ BossEvents(log', w0) = BossEvents(log, w0)
      /\ Missed(log', w0) = Missed(log, w0)
      /\ TrialRequired(log', w0) = TrialRequired(log, w0)
  BY SameClearance
<1>4. batch'.slots \in Seq(SlotsFor(batch'.world))
  BY <1>1 DEF Serves
<1>5. CASE batch.purpose = "battle"
  BY <1>1, <1>2, <1>3, <1>4, <1>5 DEF Serves
<1>6. CASE batch.purpose = "seal"
  BY <1>1, <1>2, <1>3, <1>4, <1>6 DEF Serves
<1>7. CASE batch.purpose = "wind"
  <2>1. PICK a \in Attempts : a = batch.number
    BY <1>1, <1>7 DEF Serves
  <2>2. WindStarted(a) /\ Logged("wind_quiz", a) = {} /\ StartOf(a).world = batch.world
    BY <1>1, <1>7, <2>1 DEF Serves
  <2>3. WindStarted(a)' /\ StartOf(a)' = StartOf(a)
    BY <2>2, StartKept
  <2>4. Logged("wind_quiz", a)' = {}
    BY <2>2, LoggedAre
  <2> QED
    BY <1>1, <1>4, <1>7, <2>1, <2>2, <2>3, <2>4
<1> QED
  BY <1>1, <1>5, <1>6, <1>7 DEF Serves

\* So does a live route.
LEMMA RouteKept ==
    ASSUME InOrder, RouteServes, NEW T, Grows(log, log', T), "activation" \notin T,
           "boss" \notin T, "seal" \notin T, "assisted" \notin T,
           route' = route
    PROVE  RouteServes'
<1>1. w0' = w0
  BY OrderKept
<1>2. RouteUnlocked(log', w0) = RouteUnlocked(log, w0)
  BY SameClearance
<1> QED
  BY <1>1, <1>2 DEF RouteServes

-----------------------------------------------------------------------------
(* The answers.                                                             *)

\* The n-th event's answer passes.
Passes(n) == /\ ReplyAccepted(n)
             /\ log[n].type = "seal" => BossEvents(Upto(n), log[n].world) # {}

LEMMA SamePrefix ==
    ASSUME NEW T, Grows(log, log', T), NEW n \in DOMAIN log
    PROVE  /\ SubSeq(log', 1, n) = SubSeq(log, 1, n)
           /\ SubSeq(log', 1, n - 1) = SubSeq(log, 1, n - 1)
           /\ log'[n] = log[n] /\ n \in DOMAIN log'
<1>1. /\ Len(log) \in Nat /\ Len(log') \in Nat /\ Len(log) <= Len(log')
      /\ DOMAIN log = 1..Len(log) /\ DOMAIN log' = 1..Len(log')
      /\ \A k \in 1..Len(log) : log'[k] = log[k]
      /\ log \in Seq(Events) /\ log' \in Seq(Events)
  BY GrowsIs
<1>2. SubSeq(log', 1, n) = SubSeq(log, 1, n)
  BY <1>1
<1>3. SubSeq(log', 1, n - 1) = SubSeq(log, 1, n - 1)
  BY <1>1
<1> QED
  BY <1>1, <1>2, <1>3

LEMMA SameReply ==
    ASSUME NEW T, Grows(log, log', T), NEW n \in DOMAIN log, Passes(n)
    PROVE  Passes(n)'
<1>1. /\ SubSeq(log', 1, n) = SubSeq(log, 1, n)
      /\ SubSeq(log', 1, n - 1) = SubSeq(log, 1, n - 1)
      /\ log'[n] = log[n]
  BY SamePrefix
<1>2. Upto(n)' = Upto(n) /\ Upto(n - 1)' = Upto(n - 1)
  BY <1>1 DEF Upto
<1>3. /\ BattleReply(n)' = BattleReply(n)
      /\ SealReply(n)' = SealReply(n)
      /\ AssistedReply(n)' = AssistedReply(n)
      /\ RevivedReply(n)' = RevivedReply(n)
      /\ ActivationReply(n)' = ActivationReply(n)
  BY <1>1, <1>2 DEF BattleReply, SealReply, AssistedReply, RevivedReply, ActivationReply
<1>4. ReplyAccepted(n)' = ReplyAccepted(n)
  BY <1>1, <1>3 DEF ReplyAccepted, BattleCompletedHolds, BattleMaps, SealTrialCompletedHolds,
     AssistedRouteCompletedHolds, RevivedCombatCompletedHolds, WorldActivatedHolds
<1> QED
  BY <1>1, <1>2, <1>4 DEF Passes

LEMMA AnsweredKept ==
    ASSUME Answered, NEW T, Grows(log, log', T), \A k \in NewOnes : Passes(k)'
    PROVE  Answered'
<1>1. \A n \in DOMAIN log : Passes(n)
  BY DEF Answered, Passes
<1>2. \A n \in DOMAIN log' : Passes(n)'
  BY <1>1, SameReply, GrowsIs
<1> QED
  BY <1>2 DEF Answered, Passes

\* Nothing is asked of the answers to these events.
LEMMA NoReply ==
    ASSUME NEW T, Grows(log, log', T), NEW k \in NewOnes,
           log'[k].type \in {"observation", "started", "wind_quiz", "revived"}
    PROVE  Passes(k)'
<1>1. CASE log'[k].type = "revived"
  <2>1. RevivedReply(k)' = [won |-> log'[k].won, completed |-> log'[k].won, closed |-> TRUE]
    BY DEF RevivedReply
  <2>2. RevivedCombatCompletedHolds(RevivedReply(k))'
    BY <2>1 DEF RevivedCombatCompletedHolds
  <2>3. ReplyAccepted(k)'
    BY <1>1, <2>2 DEF ReplyAccepted
  <2> QED
    BY <1>1, <2>3 DEF Passes
<1>2. CASE log'[k].type # "revived"
  <2>1. ReplyAccepted(k)'
    BY <1>2 DEF ReplyAccepted
  <2> QED
    BY <1>2, <2>1 DEF Passes
<1> QED
  BY <1>1, <1>2

\* The answer to a new event is of the whole log.
LEMMA UptoIs ==
    ASSUME InOrder, NEW e \in Events, log' = Append(log, e), NEW n, n = Len(log) + 1
    PROVE  /\ Upto(n)' = log' /\ Upto(n - 1)' = log
           /\ log'[n] = e /\ n \in DOMAIN log' /\ n \in Nat
<1>1. /\ log \in Seq(Events) /\ Len(log) \in Nat /\ Len(log') = Len(log) + 1
      /\ log' \in Seq(Events) /\ log'[Len(log) + 1] = e
      /\ \A k \in 1..Len(log) : log'[k] = log[k]
  BY Appended DEF InOrder
<1>2. SubSeq(log', 1, n) = log'
  BY <1>1
<1>3. SubSeq(log', 1, Len(log)) = log
  BY <1>1
<1>4. SubSeq(log', 1, n - 1) = log
  BY <1>1, <1>3
<1>5. Upto(n)' = log'
  BY <1>2 DEF Upto
<1>6. Upto(n - 1)' = log
  BY <1>4 DEF Upto
<1>7. log'[n] = e /\ n \in DOMAIN log' /\ n \in Nat
  BY <1>1
<1> QED
  BY <1>5, <1>6, <1>7

LEMMA SameBosses ==
    ASSUME NEW L, NEW M, NEW T, Grows(L, M, T), NEW w, "boss" \notin T
    PROVE  BossEvents(M, w) = BossEvents(L, w)
BY SamePositions DEF BossEvents

LEMMA SameAssisted ==
    ASSUME NEW L, NEW M, NEW T, Grows(L, M, T), "assisted" \notin T
    PROVE  /\ Positions(M, "assisted") = Positions(L, "assisted")
           /\ \A k \in Positions(L, "assisted") : M[k] = L[k]
BY SamePositions

LEMMA CompletionPasses ==
    ASSUME InOrder, NEW e \in Events, log' = Append(log, e),
           NEW n, n = Len(log) + 1, e.type = "completion",
           BossEvents(log, e.world) = {}
    PROVE  Passes(n)'
<1>1. Upto(n)' = log' /\ log'[n] = e
  BY UptoIs
<1>0. Grows(log, log', {e.type})
  BY OneMore
<1>2. BossEvents(log', e.world) = {}
  BY <1>0, SameClearance
<1>3. PICK c \in BOOLEAN : c = Cleared(log', e.world)
  BY DEF Cleared
<1>4. PICK r \in BOOLEAN : r = TrialRequired(log', e.world)
  BY DEF TrialRequired
<1>8. ~c /\ ~r
  BY <1>2, <1>3, <1>4 DEF Cleared, TrialRequired
<1>5. BattleReply(n)' = [boss |-> FALSE, cleared |-> c, sealRequired |-> r]
  BY <1>1, <1>3, <1>4 DEF BattleReply
<1>6. BattleCompletedHolds(BattleReply(n))' /\ BattleMaps(BattleReply(n))'
  BY <1>5, <1>8 DEF BattleCompletedHolds, BattleMaps
<1>7. ReplyAccepted(n)'
  BY <1>1, <1>6 DEF ReplyAccepted
<1> QED
  BY <1>1, <1>7 DEF Passes

LEMMA BossPasses ==
    ASSUME InOrder, NEW e \in Events, log' = Append(log, e),
           NEW n, n = Len(log) + 1, e.type = "boss"
    PROVE  Passes(n)' /\ BossEvents(log', e.world) # {}
<1>1. Upto(n)' = log' /\ log'[n] = e /\ n \in DOMAIN log'
  BY UptoIs
<1>2. n \in BossEvents(log', e.world)
  BY <1>1 DEF BossEvents, Positions
<1>3. PICK c \in BOOLEAN : c = Cleared(log', e.world)
  BY DEF Cleared
<1>4. TrialRequired(log', e.world) = ~c
  BY <1>2, <1>3 DEF TrialRequired
<1>5. BattleReply(n)' = [boss |-> TRUE, cleared |-> c, sealRequired |-> ~c]
  BY <1>1, <1>3, <1>4 DEF BattleReply
<1>6. BattleCompletedHolds(BattleReply(n))' /\ BattleMaps(BattleReply(n))'
  <2>1. /\ BattleReply(n)'.boss = TRUE /\ BattleReply(n)'.cleared = c
        /\ BattleReply(n)'.sealRequired = ~c
    BY <1>5
  <2>2. CASE c
    BY <2>1, <2>2 DEF BattleCompletedHolds, BattleMaps
  <2>3. CASE ~c
    BY <2>1, <2>3 DEF BattleCompletedHolds, BattleMaps
  <2> QED
    BY <2>2, <2>3
<1>7. ReplyAccepted(n)'
  BY <1>1, <1>6 DEF ReplyAccepted
<1> QED
  BY <1>1, <1>2, <1>7 DEF Passes

LEMMA AssistedPasses ==
    ASSUME InOrder, NEW e \in Events, log' = Append(log, e),
           NEW n, n = Len(log) + 1, e.type = "assisted",
           BossEvents(log, e.world) # {}
    PROVE  Passes(n)' /\ Cleared(log', e.world)
<1>1. /\ Upto(n)' = log' /\ log'[n] = e /\ n \in DOMAIN log'
      /\ log \in Seq(Events) /\ Len(log) \in Nat /\ n > Len(log)
  BY UptoIs, Appended DEF InOrder
<1>2. \A b \in BossEvents(log, e.world) : b \in 1..Len(log)
  BY <1>1 DEF BossEvents, Positions
<1>3. \A b \in BossEvents(log, e.world) : n > b
  BY <1>1, <1>2
<1>4. BossEvents(log', e.world) = BossEvents(log, e.world)
  <2>1. Grows(log, log', {e.type})
    BY OneMore
  <2>2. "boss" \notin {e.type}
    OBVIOUS
  <2> QED
    BY <2>1, <2>2, SameBosses
<1>5. Assisted(log', e.world)
  BY <1>1, <1>3, <1>4 DEF Assisted, Positions
<1>6. Cleared(log', e.world)
  BY <1>4, <1>5 DEF Cleared
<1>7. ~RouteUnlocked(log', e.world)
  BY <1>6 DEF RouteUnlocked, TrialRequired
<1>8. AssistedReply(n)' = [cleared |-> TRUE, sound |-> TRUE]
  BY <1>1, <1>6, <1>7 DEF AssistedReply
<1>9. AssistedRouteCompletedHolds(AssistedReply(n))'
  BY <1>8 DEF AssistedRouteCompletedHolds
<1>10. ReplyAccepted(n)'
  BY <1>1, <1>9 DEF ReplyAccepted
<1> QED
  BY <1>1, <1>6, <1>10 DEF Passes

LEMMA ActivationPasses ==
    ASSUME InOrder, NEW e \in Events, log' = Append(log, e),
           NEW n, n = Len(log) + 1, e.type = "activation",
           e.world = w0 + 1, w0 < NumWorlds
    PROVE  Passes(n)'
<1>1. Upto(n - 1)' = log /\ log'[n] = e /\ Len(log) \in Nat /\ n > 1
  <2>1. 1 \in 1..Len(log) /\ Len(log) \in Nat
    BY ActiveIs
  <2> QED
    BY <2>1, UptoIs
<1>2. w0 \in Nat /\ w0 \in Worlds /\ NumWorlds \in Nat
  BY ActiveIs, CampaignAssumption
<1>3. ActivationReply(n)' = [completed |-> w0, active |-> w0 + 1, sequence |-> w0 + 1]
  BY <1>1 DEF ActivationReply, w0
<1>4. w0 + 1 \in 2..NumWorlds /\ w0 + 1 # w0
  BY <1>2 DEF Worlds
<1>5. WorldActivatedHolds(ActivationReply(n))'
  BY <1>3, <1>4 DEF WorldActivatedHolds
<1>6. ReplyAccepted(n)'
  BY <1>1, <1>5 DEF ReplyAccepted
<1> QED
  BY <1>1, <1>6 DEF Passes

\* One more trial settles the clearance.
LEMMA TrialPasses ==
    ASSUME InOrder, NEW e \in Events, log' = Append(log, e),
           NEW n, n = Len(log) + 1, e.type = "seal", TrialRequired(log, e.world)
    PROVE  Passes(n)'
<1>0. e.passed \in BOOLEAN /\ e.attempt \in Nat \ {0}
  BY EventFields
<1>1. /\ Upto(n)' = log' /\ log'[n] = e /\ n \in DOMAIN log'
      /\ log \in Seq(Events) /\ Len(log) \in Nat /\ n > Len(log)
      /\ DOMAIN log = 1..Len(log) /\ DOMAIN log' = 1..n
      /\ \A k \in 1..Len(log) : log'[k] = log[k]
  BY UptoIs, Appended DEF InOrder
<1>2. Grows(log, log', {e.type}) /\ "boss" \notin {e.type} /\ "assisted" \notin {e.type}
  BY OneMore
<1>3. BossEvents(log', e.world) = BossEvents(log, e.world)
  BY <1>2, SameBosses
<1>4. BossEvents(log, e.world) # {} /\ ~Cleared(log, e.world)
  BY DEF TrialRequired
<1>5. \A b \in BossEvents(log, e.world) : b \in 1..Len(log) /\ n > b /\ log'[b] = log[b]
  BY <1>1 DEF BossEvents, Positions
<1>6. n \in Trials(log', e.world)
  BY <1>1, <1>3, <1>5 DEF Trials, Positions
<1>7. ASSUME NEW k \in Trials(log', e.world), k # n
      PROVE  k \in Trials(log, e.world) /\ log'[k] = log[k]
  <2>1. /\ k \in 1..n /\ log'[k].type = "seal" /\ log'[k].world = e.world
        /\ \A b \in BossEvents(log', e.world) : k > b
    BY <1>1 DEF Trials, Positions
  <2>2. k \in 1..Len(log)
    BY <1>1, <1>7, <2>1
  <2> QED
    BY <1>1, <1>3, <2>1, <2>2 DEF Trials, Positions
<1>8. Assisted(log', e.world) = Assisted(log, e.world)
  <2>1. /\ Positions(log', "assisted") = Positions(log, "assisted")
        /\ \A k \in Positions(log, "assisted") : log'[k] = log[k]
    BY <1>2, SameAssisted
  <2> QED
    BY <1>3, <2>1 DEF Assisted
<1>9. /\ ~(log[Max(BossEvents(log, e.world))].score >= PassMark(e.world))
      /\ \A k \in Trials(log, e.world) : ~log[k].passed
      /\ ~Assisted(log, e.world)
  BY <1>4 DEF Cleared
<1>10. log'[Max(BossEvents(log, e.world))] = log[Max(BossEvents(log, e.world))]
  <2>1. BossEvents(log, e.world) \in SUBSET Positions(log, "boss")
    BY DEF BossEvents
  <2>2. BossEvents(log, e.world) \in SUBSET Int /\ IsFiniteSet(BossEvents(log, e.world))
    BY <1>1, <2>1, PositionsAre, FS_Subset
  <2> QED
    BY <1>4, <1>5, <2>2, MaxIs
<1>11. PICK c \in BOOLEAN : c = Cleared(log', e.world)
  BY DEF Cleared
<1>12. c <=> e.passed
  <2>1. ~(log'[Max(BossEvents(log', e.world))].score >= PassMark(e.world))
    BY <1>3, <1>9, <1>10
  <2>2. (\E k \in Trials(log', e.world) : log'[k].passed) <=> e.passed
    BY <1>1, <1>6, <1>7, <1>9
  <2>3. ~Assisted(log', e.world)
    BY <1>8, <1>9
  <2> QED
    BY <1>3, <1>4, <1>11, <2>1, <2>2, <2>3 DEF Cleared
<1>13. PICK r \in BOOLEAN : r = RouteUnlocked(log', e.world)
  BY DEF RouteUnlocked
<1>14. r => ~c
  BY <1>11, <1>13 DEF RouteUnlocked, TrialRequired
<1>15. SealReply(n)' = [attempt |-> e.attempt, passed |-> e.passed, cleared |-> c,
                        routeUnlocked |-> r]
  BY <1>1, <1>11, <1>13 DEF SealReply
<1>16. SealTrialCompletedHolds(SealReply(n))'
  <2>1. /\ SealReply(n)'.attempt = e.attempt /\ SealReply(n)'.passed = e.passed
        /\ SealReply(n)'.cleared = c /\ SealReply(n)'.routeUnlocked = r
    BY <1>15
  <2>2. e.attempt >= 1 /\ (c = e.passed) /\ ~(r /\ e.passed)
    BY <1>0, <1>12, <1>14
  <2> QED
    BY <2>1, <2>2 DEF SealTrialCompletedHolds
<1>17. ReplyAccepted(n)'
  BY <1>1, <1>16 DEF ReplyAccepted
<1> QED
  BY <1>1, <1>3, <1>4, <1>17 DEF Passes

-----------------------------------------------------------------------------
(* Preparing and answering a batch.                                         *)

LEMMA BoundIs ==
    LET m == Max({Boss, MaxTrials, MaxSecondWinds})
    IN m \in Nat /\ Boss <= m /\ MaxTrials <= m /\ MaxSecondWinds <= m
<1> DEFINE S == {Boss, MaxTrials, MaxSecondWinds}
<1>1. S \in SUBSET Nat /\ S \in SUBSET Int /\ S # {}
  BY LeadInsAre, LearnerAssumption
<1>2. IsFiniteSet(S)
  <2>1. IsFiniteSet({Boss}) /\ {Boss, MaxTrials} = {Boss} \cup {MaxTrials}
        /\ S = {Boss, MaxTrials} \cup {MaxSecondWinds}
    BY FS_Singleton
  <2>2. IsFiniteSet({Boss} \cup {MaxTrials})
    BY <2>1, FS_AddElement
  <2>3. IsFiniteSet({Boss, MaxTrials} \cup {MaxSecondWinds})
    BY <2>1, <2>2, FS_AddElement
  <2> QED
    BY <2>1, <2>3
<1>3. Max(S) \in S /\ \A x \in S : x <= Max(S)
  BY <1>1, <1>2, MaxIs
<1> QED
  BY <1>1, <1>3

LEMMA ItemsAre ==
    /\ TrialItems \in Nat
    /\ \A w : \A b \in 1..Boss : ItemCount(w, b) \in Nat
<1>1. /\ TrialItems \in Nat /\ FinaleItems \in Nat /\ BossItems \in Nat
  BY CampaignAssumption
<1>2. ASSUME NEW b \in 1..Boss, b < Boss
      PROVE  LeadInItems[b] \in Nat
  BY <1>2, LeadInsAre
<1> QED
  BY <1>1, <1>2 DEF ItemCount

LEMMA ServedAre ==
    ASSUME InOrder, NoneAhead
    PROVE  \A n \in Nat : Plan(log, n) \in Seq(SlotsFor(w0)) /\ Len(Plan(log, n)) = n
<1> SUFFICES ASSUME NEW n \in Nat
             PROVE  Plan(log, n) \in Seq(SlotsFor(w0)) /\ Len(Plan(log, n)) = n
  OBVIOUS
<1>1. log \in Seq(Events)
  BY DEF InOrder
<1>2. PICK w \in Worlds : w = ActiveWorld(log)
  BY ActiveIs DEF w0
<1>3. w = w0
  BY <1>2 DEF w0
<1>4. \A k \in Observed(log) : log[k].skill[1] = log[k].world /\ log[k].world <= w
  BY <1>3 DEF NoneAhead, Observed, Positions
<1>5. Plan(log, n) \in Seq(SlotsFor(w)) /\ Len(Plan(log, n)) = n
  BY <1>1, <1>2, <1>4, PlanServes
<1> QED
  BY <1>3, <1>5

\* What is known of a log that stays as it was.
LEMMA LogKept ==
    ASSUME IInv, log' = log
    PROVE  /\ InOrder' /\ NoneAhead' /\ Past' /\ WonSoFar' /\ WindsInOrder' /\ Answered'
           /\ w0' = w0 /\ CurrentBattle' = CurrentBattle
<1> USE DEF IInv
<1>1. Grows(log, log', {}) /\ NewOnes = {}
  BY NoMore
<1>2. StartsAreNew /\ WindsFollow
  BY <1>1 DEF StartsAreNew, WindsFollow, NewOnes
<1>3. InOrder' /\ w0' = w0
  BY <1>1, OrderKept
<1>4. NoneAhead'
  BY <1>1, AheadKept
<1>5. Past'
  BY <1>1, <1>2, PastKept
<1>6. WonSoFar' /\ CurrentBattle' = CurrentBattle
  BY <1>1, WonKept
<1>7. WindsInOrder'
  <2>1. \A n \in Positions(log, "started") :
            log[n].world = w0' => log[n].battle <= CurrentBattle'
    BY <1>3, <1>6 DEF WindsInOrder
  <2> QED
    BY <1>1, <1>2, <2>1, WindsKept
<1>8. Answered'
  BY <1>1, AnsweredKept
<1> QED
  BY <1>3, <1>4, <1>5, <1>6, <1>7, <1>8

\* A fresh batch, whatever it is for.
LEMMA Fresh ==
    ASSUME IInv, NEW p \in {"battle", "seal", "wind"}, NEW b, NEW n \in Nat,
           Prepare(p, b, n), b \in 1..Max({Boss, MaxTrials, MaxSecondWinds}),
           n = IF p = "battle" THEN ItemCount(w0, b) ELSE TrialItems,
           log' = log, route' = route, SlotFree,
           \/ p = "battle" /\ b <= CurrentBattle /\ BossEvents(log, w0) = {}
           \/ p = "seal" /\ TrialRequired(log, w0) /\ b = Missed(log, w0) + 1
           \/ /\ p = "wind" /\ b \in Attempts /\ WindStarted(b)
              /\ Logged("wind_quiz", b) = {} /\ StartOf(b).world = w0
    PROVE  IInv'
<1>1. /\ InOrder' /\ NoneAhead' /\ Past' /\ WonSoFar' /\ WindsInOrder' /\ Answered'
      /\ w0' = w0 /\ CurrentBattle' = CurrentBattle
  BY LogKept
<1>2. /\ w0 \in Worlds /\ Len(log) \in Nat /\ 1 \in 1..Len(log)
  BY ActiveIs DEF IInv
<1>3. PICK slots : /\ slots = Plan(log, n)
                   /\ slots \in Seq(SlotsFor(w0)) /\ Len(slots) = n
  BY ServedAre DEF IInv
<1>4. batch' = [purpose |-> p, world |-> w0, number |-> b, id |-> Len(log),
                slots |-> slots, revealed |-> FALSE, score |-> 0]
  BY <1>3 DEF Prepare
<1>5. slots \in Seq([kind : TransferKinds \cup {"under_sampled_core_skill",
                                                "novel_current_skill"},
                     skill : Skills, targets : SUBSET Procedures])
  <2>1. SlotsFor(w0) \in SUBSET SlotKinds
    BY DEF SlotsFor
  <2>2. slots \in Seq(SlotKinds)
    BY <1>3, <2>1
  <2> QED
    BY <2>2 DEF SlotKinds, Kinds
<1>6. batch' \in Batches'
  <2>1. Len(log) \in 1..Len(log')
    BY <1>2
  <2> QED
    BY <1>2, <1>4, <1>5, <2>1 DEF Batches
<1>7. /\ batch'.purpose = p /\ batch'.world = w0 /\ batch'.number = b
      /\ batch'.slots = slots /\ batch'.score = 0
  BY <1>4
<1>8. TypeOK'
  <2>1. route' \in 0..NumWorlds
    BY DEF IInv, TypeOK
  <2>2. \A k \in DOMAIN log' : log'[k].world \in Worlds
    BY DEF IInv, TypeOK
  <2>3. Len(batch'.slots) = IF batch'.purpose = "battle"
                            THEN ItemCount(batch'.world, batch'.number)
                            ELSE TrialItems
    BY <1>3, <1>7
  <2>4. batch'.score <= Len(batch'.slots)
    BY <1>3, <1>7
  <2> QED
    BY <1>6, <2>1, <2>2, <2>3, <2>4 DEF TypeOK
<1>9. Serves'
  <2>1. batch'.slots \in Seq(SlotsFor(batch'.world))
    BY <1>3, <1>7
  <2>2. CASE p = "battle"
    BY <1>1, <1>7, <2>1, <2>2 DEF Serves
  <2>3. CASE p = "seal"
    BY <1>1, <1>7, <2>1, <2>3 DEF Serves
  <2>4. CASE p = "wind"
    BY <1>1, <1>7, <2>1, <2>4 DEF Serves, WindStarted, StartOf, Logged
  <2> QED
    BY <2>2, <2>3, <2>4
<1>10. route' = 0
  BY DEF SlotFree
<1>11. RouteServes' /\ OneActivity'
  BY <1>10 DEF RouteServes, OneActivity
<1> QED
  BY <1>1, <1>8, <1>9, <1>11 DEF IInv

LEMMA BattlePrepared ==
    ASSUME IInv, PrepareBattle
    PROVE  IInv'
<1>1. CurrentBattle \in 1..Boss
  BY SomeWon, BattleIs DEF IInv
<1>2. CurrentBattle \in 1..Max({Boss, MaxTrials, MaxSecondWinds})
  BY <1>1, BoundIs, LeadInsAre
<1>3. ItemCount(w0, CurrentBattle) \in Nat
  BY <1>1, ItemsAre
<1> QED
  BY <1>1, <1>2, <1>3, Fresh DEF PrepareBattle, CanPrepareBattle

LEMMA MissedAre ==
    ASSUME InOrder
    PROVE  /\ Missed(log, w0) \in Nat /\ Missed(log, w0) <= CountIf(log, SealHere)
           /\ CountIf(log, SealHere) \in Nat
<1> DEFINE S == {n \in Trials(log, w0) : ~log[n].passed}
           U == {n \in DOMAIN log : SealHere(log[n])}
<1>1. S \in SUBSET U /\ U \in SUBSET (1..Len(log)) /\ Len(log) \in Nat
  BY ActiveIs DEF Trials, Positions, SealHere
<1>2. IsFiniteSet(U)
  BY <1>1, FS_Interval, FS_Subset
<1>3. IsFiniteSet(S) /\ Cardinality(S) <= Cardinality(U) /\ Cardinality(S) \in Nat
      /\ Cardinality(U) \in Nat
  BY <1>1, <1>2, FS_Subset, FS_CardinalityType
<1>4. CountIf(log, SealHere) = Cardinality(U)
  BY DEF CountIf
<1> QED
  BY <1>3, <1>4 DEF Missed

LEMMA TrialPrepared ==
    ASSUME IInv, PrepareTrial
    PROVE  IInv'
<1>1. /\ Missed(log, w0) \in Nat /\ Missed(log, w0) <= CountIf(log, SealHere)
      /\ CountIf(log, SealHere) \in Nat
  BY MissedAre DEF IInv
<1>2. CountIf(log, SealHere) < MaxTrials
  BY DEF PrepareTrial
<1>3. Missed(log, w0) + 1 \in 1..Max({Boss, MaxTrials, MaxSecondWinds})
  BY <1>1, <1>2, BoundIs, LearnerAssumption
<1> QED
  BY <1>3, ItemsAre, Fresh DEF PrepareTrial, CanPrepareTrial

LEMMA WindPrepared ==
    ASSUME IInv, NEW a \in Attempts, PrepareSecondWind(a)
    PROVE  IInv'
<1>1. a \in 1..Max({Boss, MaxTrials, MaxSecondWinds})
  BY BoundIs, LearnerAssumption DEF Attempts
<1> QED
  BY <1>1, ItemsAre, Fresh DEF PrepareSecondWind, CanPrepareWind

LEMMA RoutePrepared ==
    ASSUME IInv, PrepareRoute
    PROVE  IInv'
<1>1. /\ InOrder' /\ NoneAhead' /\ Past' /\ WonSoFar' /\ WindsInOrder' /\ Answered'
      /\ w0' = w0
  BY LogKept DEF PrepareRoute
<1>2. batch' = NoBatch /\ route' = w0 /\ log' = log
  BY DEF PrepareRoute, CanPrepareRoute, RouteFree
<1>3. w0 \in Worlds /\ NumWorlds \in Nat
  BY ActiveIs, CampaignAssumption DEF IInv
<1>4. TypeOK'
  <2>1. route' \in 0..NumWorlds
    BY <1>2, <1>3 DEF Worlds
  <2> QED
    BY <1>2, <2>1 DEF IInv, TypeOK
<1>5. Serves' /\ OneActivity'
  BY <1>2 DEF Serves, OneActivity
<1>6. RouteUnlocked(log, w0)
  BY DEF PrepareRoute, CanPrepareRoute
<1>7. RouteServes'
  BY <1>1, <1>2, <1>6 DEF RouteServes
<1> QED
  BY <1>1, <1>4, <1>5, <1>7 DEF IInv

-----------------------------------------------------------------------------
(* The commands that log an event.                                          *)

LEMMA TypeKept ==
    ASSUME TypeOK, InOrder', Len(log) \in Nat, Len(log') \in Nat, Len(log) <= Len(log'),
           batch' = batch \/ batch' = NoBatch, route' \in 0..NumWorlds
    PROVE  TypeOK'
<1>1. \A n \in DOMAIN log' : log'[n].world \in Worlds
  <2>1. \A n \in DOMAIN log' : log'[n] \in Events
    BY DEF InOrder
  <2> QED
    BY <2>1, EventFields
<1>2. ASSUME batch' # NoBatch
      PROVE  /\ batch' \in Batches'
             /\ Len(batch'.slots) = IF batch'.purpose = "battle"
                                    THEN ItemCount(batch'.world, batch'.number)
                                    ELSE TrialItems
             /\ batch'.score <= Len(batch'.slots)
  <2>1. batch' = batch /\ batch # NoBatch
    BY <1>2
  <2>2. batch \in Batches
    BY <2>1 DEF TypeOK
  <2>3. batch' \in Batches'
    BY <2>1, <2>2 DEF Batches
  <2> QED
    BY <2>1, <2>3 DEF TypeOK
<1> QED
  BY <1>1, <1>2 DEF TypeOK

\* What an appended event, not an activation, leaves in order.
LEMMA EventLogged ==
    ASSUME IInv, NEW e \in Events, log' = Append(log, e),
           e.type \notin {"activation", "observation"},
           e.type = "started" => ~WindStarted(e.attempt),
           \/ e.world = w0
           \/ \E w \in Worlds : w = e.world /\ w < w0 /\ LeftUnfinished(w)'
    PROVE  /\ Grows(log, log', {e.type}) /\ StartsAreNew
           /\ InOrder' /\ w0' = w0 /\ NoneAhead' /\ Past'
           /\ \A k \in NewOnes : log'[k] = e
           /\ Len(log) + 1 \in NewOnes
           /\ Len(log) \in Nat /\ Len(log') \in Nat /\ Len(log) <= Len(log')
<1> USE DEF IInv
<1>1. /\ Grows(log, log', {e.type}) /\ \A k \in NewOnes : log'[k] = e
      /\ Len(log) + 1 \in NewOnes
  BY OneMore
<1>2. StartsAreNew
  BY <1>1 DEF StartsAreNew, NewOnes
<1>3. InOrder' /\ w0' = w0
  BY <1>1, OrderKept
<1>4. w0 \in Nat /\ e.world \in Worlds
  BY ActiveIs, EventFields
<1>5. e.world <= w0
  BY <1>4 DEF Worlds
<1>6. NoneAhead'
  <2>1. \A k \in NewOnes : /\ log'[k].world <= w0
                           /\ log'[k].type = "observation" =>
                                  log'[k].skill[1] = log'[k].world
    BY <1>1, <1>5
  <2> QED
    BY <1>1, <2>1, AheadKept
<1>7. Past'
  <2>1. \A k \in NewOnes :
            \/ log'[k].world = w0
            \/ /\ log'[k].type = "observation" /\ log'[k].kind \in TransferKinds
               /\ log'[k].world <= w0
            \/ \E w \in Worlds : w = log'[k].world /\ w < w0 /\ LeftUnfinished(w)'
    BY <1>1
  <2> QED
    BY <1>1, <1>2, <2>1, PastKept
<1>8. Len(log) \in Nat /\ Len(log') \in Nat /\ Len(log) <= Len(log')
  BY <1>1, GrowsIs
<1> QED
  BY <1>1, <1>2, <1>3, <1>6, <1>7, <1>8

\* What an event that closes a batch leaves.
LEMMA Closed ==
    ASSUME IInv, InOrder', batch # NoBatch, batch' = NoBatch, route' = route,
           Len(log) \in Nat, Len(log') \in Nat, Len(log) <= Len(log')
    PROVE  TypeOK' /\ Serves' /\ RouteServes' /\ OneActivity'
<1>1. route' = 0
  BY DEF IInv, OneActivity
<1>2. TypeOK'
  <2>1. route' \in 0..NumWorlds /\ TypeOK
    BY DEF IInv, TypeOK
  <2> QED
    BY <2>1, TypeKept
<1> QED
  BY <1>1, <1>2 DEF Serves, RouteServes, OneActivity

\* Second Winds stay in order when none of their events is added.
LEMMA WindsStay ==
    ASSUME IInv, NEW T, Grows(log, log', T), StartsAreNew,
           "started" \notin T, "wind_quiz" \notin T, "revived" \notin T,
           w0' = w0, CurrentBattle \in Int, CurrentBattle' \in Int,
           CurrentBattle <= CurrentBattle'
    PROVE  WindsInOrder'
<1>1. WindsInOrder
  BY DEF IInv
<1>2. ASSUME NEW n \in Positions(log, "started"), log[n].world = w0'
      PROVE  log[n].battle <= CurrentBattle'
  <2>1. n \in DOMAIN log /\ log[n].type = "started" /\ log[n] \in Events
    BY DEF Positions, IInv, InOrder
  <2>2. log[n].battle \in 1..Boss
    BY <2>1, EventFields
  <2>3. log[n].battle \in Int
    BY <2>2, LeadInsAre
  <2>4. log[n].battle <= CurrentBattle
    BY <1>1, <1>2 DEF WindsInOrder
  <2> QED
    BY <2>3, <2>4
<1>3. WindsFollow
  BY GrowsIs DEF WindsFollow
<1> QED
  BY <1>1, <1>2, <1>3, WindsKept

LEMMA NowIs ==
    ASSUME IInv
    PROVE  CurrentBattle \in 1..Boss /\ CurrentBattle \in Int
BY SomeWon, BattleIs, LeadInsAre DEF IInv

LEMMA BattleCompleted ==
    ASSUME IInv, CompleteBattle
    PROVE  IInv'
<1>1. PICK b \in 1..Boss : RevealedFor("battle", w0, b) /\ b = CurrentBattle
  BY DEF CompleteBattle, CanCompleteBattle, IsCurrentBattle
<1>2. batch # NoBatch /\ batch.purpose = "battle" /\ batch.score \in Nat
  BY <1>1 DEF RevealedFor, IInv, TypeOK, Batches
<1>3. BossEvents(log, w0) = {}
  BY <1>2 DEF IInv, Serves
<1>4. batch' = NoBatch /\ route' = route
  BY DEF CompleteBattle, Consume
<1>5. w0 \in Worlds /\ CurrentBattle \in 1..Boss /\ CurrentBattle \in Int
  BY ActiveIs, NowIs DEF IInv
<1>6. ASSUME NEW e \in Events, log' = Append(log, e), e.world = w0,
             \/ CurrentBattle = Boss /\ e.type = "boss"
             \/ CurrentBattle < Boss /\ e.type = "completion" /\ e.battle = CurrentBattle
      PROVE  IInv'
  <2>1. /\ Grows(log, log', {e.type}) /\ StartsAreNew
        /\ InOrder' /\ w0' = w0 /\ NoneAhead' /\ Past'
        /\ \A k \in NewOnes : log'[k] = e
        /\ Len(log) \in Nat /\ Len(log') \in Nat /\ Len(log) <= Len(log')
    BY <1>6, EventLogged
  <2>2. TypeOK' /\ Serves' /\ RouteServes' /\ OneActivity'
    BY <1>2, <1>4, <2>1, Closed
  <2>3. PICK n : n = Len(log) + 1
    OBVIOUS
  <2>4. Passes(n)'
    <3>1. CASE e.type = "boss"
      BY <1>6, <2>3, <3>1, BossPasses DEF IInv
    <3>2. CASE e.type = "completion"
      BY <1>3, <1>6, <2>3, <3>2, CompletionPasses DEF IInv
    <3> QED
      BY <1>6, <3>1, <3>2
  <2>5. Answered'
    <3>1. \A k \in NewOnes : k = n
      BY <1>6, <2>3, OneMore DEF IInv
    <3>2. \A k \in NewOnes : Passes(k)'
      BY <2>4, <3>1
    <3> QED
      BY <2>1, <3>2, AnsweredKept DEF IInv
  <2>6. WonSoFar' /\ CurrentBattle' \in Int /\ CurrentBattle <= CurrentBattle'
    <3>1. CASE e.type = "boss"
      <4>1. WonSoFar' /\ CurrentBattle' = CurrentBattle
        <5>1. "activation" \notin {e.type} /\ "completion" \notin {e.type}
              /\ "revived" \notin {e.type}
          BY <3>1
        <5> QED
          BY <2>1, <5>1, WonKept DEF IInv
      <4> QED
        BY <1>5, <4>1
    <3>2. CASE e.type = "completion"
      <4>1. PICK m \in 0..Len(LeadInItems) : WonFirst(m)
        BY SomeWon DEF IInv
      <4>2. CurrentBattle = m + 1 /\ Wins(log, w0) = FirstOnes(m) /\ m \in Nat
        BY <4>1, BattleIs DEF WonFirst
      <4>3. WinsIn(e, w0)
        BY <1>6, <3>2 DEF WinsIn
      <4>4. e.battle = m + 1
        BY <1>6, <3>2, <4>2
      <4>5. Wins(Append(log, e), w0) = FirstOnes(m + 1)
        BY <4>2, <4>3, <4>4, NextWin DEF IInv, InOrder
      <4>6. Wins(log, w0)' = FirstOnes(m + 1)
        BY <1>6, <2>1, <4>5
      <4>7. m + 1 \in 0..Len(LeadInItems)
        BY <1>6, <3>2, <4>2, LeadInsAre
      <4>8. CurrentBattle' = (m + 1) + 1 /\ WonSoFar'
        BY <4>6, <4>7, NextBattleIs
      <4> QED
        BY <4>2, <4>8
    <3> QED
      BY <1>6, <3>1, <3>2
  <2>7. WindsInOrder'
    <3>1. "started" \notin {e.type} /\ "wind_quiz" \notin {e.type} /\ "revived" \notin {e.type}
      BY <1>6
    <3> QED
      BY <1>5, <2>1, <2>6, <3>1, WindsStay
  <2> QED
    BY <2>1, <2>2, <2>5, <2>6, <2>7 DEF IInv
<1>7. CASE CurrentBattle = Boss
  <2>1. PICK e : e = [type |-> "boss", world |-> w0, score |-> batch.score]
    OBVIOUS
  <2>2. e \in Events /\ e.world = w0 /\ e.type = "boss"
    BY <1>2, <1>5, <2>1 DEF Events
  <2>3. log' = Append(log, e)
    BY <1>7, <2>1 DEF CompleteBattle, Consume
  <2> QED
    BY <1>6, <1>7, <2>2, <2>3
<1>8. CASE CurrentBattle # Boss
  <2>1. PICK e : e = [type |-> "completion", world |-> w0, battle |-> CurrentBattle]
    OBVIOUS
  <2>2. e \in Events /\ e.world = w0 /\ e.type = "completion" /\ e.battle = CurrentBattle
    BY <1>5, <2>1 DEF Events
  <2>3. log' = Append(log, e)
    BY <1>8, <2>1 DEF CompleteBattle, Consume
  <2>4. CurrentBattle < Boss
    BY <1>5, <1>8, LeadInsAre
  <2> QED
    BY <1>6, <2>2, <2>3, <2>4
<1> QED
  BY <1>7, <1>8

LEMMA TrialCompleted ==
    ASSUME IInv, CompleteTrial
    PROVE  IInv'
<1>1. TrialRequired(log, w0) /\ batch # NoBatch /\ batch' = NoBatch /\ route' = route
  BY DEF CompleteTrial, CanCompleteTrial, RevealedFor, Consume
<1>2. w0 \in Worlds /\ CurrentBattle \in Int /\ Missed(log, w0) \in Nat
  BY ActiveIs, NowIs, MissedAre DEF IInv
<1>3. PICK e : e = [type |-> "seal", world |-> w0, attempt |-> Missed(log, w0) + 1,
                    passed |-> batch.score >= TrialPass]
  OBVIOUS
<1>4. e \in Events /\ e.world = w0 /\ e.type = "seal"
  <2>0. batch.score \in Nat /\ TrialPass \in Nat
    BY <1>1, CampaignAssumption DEF IInv, TypeOK, Batches
  <2>5. (batch.score >= TrialPass) \in BOOLEAN
    BY <2>0
  <2>1. PICK p \in BOOLEAN : p = (batch.score >= TrialPass)
    BY <2>5, Zenon
  <2>2. e = [type |-> "seal", world |-> w0, attempt |-> Missed(log, w0) + 1, passed |-> p]
    BY <1>3, <2>1
  <2>3. Missed(log, w0) + 1 \in Nat \ {0}
    BY <1>2
  <2>4. e \in [type : {"seal"}, world : Worlds, attempt : Nat \ {0}, passed : BOOLEAN]
    BY <1>2, <2>2, <2>3
  <2> QED
    BY <2>2, <2>4 DEF Events
<1>5. log' = Append(log, e)
  BY <1>3 DEF CompleteTrial, Consume
<1>6. /\ Grows(log, log', {e.type}) /\ StartsAreNew
      /\ InOrder' /\ w0' = w0 /\ NoneAhead' /\ Past'
      /\ \A k \in NewOnes : log'[k] = e
      /\ Len(log) \in Nat /\ Len(log') \in Nat /\ Len(log) <= Len(log')
  BY <1>4, <1>5, EventLogged
<1>7. TypeOK' /\ Serves' /\ RouteServes' /\ OneActivity'
  BY <1>1, <1>6, Closed
<1>8. PICK n : n = Len(log) + 1
  OBVIOUS
<1>9. Passes(n)'
  BY <1>1, <1>4, <1>5, <1>8, TrialPasses DEF IInv
<1>10. Answered'
  <2>1. \A k \in NewOnes : k = n
    BY <1>4, <1>5, <1>8, OneMore DEF IInv
  <2>2. \A k \in NewOnes : Passes(k)'
    BY <1>9, <2>1
  <2> QED
    BY <1>6, <2>2, AnsweredKept DEF IInv
<1>11. WonSoFar' /\ CurrentBattle' = CurrentBattle
  <2>1. "activation" \notin {e.type} /\ "completion" \notin {e.type}
        /\ "revived" \notin {e.type}
    BY <1>4
  <2> QED
    BY <1>6, <2>1, WonKept DEF IInv
<1>12. WindsInOrder'
  <2>1. "started" \notin {e.type} /\ "wind_quiz" \notin {e.type} /\ "revived" \notin {e.type}
    BY <1>4
  <2>2. CurrentBattle' \in Int /\ CurrentBattle <= CurrentBattle'
    BY <1>2, <1>11
  <2> QED
    BY <1>2, <1>6, <2>1, <2>2, WindsStay
<1> QED
  BY <1>6, <1>7, <1>10, <1>11, <1>12 DEF IInv

LEMMA RouteCompleted ==
    ASSUME IInv, CompleteRoute
    PROVE  IInv'
<1>1. /\ route = w0 /\ RouteUnlocked(log, w0) /\ batch' = batch /\ batch = NoBatch
      /\ route' = 0
  BY DEF CompleteRoute, CanCompleteRoute, IInv, RouteServes, OneActivity
<1>2. w0 \in Worlds /\ CurrentBattle \in Int /\ NumWorlds \in Nat
  BY ActiveIs, NowIs, CampaignAssumption DEF IInv
<1>3. PICK e : e = [type |-> "assisted", world |-> w0]
  OBVIOUS
<1>4. e \in Events /\ e.world = w0 /\ e.type = "assisted"
  BY <1>2, <1>3 DEF Events
<1>5. log' = Append(log, e)
  BY <1>1, <1>3 DEF CompleteRoute
<1>6. /\ Grows(log, log', {e.type}) /\ StartsAreNew
      /\ InOrder' /\ w0' = w0 /\ NoneAhead' /\ Past'
      /\ \A k \in NewOnes : log'[k] = e
      /\ Len(log) \in Nat /\ Len(log') \in Nat /\ Len(log) <= Len(log')
  BY <1>4, <1>5, EventLogged
<1>7. TypeOK'
  <2>1. route' \in 0..NumWorlds /\ TypeOK
    BY <1>1, <1>2 DEF IInv
  <2> QED
    BY <1>1, <1>6, <2>1, TypeKept
<1>8. PICK n : n = Len(log) + 1
  OBVIOUS
<1>9. Passes(n)'
  <2>1. BossEvents(log, w0) # {}
    BY <1>1 DEF RouteUnlocked, TrialRequired
  <2> QED
    BY <1>4, <1>5, <1>8, <2>1, AssistedPasses DEF IInv
<1>10. Answered'
  <2>1. \A k \in NewOnes : k = n
    BY <1>4, <1>5, <1>8, OneMore DEF IInv
  <2>2. \A k \in NewOnes : Passes(k)'
    BY <1>9, <2>1
  <2> QED
    BY <1>6, <2>2, AnsweredKept DEF IInv
<1>11. WonSoFar' /\ CurrentBattle' = CurrentBattle
  <2>1. "activation" \notin {e.type} /\ "completion" \notin {e.type}
        /\ "revived" \notin {e.type}
    BY <1>4
  <2> QED
    BY <1>6, <2>1, WonKept DEF IInv
<1>12. WindsInOrder'
  <2>1. "started" \notin {e.type} /\ "wind_quiz" \notin {e.type} /\ "revived" \notin {e.type}
    BY <1>4
  <2>2. CurrentBattle' \in Int /\ CurrentBattle <= CurrentBattle'
    BY <1>2, <1>11
  <2> QED
    BY <1>2, <1>6, <2>1, <2>2, WindsStay
<1>13. Serves' /\ RouteServes' /\ OneActivity'
  BY <1>1 DEF Serves, RouteServes, OneActivity
<1> QED
  BY <1>6, <1>7, <1>10, <1>11, <1>12, <1>13 DEF IInv

-----------------------------------------------------------------------------
(* Second Winds, and the quiz.                                              *)

\* A Second Wind whose quiz is not over has not been fought.
LEMMA UnfinishedNow ==
    ASSUME IInv, NEW a \in Attempts, WindStarted(a), Logged("wind_quiz", a) = {},
           NEW T, Grows(log, log', T), StartsAreNew, "revived" \notin T
    PROVE  \A w : w = StartOf(a).world => LeftUnfinished(w)'
<1> SUFFICES ASSUME NEW w, w = StartOf(a).world
             PROVE  LeftUnfinished(w)'
  OBVIOUS
<1>1. Logged("revived", a) = {}
  BY DEF IInv, WindsInOrder, Logged, Positions
<1>2. Logged("revived", a)' = {}
  BY <1>1, LoggedAre
<1>3. WindStarted(a)' /\ StartOf(a)' = StartOf(a)
  BY StartKept
<1> QED
  BY <1>2, <1>3 DEF LeftUnfinished

LEMMA StartIs ==
    ASSUME IInv, NEW a, WindStarted(a)
    PROVE  /\ StartOf(a).world \in Worlds /\ StartOf(a).world <= w0
           /\ StartOf(a).battle \in 1..Boss /\ StartOf(a).battle < Boss
           /\ StartOf(a).world = w0 => StartOf(a).battle <= CurrentBattle
<1>2. /\ log \in Seq(Events) /\ Positions(log, "started") \in SUBSET Int
      /\ IsFiniteSet(Positions(log, "started"))
  BY PositionsAre DEF IInv, InOrder
<1>3. Logged("started", a) \in SUBSET Positions(log, "started")
  BY DEF Logged
<1>4. PICK n \in Logged("started", a) : n = Max(Logged("started", a))
  BY <1>2, <1>3, FS_Subset, MaxIs DEF WindStarted
<1>5. /\ n \in Positions(log, "started") /\ n \in DOMAIN log
      /\ log[n].type = "started" /\ log[n] \in Events /\ StartOf(a) = log[n]
  BY <1>2, <1>3, <1>4 DEF StartOf, Positions
<1>6. log[n].world \in Worlds /\ log[n].battle \in 1..Boss
  BY <1>5, EventFields
<1> QED
  BY <1>5, <1>6 DEF IInv, NoneAhead, WindsInOrder

LEMMA WindStart ==
    ASSUME IInv, NEW a \in Attempts, StartSecondWind(a)
    PROVE  IInv'
<1>1. PICK b \in 1..Boss :
          /\ LeadInNow(b) /\ ~WindStarted(a)
          /\ log' = Append(log, [type |-> "started", world |-> w0, battle |-> b,
                                 attempt |-> a])
  BY DEF StartSecondWind
<1>2. w0 \in Worlds /\ CurrentBattle \in 1..Boss /\ CurrentBattle \in Int
      /\ b = CurrentBattle /\ b < Boss
  BY <1>1, ActiveIs, NowIs DEF IInv, LeadInNow
<1>3. PICK e : e = [type |-> "started", world |-> w0, battle |-> b, attempt |-> a]
  OBVIOUS
<1>4. e \in Events /\ e.world = w0 /\ e.type = "started" /\ e.battle = b /\ e.attempt = a
  BY <1>2, <1>3 DEF Events
<1>5. log' = Append(log, e) /\ batch' = batch /\ route' = route
  BY <1>1, <1>3 DEF StartSecondWind
<1>6. /\ Grows(log, log', {e.type}) /\ StartsAreNew
      /\ InOrder' /\ w0' = w0 /\ NoneAhead' /\ Past'
      /\ \A k \in NewOnes : log'[k] = e
      /\ Len(log) \in Nat /\ Len(log') \in Nat /\ Len(log) <= Len(log')
  BY <1>1, <1>4, <1>5, EventLogged
<1>7. /\ "activation" \notin {e.type} /\ "completion" \notin {e.type}
      /\ "revived" \notin {e.type} /\ "boss" \notin {e.type} /\ "seal" \notin {e.type}
      /\ "assisted" \notin {e.type} /\ "wind_quiz" \notin {e.type}
  BY <1>4
<1>8. TypeOK'
  <2>1. route' \in 0..NumWorlds /\ TypeOK
    BY <1>5 DEF IInv, TypeOK
  <2> QED
    BY <1>5, <1>6, <2>1, TypeKept
<1>9. WonSoFar' /\ CurrentBattle' = CurrentBattle
  BY <1>6, <1>7, WonKept DEF IInv
<1>10. WindsInOrder'
  <2>1. WindsFollow
    BY <1>2, <1>4, <1>6, <1>9 DEF WindsFollow
  <2>2. \A n \in Positions(log, "started") :
            log[n].world = w0' => log[n].battle <= CurrentBattle'
    BY <1>6, <1>9 DEF IInv, WindsInOrder
  <2> QED
    BY <1>6, <2>1, <2>2, WindsKept DEF IInv
<1>11. Answered'
  <2>1. \A k \in NewOnes : Passes(k)'
    BY <1>4, <1>6, NoReply
  <2> QED
    BY <1>6, <2>1, AnsweredKept DEF IInv
<1>12. Serves'
  <2>1. batch # NoBatch => batch.number \in Int
    BY BoundIs DEF IInv, TypeOK, Batches
  <2>2. CurrentBattle' \in Int /\ CurrentBattle <= CurrentBattle'
    BY <1>2, <1>9
  <2> QED
    BY <1>2, <1>5, <1>6, <1>7, <2>1, <2>2, ServesKept DEF IInv
<1>13. RouteServes'
  BY <1>5, <1>6, <1>7, RouteKept DEF IInv
<1>14. OneActivity'
  BY <1>5 DEF IInv, OneActivity
<1> QED
  BY <1>6, <1>8, <1>9, <1>10, <1>11, <1>12, <1>13, <1>14 DEF IInv

LEMMA WindCompleted ==
    ASSUME IInv, NEW a \in Attempts, CompleteSecondWind(a)
    PROVE  IInv'
<1>1. /\ WindStarted(a) /\ Logged("wind_quiz", a) = {} /\ batch # NoBatch
      /\ batch' = NoBatch /\ route' = route
  BY DEF CompleteSecondWind, CanCompleteWind, RevealedFor, Consume
<1>2. /\ StartOf(a).world \in Worlds /\ StartOf(a).world <= w0
      /\ StartOf(a).battle \in 1..Boss
  BY <1>1, StartIs
<1>3. PICK e : e = WindEvent("wind_quiz", a)
  OBVIOUS
<1>4. e = [type |-> "wind_quiz", world |-> StartOf(a).world, battle |-> StartOf(a).battle,
           attempt |-> a]
  BY <1>3 DEF WindEvent
<1>5. /\ e \in Events /\ e.world = StartOf(a).world /\ e.type = "wind_quiz"
      /\ e.attempt = a
  BY <1>2, <1>4 DEF Events
<1>6. log' = Append(log, e)
  BY <1>3 DEF CompleteSecondWind, Consume
<1>7. Grows(log, log', {e.type}) /\ \A k \in NewOnes : log'[k] = e
  BY <1>5, <1>6, OneMore DEF IInv
<1>8. StartsAreNew
  BY <1>5, <1>7 DEF StartsAreNew, NewOnes
<1>9. \/ e.world = w0
      \/ \E w \in Worlds : w = e.world /\ w < w0 /\ LeftUnfinished(w)'
  <2>1. PICK w \in Worlds : w = StartOf(a).world
    BY <1>2
  <2>2. "revived" \notin {e.type}
    BY <1>5
  <2>3. LeftUnfinished(w)'
    BY <1>1, <1>7, <1>8, <2>1, <2>2, UnfinishedNow
  <2>4. w \in Int /\ w0 \in Int
    BY ActiveIs DEF IInv, Worlds
  <2> QED
    BY <1>2, <1>5, <2>1, <2>3, <2>4
<1>10. /\ InOrder' /\ w0' = w0 /\ NoneAhead' /\ Past'
       /\ Len(log) \in Nat /\ Len(log') \in Nat /\ Len(log) <= Len(log')
  BY <1>5, <1>6, <1>9, EventLogged
<1>11. TypeOK' /\ Serves' /\ RouteServes' /\ OneActivity'
  BY <1>1, <1>10, Closed
<1>12. WonSoFar' /\ CurrentBattle' = CurrentBattle
  <2>1. "activation" \notin {e.type} /\ "completion" \notin {e.type}
        /\ "revived" \notin {e.type}
    BY <1>5
  <2> QED
    BY <1>7, <2>1, WonKept DEF IInv
<1>13. WindsInOrder'
  <2>1. WindsFollow
    BY <1>1, <1>5, <1>7 DEF WindsFollow
  <2>2. \A n \in Positions(log, "started") :
            log[n].world = w0' => log[n].battle <= CurrentBattle'
    BY <1>10, <1>12 DEF IInv, WindsInOrder
  <2> QED
    BY <1>7, <1>8, <2>1, <2>2, WindsKept DEF IInv
<1>14. Answered'
  <2>1. \A k \in NewOnes : Passes(k)'
    BY <1>5, <1>7, NoReply
  <2> QED
    BY <1>7, <2>1, AnsweredKept DEF IInv
<1> QED
  BY <1>10, <1>11, <1>12, <1>13, <1>14 DEF IInv

LEMMA CombatReported ==
    ASSUME IInv, NEW a \in Attempts, CompleteRevivedCombat(a)
    PROVE  IInv'
<1>1. /\ Logged("wind_quiz", a) # {} /\ Logged("revived", a) = {}
      /\ batch' = batch /\ route' = route
  BY DEF CompleteRevivedCombat, CanReportCombat, WindOver
<1>2. WindStarted(a)
  BY <1>1 DEF IInv, WindsInOrder, Logged
<1>3. /\ StartOf(a).world \in Worlds /\ StartOf(a).world <= w0
      /\ StartOf(a).battle \in 1..Boss /\ StartOf(a).battle < Boss
      /\ StartOf(a).world = w0 => StartOf(a).battle <= CurrentBattle
  BY <1>2, StartIs
<1>4. PICK won \in BOOLEAN :
          log' = Append(log, [type |-> "revived", world |-> StartOf(a).world,
                              battle |-> StartOf(a).battle, attempt |-> a, won |-> won])
  BY DEF CompleteRevivedCombat
<1>5. PICK e : e = [type |-> "revived", world |-> StartOf(a).world,
                    battle |-> StartOf(a).battle, attempt |-> a, won |-> won]
  OBVIOUS
<1>6. /\ e \in Events /\ e.type = "revived" /\ e.world = StartOf(a).world
      /\ e.battle = StartOf(a).battle /\ e.attempt = a /\ e.won = won
  BY <1>3, <1>5 DEF Events
<1>7. log' = Append(log, e)
  BY <1>4, <1>5
<1>8. /\ Grows(log, log', {e.type}) /\ \A k \in NewOnes : log'[k] = e
      /\ NewOnes = {Len(log) + 1} /\ Len(log) \in Nat
  BY <1>6, <1>7, OneMore, ActiveIs DEF IInv
<1>9. StartsAreNew
  BY <1>6, <1>8 DEF StartsAreNew, NewOnes
<1>10. \/ e.world = w0
       \/ \E w \in Worlds : w = e.world /\ w < w0 /\ LeftUnfinished(w)'
  <2>1. PICK w \in Worlds : w = StartOf(a).world
    BY <1>3
  <2>2. WindStarted(a)' /\ StartOf(a)' = StartOf(a)
    BY <1>2, <1>8, <1>9, StartKept
  <2>3. \A r \in Logged("revived", a)' : r = Len(log) + 1
    <3>1. \A r \in Logged("revived", a)' : r \in NewOnes
      BY <1>1, <1>8, LoggedAre DEF NewOnes
    <3> QED
      BY <1>8, <3>1
  <2>4. \A n \in Positions(log', "activation") : n \in 1..Len(log)
    <3>1. "activation" \notin {e.type}
      BY <1>6
    <3>2. Positions(log', "activation") = Positions(log, "activation")
      BY <1>8, <3>1, SamePositions
    <3> QED
      BY <3>2, ActiveIs DEF IInv, Activations
  <2>5. \A n \in Positions(log', "activation"), r \in Logged("revived", a)' : r > n
    BY <1>8, <2>3, <2>4
  <2>6. LeftUnfinished(w)'
    BY <2>1, <2>2, <2>5 DEF LeftUnfinished
  <2>7. w \in Int /\ w0 \in Int
    BY ActiveIs DEF IInv, Worlds
  <2> QED
    BY <1>3, <1>6, <2>1, <2>6, <2>7
<1>11. /\ InOrder' /\ w0' = w0 /\ NoneAhead' /\ Past'
       /\ Len(log) \in Nat /\ Len(log') \in Nat /\ Len(log) <= Len(log')
  BY <1>6, <1>7, <1>10, EventLogged
<1>12. PICK m \in 0..Len(LeadInItems) : WonFirst(m)
  BY SomeWon DEF IInv
<1>13. CurrentBattle = m + 1 /\ Wins(log, w0) = FirstOnes(m) /\ m \in Nat
  BY <1>12, BattleIs DEF WonFirst
<1>14. WonSoFar' /\ CurrentBattle' \in Int /\ CurrentBattle <= CurrentBattle'
  <2>1. log \in Seq(Events)
    BY DEF IInv, InOrder
  <2>2. CASE WinsIn(e, w0) /\ e.battle = m + 1
    <3>1. Wins(Append(log, e), w0) = FirstOnes(m + 1)
      BY <1>6, <1>13, <2>1, <2>2, NextWin
    <3>2. Wins(log, w0)' = FirstOnes(m + 1)
      BY <1>7, <1>11, <3>1
    <3>3. m + 1 \in 0..Len(LeadInItems)
      BY <1>3, <1>6, <1>13, <2>2, LeadInsAre
    <3>4. CurrentBattle' = (m + 1) + 1 /\ WonSoFar'
      BY <3>2, <3>3, NextBattleIs
    <3> QED
      BY <1>13, <3>4
  <2>3. CASE ~(WinsIn(e, w0) /\ e.battle = m + 1)
    <3>1. \/ ~WinsIn(e, w0)
          \/ \E n \in Won(log, w0) : log[n].battle = e.battle
      <4>1. ASSUME WinsIn(e, w0)
            PROVE  \E n \in Won(log, w0) : log[n].battle = e.battle
        <5>1. e.battle \in 1..m
          <6>1. e.world = w0
            BY <1>6, <4>1 DEF WinsIn
          <6>2. e.battle \in 1..Boss /\ e.battle <= m + 1 /\ e.battle # m + 1
            BY <1>3, <1>6, <1>13, <2>3, <4>1, <6>1
          <6> QED
            BY <1>13, <6>2, LeadInsAre
        <5>2. PICK n \in Firsts(log, w0) : log[n].battle = e.battle
          BY <1>13, <2>1, <5>1, WonSoFarAre
        <5>3. n \in Won(log, w0)
          BY <2>1, WonAre
        <5> QED
          BY <5>2, <5>3
      <4> QED
        BY <4>1
    <3>2. Wins(Append(log, e), w0) = FirstOnes(m)
      BY <1>6, <1>13, <2>1, <3>1, NoNewWin
    <3>3. Wins(log, w0)' = FirstOnes(m)
      BY <1>7, <1>11, <3>2
    <3>4. CurrentBattle' = m + 1 /\ WonSoFar'
      BY <1>12, <3>3, NextBattleIs
    <3> QED
      BY <1>13, <3>4
  <2> QED
    BY <2>2, <2>3
<1>15. /\ CurrentBattle \in Int
       /\ "activation" \notin {e.type} /\ "boss" \notin {e.type} /\ "seal" \notin {e.type}
       /\ "assisted" \notin {e.type} /\ "wind_quiz" \notin {e.type}
  BY <1>6, NowIs
<1>16. TypeOK'
  <2>1. route' \in 0..NumWorlds /\ TypeOK
    BY <1>1 DEF IInv, TypeOK
  <2> QED
    BY <1>1, <1>11, <2>1, TypeKept
<1>17. WindsInOrder'
  <2>1. WindsFollow
    BY <1>1, <1>6, <1>8 DEF WindsFollow
  <2>2. ASSUME NEW n \in Positions(log, "started"), log[n].world = w0'
        PROVE  log[n].battle <= CurrentBattle'
    <3>1. n \in DOMAIN log /\ log[n].type = "started" /\ log[n] \in Events
      BY DEF Positions, IInv, InOrder
    <3>2. log[n].battle \in 1..Boss
      BY <3>1, EventFields
    <3>3. log[n].battle \in Int
      BY <3>2, LeadInsAre
    <3>4. log[n].battle <= CurrentBattle
      BY <1>11, <2>2 DEF IInv, WindsInOrder
    <3> QED
      BY <1>14, <1>15, <3>3, <3>4
  <2> QED
    BY <1>8, <1>9, <2>1, <2>2, WindsKept DEF IInv
<1>18. Answered'
  <2>1. \A k \in NewOnes : Passes(k)'
    BY <1>6, <1>8, NoReply
  <2> QED
    BY <1>8, <2>1, AnsweredKept DEF IInv
<1>19. Serves'
  <2>1. batch # NoBatch => batch.number \in Int
    BY BoundIs DEF IInv, TypeOK, Batches
  <2> QED
    BY <1>1, <1>8, <1>9, <1>14, <1>15, <2>1, ServesKept DEF IInv
<1>20. RouteServes'
  BY <1>1, <1>8, <1>15, RouteKept DEF IInv
<1>21. OneActivity'
  BY <1>1 DEF IInv, OneActivity
<1> QED
  BY <1>11, <1>14, <1>16, <1>17, <1>18, <1>19, <1>20, <1>21 DEF IInv

LEMMA Answering ==
    ASSUME IInv, Answer
    PROVE  IInv'
<1>1. batch # NoBatch /\ route' = route
  BY DEF Answer
<1>2. /\ batch \in Batches /\ batch.slots \in Seq(SlotsFor(batch.world))
      /\ batch.world \in Worlds /\ batch.id \in Nat /\ batch.number \in Int
      /\ Len(batch.slots) \in Nat /\ DOMAIN batch.slots = 1..Len(batch.slots)
      /\ NumWorlds \in Nat
  BY <1>1, BoundIs, CampaignAssumption DEF IInv, TypeOK, Serves, Batches
<1>3. PICK style \in Styles :
          LET MarkAt(i) == style[((i - 1) % Len(style)) + 1]
              items == [i \in DOMAIN batch.slots |->
                            ObservationOf(batch.slots[i], MarkAt(i))]
              RightFinally(o) == FinalCorrect(o.mark)
          IN /\ log' = log \o items
             /\ batch' = [batch EXCEPT !.revealed = TRUE,
                                       !.score = CountIf(items, RightFinally)]
  BY Zenon DEF Answer
<1>4. style \in Seq(Marks) /\ style # <<>> /\ Len(style) \in Nat \ {0}
  BY LearnerAssumption
<1> DEFINE MarkAt(i) == style[((i - 1) % Len(style)) + 1]
           Right(o) == FinalCorrect(o.mark)
<1>5. PICK items : items = [i \in DOMAIN batch.slots |->
                                ObservationOf(batch.slots[i], MarkAt(i))]
  OBVIOUS
<1>6. /\ log' = log \o items
      /\ batch' = [batch EXCEPT !.revealed = TRUE, !.score = CountIf(items, Right)]
  BY <1>3, <1>5
<1>7. \A i \in 1..Len(batch.slots) : MarkAt(i) \in Marks
  <2> SUFFICES ASSUME NEW i \in 1..Len(batch.slots)
               PROVE  MarkAt(i) \in Marks
    OBVIOUS
  <2>1. i - 1 \in Nat /\ Len(style) \in Nat \ {0}
    BY <1>2, <1>4
  <2>2. (i - 1) % Len(style) \in 0..(Len(style) - 1)
    BY <2>1
  <2>3. ((i - 1) % Len(style)) + 1 \in 1..Len(style)
    BY <1>4, <2>2
  <2> QED
    BY <1>4, <2>3
<1> HIDE DEF MarkAt
<1>8. AnswersOf(items)
  BY <1>2, <1>5, <1>7 DEF AnswersOf
<1>9. batch.world <= w0 /\ batch.world \in Nat /\ batch.world <= NumWorlds
  <2>1. w0 \in Nat
    BY ActiveIs DEF IInv
  <2>2. batch.purpose = "wind" => batch.world <= w0
    BY <1>1, StartIs DEF IInv, Serves
  <2>3. batch.world <= w0
    BY <1>1, <2>1, <2>2 DEF IInv, Serves
  <2> QED
    BY <1>2, <2>3 DEF Worlds
<1>10. DOMAIN items = 1..Len(batch.slots) /\ items = [i \in DOMAIN items |-> items[i]]
  BY <1>2, <1>5
<1>11. /\ Grows(log, log', {"observation"})
       /\ items \in Seq(Events) /\ Len(items) = Len(batch.slots)
       /\ \A k \in NewOnes :
              /\ log'[k].type = "observation"
              /\ log'[k].skill[1] = log'[k].world
              /\ log'[k].world <= batch.world
              /\ log'[k].kind \in TransferKinds \/ log'[k].world = batch.world
  <2>1. PICK v \in Nat : v = batch.world
    BY <1>9
  <2>2. batch.slots \in Seq(SlotsFor(v)) /\ v <= NumWorlds
    BY <1>2, <1>9, <2>1
  <2>3. /\ Grows(log, log', {"observation"})
        /\ items \in Seq(Events) /\ Len(items) = Len(batch.slots)
        /\ \A k \in NewOnes :
               /\ log'[k].type = "observation"
               /\ log'[k].skill[1] = log'[k].world
               /\ log'[k].world <= v
               /\ log'[k].kind \in TransferKinds \/ log'[k].world = v
    BY <1>2, <1>6, <1>8, <1>10, <2>2, ManyMore DEF IInv
  <2> QED
    BY <2>1, <2>3
<1>12. StartsAreNew
  BY <1>11 DEF StartsAreNew, NewOnes
<1>13. InOrder' /\ w0' = w0 /\ w0 \in Nat /\ Len(log) \in Nat /\ Len(log') \in Nat
       /\ Len(log) <= Len(log')
  BY <1>11, OrderKept, GrowsIs, ActiveIs DEF IInv
<1>14. \A k \in NewOnes : log'[k].world \in Worlds /\ log'[k].world <= w0
  <2>1. \A k \in NewOnes : log'[k].world \in Worlds
    BY <1>11, GrowsIs, EventFields
  <2> QED
    BY <1>9, <1>11, <1>13, <2>1 DEF Worlds
<1>15. NoneAhead'
  BY <1>11, <1>14, AheadKept DEF IInv
<1>16. Past'
  <2>1. \/ batch.world = w0
        \/ \E w \in Worlds : w = batch.world /\ w < w0 /\ LeftUnfinished(w)'
    <3>1. CASE batch.purpose = "wind"
      <4>1. PICK a \in Attempts : a = batch.number
        BY <1>1, <3>1 DEF IInv, Serves
      <4>2. /\ WindStarted(a) /\ Logged("wind_quiz", a) = {}
            /\ StartOf(a).world = batch.world
        BY <1>1, <3>1, <4>1 DEF IInv, Serves
      <4>3. PICK w \in Worlds : w = batch.world
        BY <1>2
      <4>4. LeftUnfinished(w)'
        <5>1. "revived" \notin {"observation"}
          OBVIOUS
        <5> QED
          BY <1>11, <1>12, <4>2, <4>3, <5>1, UnfinishedNow
      <4> QED
        BY <1>9, <1>13, <4>3, <4>4
    <3>2. CASE batch.purpose # "wind"
      BY <1>1, <3>2 DEF IInv, Serves
    <3> QED
      BY <3>1, <3>2
  <2>2. \A k \in NewOnes :
            \/ log'[k].world = w0
            \/ /\ log'[k].type = "observation" /\ log'[k].kind \in TransferKinds
               /\ log'[k].world <= w0
            \/ \E w \in Worlds : w = log'[k].world /\ w < w0 /\ LeftUnfinished(w)'
    BY <1>11, <1>14, <2>1
  <2> QED
    BY <1>11, <1>12, <2>2, PastKept DEF IInv
<1>17. WonSoFar' /\ CurrentBattle' = CurrentBattle
  BY <1>11, WonKept DEF IInv
<1>18. CurrentBattle \in Int /\ CurrentBattle' \in Int /\ CurrentBattle <= CurrentBattle'
  BY <1>17, NowIs
<1>19. WindsInOrder'
  BY <1>11, <1>12, <1>13, <1>18, WindsStay
<1>20. Answered'
  <2>1. \A k \in NewOnes : Passes(k)'
    BY <1>11, NoReply
  <2> QED
    BY <1>11, <2>1, AnsweredKept DEF IInv
<1>21. PICK score : score = CountIf(items, Right)
  OBVIOUS
<1>22. score \in Nat /\ score <= Len(batch.slots)
  <2>1. score = Cardinality({i \in DOMAIN items : Right(items[i])})
    BY <1>21 DEF CountIf
  <2>2. IsFiniteSet(1..Len(batch.slots)) /\ Cardinality(1..Len(batch.slots)) = Len(batch.slots)
    BY <1>2, CountTo
  <2>3. {i \in DOMAIN items : Right(items[i])} \in SUBSET (1..Len(batch.slots))
    BY <1>10
  <2> QED
    BY <2>1, <2>2, <2>3, FS_Subset, FS_CardinalityType
<1>23. /\ batch' \in Batches'
       /\ batch'.slots = batch.slots /\ batch'.purpose = batch.purpose
       /\ batch'.world = batch.world /\ batch'.number = batch.number
       /\ batch'.score = score
  <2>1. batch' = [batch EXCEPT !.revealed = TRUE, !.score = score]
    BY <1>6, <1>21
  <2>2. batch.id \in 1..Len(log')
    <3>1. batch.id \in 1..Len(log)
      BY <1>2 DEF Batches
    <3> QED
      BY <1>13, <3>1
  <2> QED
    BY <1>2, <1>22, <2>1, <2>2 DEF Batches
<1>24. TypeOK'
  <2>1. route' \in 0..NumWorlds
    BY <1>1 DEF IInv, TypeOK
  <2>2. \A n \in DOMAIN log' : log'[n].world \in Worlds
    <3>1. \A n \in DOMAIN log' : log'[n] \in Events
      BY <1>13 DEF InOrder
    <3> QED
      BY <3>1, EventFields
  <2>3. Len(batch.slots) = IF batch.purpose = "battle"
                           THEN ItemCount(batch.world, batch.number) ELSE TrialItems
    BY <1>1 DEF IInv, TypeOK
  <2> QED
    BY <1>22, <1>23, <2>1, <2>2, <2>3 DEF TypeOK
<1>25. Serves'
  <2>1. /\ "activation" \notin {"observation"} /\ "boss" \notin {"observation"}
        /\ "seal" \notin {"observation"} /\ "assisted" \notin {"observation"}
        /\ "wind_quiz" \notin {"observation"}
    OBVIOUS
  <2> QED
    BY <1>1, <1>2, <1>11, <1>12, <1>18, <1>23, <2>1, ServesKept DEF IInv
<1>26. RouteServes'
  BY <1>1, <1>11, RouteKept DEF IInv
<1>27. OneActivity'
  BY <1>1 DEF IInv, OneActivity
<1> QED
  BY <1>13, <1>15, <1>16, <1>17, <1>19, <1>20, <1>24, <1>25, <1>26, <1>27 DEF IInv

-----------------------------------------------------------------------------
(* The next world, and the first.                                           *)

LEMMA NoWins ==
    ASSUME NEW L \in Seq(Events), NEW w, Won(L, w) = {}
    PROVE  Wins(L, w) = FirstOnes(0)
<1>1. Firsts(L, w) = {}
  BY WonAre
<1>2. Cardinality(Firsts(L, w)) = 0
  BY <1>1, FS_EmptySet
<1>3. Wins(L, w) = [k \in 1..Cardinality(Firsts(L, w)) |->
                        L[InPlace(Firsts(L, w))[k]].battle]
  BY WinsAre
<1>4. 1..Cardinality(Firsts(L, w)) = {} /\ 1..0 = {}
  BY <1>2
<1> QED
  BY <1>3, <1>4 DEF FirstOnes

\* One more activation, of the next world.
LEMMA OrderGrows ==
    ASSUME InOrder, NEW e \in Events, log' = Append(log, e), e.type = "activation",
           e.world = w0 + 1, NEW n, n = Len(log) + 1
    PROVE  /\ InOrder' /\ w0' = w0 + 1 /\ Active(n)' = w0 + 1
           /\ n \in DOMAIN log' /\ log'[n] = e
           /\ Activations' = Activations \cup {n}
<1>1. /\ w0 = Cardinality(Activations) /\ w0 \in Nat
      /\ Len(log) \in Nat /\ DOMAIN log = 1..Len(log) /\ 1 \in Activations
      /\ Activations \in SUBSET (1..Len(log))
  BY ActiveIs DEF InOrder
<1>2. Grows(log, log', {"activation"}) /\ NewOnes = {n} /\ log'[n] = e
  BY OneMore
<1>3. /\ DOMAIN log' = 1..n /\ log' \in Seq(Events) /\ n \in Nat
      /\ \A k \in 1..Len(log) : log'[k] = log[k]
  BY <1>1, Appended DEF InOrder
<1>4. Activations' = Activations \cup {n}
  <2>1. ASSUME NEW k \in 1..n
        PROVE  k \in Activations' <=> k \in Activations \cup {n}
    BY <1>1, <1>2, <1>3 DEF Activations, Positions
  <2>2. Activations' \in SUBSET (1..n) /\ Activations \cup {n} \in SUBSET (1..n)
    BY <1>1, <1>3 DEF Activations, Positions
  <2> QED
    BY <2>1, <2>2
<1>12. n \in Int /\ \A k \in Activations \cup {n} : k \in Int /\ k <= n
  <2>1. \A k \in Activations : k \in Int /\ k <= n
    BY <1>1, <1>3
  <2> QED
    BY <1>3, <2>1
<1>5. IsFiniteSet(Activations) /\ n \notin Activations
  BY <1>1, PositionsAre DEF Activations, InOrder
<1>6. Cardinality(Activations \cup {n}) = w0 + 1
  BY <1>1, <1>5, FS_AddElement
<1>7. Active(n)' = w0 + 1
  <2>1. {k \in Activations' : k <= n} = Activations \cup {n}
    BY <1>4, <1>12
  <2> QED
    BY <1>6, <2>1 DEF Active
<1>8. ASSUME NEW k \in Activations
      PROVE  Active(k)' = Active(k) /\ log'[k] = log[k]
  <2>1. UpTo(Activations', k) = UpTo(Activations, k)
    BY <1>1, <1>3, <1>4 DEF UpTo
  <2>2. {j \in Activations' : j <= k} = {j \in Activations : j <= k}
    BY <2>1 DEF UpTo
  <2> QED
    BY <1>1, <1>3, <2>2 DEF Active
<1>9. \A k \in Activations' : log'[k].world = Active(k)'
  <2>1. \A k \in Activations : log[k].world = Active(k)
    BY DEF InOrder
  <2>2. \A k \in Activations : log'[k].world = Active(k)'
    BY <1>8, <2>1
  <2> QED
    BY <1>2, <1>4, <1>7, <2>2
<1>10. InOrder'
  BY <1>1, <1>3, <1>4, <1>9 DEF InOrder
<1>11. w0' = w0 + 1
  <2>1. Activations' \in SUBSET Int /\ IsFiniteSet(Activations') /\ Activations' # {}
    <3>1. IsFiniteSet(Activations \cup {n})
      BY <1>5, FS_AddElement
    <3>2. Activations \cup {n} \in SUBSET Int
      BY <1>12
    <3> QED
      BY <1>4, <3>1, <3>2
  <2>2. Max(Activations') \in Activations' /\ \A k \in Activations' : k <= Max(Activations')
    BY <2>1, MaxIs
  <2>3. Max(Activations') = n
    <3>1. Max(Activations') \in Int /\ Max(Activations') <= n
      BY <1>4, <1>12, <2>2
    <3>2. n <= Max(Activations')
      BY <1>4, <2>2
    <3> QED
      BY <1>12, <3>1, <3>2
  <2>4. w0' = log'[Max(Activations')].world
    BY DEF w0, ActiveWorld, Activations
  <2> QED
    BY <1>2, <2>3, <2>4
<1> QED
  BY <1>2, <1>3, <1>4, <1>7, <1>10, <1>11

LEMMA WorldActivated ==
    ASSUME IInv, ActivateWorld
    PROVE  IInv'
<1>1. /\ w0 < NumWorlds /\ Cleared(log, w0) /\ batch' = batch /\ route' = route
      /\ log' = Append(log, Activation(w0 + 1))
  BY DEF ActivateWorld, CanActivate, ClearedToLeave
<1>2. w0 \in Worlds /\ w0 \in Nat /\ NumWorlds \in Nat /\ Len(log) \in Nat
      /\ DOMAIN log = 1..Len(log)
  BY ActiveIs, CampaignAssumption DEF IInv
<1>3. PICK e : e = Activation(w0 + 1)
  OBVIOUS
<1>4. e \in Events /\ e.type = "activation" /\ e.world = w0 + 1
  BY <1>1, <1>2, <1>3 DEF Activation, Events, Worlds
<1>5. log' = Append(log, e)
  BY <1>1, <1>3
<1>6. PICK n : n = Len(log) + 1
  OBVIOUS
<1>7. /\ InOrder' /\ w0' = w0 + 1 /\ Active(n)' = w0 + 1
      /\ n \in DOMAIN log' /\ log'[n] = e
      /\ Activations' = Activations \cup {n}
  BY <1>4, <1>5, <1>6, OrderGrows DEF IInv
<1>8. Grows(log, log', {"activation"}) /\ NewOnes = {n} /\ (\A k \in NewOnes : log'[k] = e)
  BY <1>4, <1>5, <1>6, OneMore DEF IInv
<1>9. StartsAreNew
  BY <1>4, <1>8 DEF StartsAreNew, NewOnes
<1>10. /\ Len(log') \in Nat /\ Len(log) <= Len(log')
       /\ \A k \in DOMAIN log' : k \in 1..Len(log) \/ k = n
       /\ \A k \in 1..Len(log) : log'[k] = log[k] /\ k \in DOMAIN log
  BY <1>2, <1>8, GrowsIs
<1>11. \A k \in DOMAIN log : log[k].world \in Worlds /\ log[k].world <= w0
  BY DEF IInv, NoneAhead, TypeOK
<1>12. NoneAhead'
  <2>1. \A k \in DOMAIN log' : log'[k].world <= w0 + 1
    BY <1>2, <1>4, <1>7, <1>10, <1>11 DEF Worlds
  <2>2. ASSUME NEW k \in Observed(log')
        PROVE  log'[k].skill[1] = log'[k].world
    <3>1. k \in DOMAIN log' /\ log'[k].type = "observation"
      BY DEF Observed, Positions
    <3>2. k \in 1..Len(log)
      BY <1>4, <1>7, <1>10, <3>1
    <3>3. k \in Observed(log)
      BY <1>10, <3>1, <3>2 DEF Observed, Positions
    <3> QED
      BY <1>10, <3>2, <3>3 DEF IInv, NoneAhead
  <2> QED
    BY <1>7, <2>1, <2>2 DEF NoneAhead
<1>13. Past'
  <2>1. ASSUME NEW k \in 1..Len(log)
        PROVE  \/ InItsWorld(log', Activations', k)
               \/ \E w \in Worlds : w = log'[k].world /\ w < w0' /\ LeftUnfinished(w)'
    <3>1. CASE InItsWorld(log, Activations, k)
      BY <1>8, <3>1, SameInItsWorld DEF Activations
    <3>2. ASSUME NEW w \in Worlds, w = log[k].world, w < w0, LeftUnfinished(w)
          PROVE  w < w0' /\ LeftUnfinished(w)'
      <4>1. w \in Int /\ w0 + 1 # w + 1 /\ w < w0 + 1
        BY <1>2, <3>2 DEF Worlds
      <4>2. \A j \in (Len(log) + 1)..Len(log') :
                log'[j].type = "activation" => log'[j].world # w + 1
        BY <1>4, <1>8, <4>1 DEF NewOnes
      <4> QED
        BY <1>7, <1>8, <1>9, <3>2, <4>1, <4>2, UnfinishedKept
    <3> QED
      BY <1>10, <3>1, <3>2 DEF IInv, Past
  <2>2. InItsWorld(log', Activations', n)
    <3>1. Cardinality({k \in Activations' : k <= n}) = w0 + 1
      BY <1>7 DEF Active
    <3> QED
      BY <1>4, <1>7, <3>1 DEF InItsWorld
  <2> QED
    BY <1>10, <2>1, <2>2 DEF Past
<1>14. WonSoFar' /\ CurrentBattle' \in Int
  <2>1. Won(log, w0 + 1) = {}
    <3>1. \A k \in DOMAIN log : log[k].world # w0 + 1
      BY <1>2, <1>11 DEF Worlds
    <3> QED
      BY <3>1 DEF Won
  <2>2. Wins(log, w0 + 1) = FirstOnes(0)
    BY <2>1, NoWins DEF IInv, InOrder
  <2>3. Wins(log', w0 + 1) = Wins(log, w0 + 1)
    <3>1. "completion" \notin {"activation"} /\ "revived" \notin {"activation"}
      OBVIOUS
    <3> QED
      BY <1>8, <3>1, SameWins
  <2>4. Wins(log, w0)' = FirstOnes(0) /\ 0 \in 0..Len(LeadInItems)
    BY <1>7, <2>2, <2>3, LeadInsAre
  <2> QED
    BY <2>4, NextBattleIs, LeadInsAre
<1>15. WindsInOrder'
  <2>1. WindsFollow
    BY <1>4, <1>8 DEF WindsFollow
  <2>2. \A k \in Positions(log, "started") :
            log[k].world = w0' => log[k].battle <= CurrentBattle'
    BY <1>2, <1>7, <1>11 DEF Positions, Worlds
  <2> QED
    BY <1>8, <1>9, <2>1, <2>2, WindsKept DEF IInv
<1>16. Serves'
  <2>1. SUFFICES ASSUME batch # NoBatch
                 PROVE  /\ batch.slots \in Seq(SlotsFor(batch.world))
                        /\ batch.purpose = "wind" /\ batch.number \in Attempts
                        /\ \E a \in Attempts :
                              /\ a = batch.number
                              /\ WindStarted(a)'
                              /\ Logged("wind_quiz", a)' = {}
                              /\ StartOf(a)'.world = batch.world
    BY <1>1 DEF Serves, WindStarted, StartOf, Logged
  <2>2. BossEvents(log, w0) # {} /\ ~TrialRequired(log, w0)
    BY <1>1 DEF Cleared, TrialRequired
  <2>3. /\ batch.slots \in Seq(SlotsFor(batch.world))
        /\ batch.purpose = "wind" /\ batch.number \in Attempts
        /\ WindStarted(batch.number)
        /\ Logged("wind_quiz", batch.number) = {}
        /\ StartOf(batch.number).world = batch.world
    BY <2>1, <2>2 DEF IInv, Serves
  <2>4. PICK a \in Attempts : a = batch.number
    BY <2>3
  <2>5. WindStarted(a) /\ Logged("wind_quiz", a) = {} /\ StartOf(a).world = batch.world
    BY <2>3, <2>4
  <2>6. WindStarted(a)' /\ StartOf(a)' = StartOf(a)
    BY <1>8, <1>9, <2>5, StartKept
  <2>7. Logged("wind_quiz", a)' = {}
    <3>1. "wind_quiz" \notin {"activation"}
      OBVIOUS
    <3> QED
      BY <1>8, <2>5, <3>1, LoggedAre
  <2> QED
    BY <2>3, <2>4, <2>5, <2>6, <2>7
<1>17. RouteServes'
  <2>1. ~RouteUnlocked(log, w0)
    BY <1>1 DEF RouteUnlocked, TrialRequired
  <2>2. route = 0
    BY <2>1 DEF IInv, RouteServes
  <2> QED
    BY <1>1, <2>2 DEF RouteServes
<1>18. OneActivity'
  BY <1>1 DEF IInv, OneActivity
<1>19. Answered'
  <2>1. Passes(n)'
    BY <1>1, <1>4, <1>5, <1>6, ActivationPasses DEF IInv
  <2>2. \A k \in NewOnes : Passes(k)'
    BY <1>8, <2>1
  <2> QED
    BY <1>8, <2>2, AnsweredKept DEF IInv
<1>20. TypeOK'
  <2>1. route' \in 0..NumWorlds /\ TypeOK
    BY <1>1 DEF IInv, TypeOK
  <2> QED
    BY <1>1, <1>2, <1>7, <1>10, <2>1, TypeKept
<1> QED
  BY <1>7, <1>12, <1>13, <1>14, <1>15, <1>16, <1>17, <1>18, <1>19, <1>20 DEF IInv

LEMMA Initially ==
    ASSUME Init
    PROVE  IInv
<1>1. PICK e : e = Activation(1)
  OBVIOUS
<1>2. NumWorlds \in Nat \ {0}
  BY CampaignAssumption
<1>3. e \in Events /\ e.type = "activation" /\ e.world = 1
  BY <1>1, <1>2 DEF Activation, Events, Worlds
<1>4. log = <<e>> /\ batch = NoBatch /\ route = 0
  BY <1>1 DEF Init
<1>5. log \in Seq(Events) /\ Len(log) = 1 /\ DOMAIN log = {1} /\ log[1] = e
  BY <1>3, <1>4
<1>6. Activations = {1}
  BY <1>3, <1>5 DEF Activations, Positions
<1>7. Cardinality({1}) = 1 /\ IsFiniteSet({1})
  BY FS_Singleton
<1>8. Active(1) = 1
  <2>1. {k \in Activations : k <= 1} = {1}
    BY <1>6
  <2> QED
    BY <1>7, <2>1 DEF Active
<1>9. InOrder
  BY <1>3, <1>5, <1>6, <1>8 DEF InOrder
<1>10. w0 = 1
  BY <1>6, <1>7, <1>9, ActiveIs
<1>11. NoneAhead
  BY <1>3, <1>5, <1>10 DEF NoneAhead, Observed, Positions
<1>12. Past
  <2>1. InItsWorld(log, Activations, 1)
    BY <1>3, <1>5, <1>8 DEF InItsWorld, Active
  <2> QED
    BY <1>5, <2>1 DEF Past
<1>13. WonSoFar
  <2>1. Won(log, w0) = {}
    BY <1>3, <1>5 DEF Won
  <2>2. Wins(log, w0) = FirstOnes(0)
    BY <1>5, <2>1, NoWins
  <2> QED
    BY <2>2, LeadInsAre DEF WonSoFar, FirstOnes
<1>14. WindsInOrder
  BY <1>3, <1>5 DEF WindsInOrder, Positions
<1>15. Serves /\ RouteServes /\ OneActivity
  BY <1>4 DEF Serves, RouteServes, OneActivity
<1>16. TypeOK
  BY <1>2, <1>3, <1>4, <1>5 DEF TypeOK, Worlds
<1>17. Answered
  <2>1. ReplyAccepted(1)
    BY <1>3, <1>5 DEF ReplyAccepted
  <2> QED
    BY <1>3, <1>5, <2>1 DEF Answered
<1> QED
  BY <1>9, <1>11, <1>12, <1>13, <1>14, <1>15, <1>16, <1>17 DEF IInv

LEMMA Inductive ==
    ASSUME IInv, [Next]_vars
    PROVE  IInv'
<1>1. CASE UNCHANGED vars
  <2>1. log' = log /\ batch' = batch /\ route' = route
    BY <1>1 DEF vars
  <2>2. /\ InOrder' /\ NoneAhead' /\ Past' /\ WonSoFar' /\ WindsInOrder' /\ Answered'
    BY <2>1, LogKept
  <2>3. TypeOK'
    BY <2>1 DEF IInv, TypeOK, Batches
  <2>4. Serves'
    BY <2>1 DEF IInv, Serves, WindStarted, StartOf, Logged, w0, CurrentBattle
  <2>5. RouteServes' /\ OneActivity'
    BY <2>1 DEF IInv, RouteServes, OneActivity, w0
  <2> QED
    BY <2>2, <2>3, <2>4, <2>5 DEF IInv
<1> QED
  BY <1>1, BattlePrepared, TrialPrepared, RoutePrepared, Answering, BattleCompleted,
     TrialCompleted, RouteCompleted, WorldActivated, WindStart, WindPrepared,
     WindCompleted, CombatReported DEF Next

-----------------------------------------------------------------------------
(* Locked out.                                                              *)

LEMMA KnownWays ==
    ASSUME IInv
    PROVE  LockedOutKnownWays
<1> SUFFICES ASSUME ~Finished, ~SomethingOpen, ~ShutAtTheGate, ~Orphaned, HistoryValid(log)
             PROVE  FALSE
  BY DEF LockedOutKnownWays, NeverLockedOut
<1>1. PICK m \in 0..Len(LeadInItems) : WonFirst(m)
  BY SomeWon DEF IInv
<1>2. /\ m \in Nat /\ Len(Wins(log, w0)) = m /\ CurrentBattle = m + 1
      /\ CurrentBattle \in 1..Boss /\ Wins(log, w0) = FirstOnes(m)
  BY <1>1, BattleIs DEF WonFirst
<1>3. CurrentBattle = Boss /\ m = Len(LeadInItems) /\ Boss \in Nat /\ Boss \in 1..Boss
  <2>1. ~(CurrentBattle < Boss)
    BY <1>2 DEF SomethingOpen, CanStartWind, LeadInNow
  <2> QED
    BY <1>2, <2>1, LeadInsAre
<1>4. BossEvents(log, w0) = {} => GateOpen(log, w0)
  BY <1>2, <1>3 DEF ShutAtTheGate
<1>5. CASE batch # NoBatch
  <2>1. batch.revealed /\ batch.number \in 1..Max({Boss, MaxTrials, MaxSecondWinds})
    BY <1>5 DEF SomethingOpen, IInv, TypeOK, Batches
  <2>2. CASE batch.purpose = "battle"
    <3>1. /\ batch.world = w0 /\ batch.number <= Boss /\ BossEvents(log, w0) = {}
      BY <1>3, <1>5, <2>2 DEF IInv, Serves
    <3>2. batch.number \in Int /\ batch.number >= 1
      BY <2>1, BoundIs
    <3>3. CASE batch.number = Boss
      <4>1. RevealedFor("battle", w0, Boss) /\ IsCurrentBattle(Boss)
        BY <1>3, <1>4, <1>5, <2>1, <2>2, <3>1, <3>3 DEF RevealedFor, IsCurrentBattle
      <4> QED
        BY <1>3, <4>1 DEF CanCompleteBattle, SomethingOpen
    <3>4. CASE batch.number # Boss
      <4>1. batch.number \in 1..m
        BY <1>2, <1>3, <3>1, <3>2, <3>4
      <4>2. Wins(log, w0)[batch.number] = batch.number
        BY <1>2, <4>1 DEF FirstOnes
      <4>3. Contains(Wins(log, w0), batch.number)
        BY <1>2, <4>1, <4>2 DEF Contains
      <4> QED
        BY <1>5, <2>2, <3>1, <4>3 DEF Orphaned
    <3> QED
      BY <3>3, <3>4
  <2>3. CASE batch.purpose = "seal"
    <3>1. /\ batch.world = w0 /\ TrialRequired(log, w0)
          /\ batch.number = Missed(log, w0) + 1
      BY <1>5, <2>3 DEF IInv, Serves
    <3>2. CanCompleteTrial
      BY <1>5, <2>1, <2>3, <3>1 DEF CanCompleteTrial, RevealedFor
    <3> QED
      BY <3>2 DEF SomethingOpen
  <2>4. CASE batch.purpose = "wind"
    <3>1. PICK a \in Attempts : a = batch.number
      BY <1>5, <2>4 DEF IInv, Serves
    <3>2. /\ WindStarted(a) /\ Logged("wind_quiz", a) = {}
          /\ StartOf(a).world = batch.world
      BY <1>5, <2>4, <3>1 DEF IInv, Serves
    <3>3. CanCompleteWind(a)
      BY <1>5, <2>1, <2>4, <3>1, <3>2 DEF CanCompleteWind, RevealedFor
    <3> QED
      BY <3>3 DEF SomethingOpen
  <2> QED
    BY <1>5, <2>2, <2>3, <2>4 DEF IInv, Serves
<1>6. CASE batch = NoBatch /\ route # 0
  <2>1. route = w0 /\ RouteUnlocked(log, w0)
    BY <1>6 DEF IInv, RouteServes
  <2>2. CanCompleteRoute
    BY <1>6, <2>1 DEF CanCompleteRoute
  <2> QED
    BY <2>2 DEF SomethingOpen
<1>7. CASE batch = NoBatch /\ route = 0
  <2>1. SlotFree
    BY <1>7 DEF SlotFree
  <2>2. CASE BossEvents(log, w0) = {}
    <3>1. WonInOrder(w0)
      BY <1>2 DEF WonInOrder, FirstOnes
    <3>2. CanPrepareBattle
      BY <1>4, <2>1, <2>2, <3>1 DEF CanPrepareBattle
    <3> QED
      BY <3>2 DEF SomethingOpen
  <2>3. CASE BossEvents(log, w0) # {} /\ Cleared(log, w0)
    <3>1. w0 \in Worlds /\ NumWorlds \in Nat
      BY ActiveIs, CampaignAssumption DEF IInv
    <3>2. w0 # NumWorlds
      BY <2>3 DEF Finished
    <3>3. CanActivate
      BY <2>3, <3>1, <3>2 DEF CanActivate, ClearedToLeave, Worlds
    <3> QED
      BY <3>3 DEF SomethingOpen
  <2>4. CASE BossEvents(log, w0) # {} /\ ~Cleared(log, w0)
    <3>1. CanPrepareTrial
      BY <2>1, <2>4 DEF CanPrepareTrial, TrialRequired
    <3> QED
      BY <3>1 DEF SomethingOpen
  <2> QED
    BY <2>2, <2>3, <2>4
<1> QED
  BY <1>5, <1>6, <1>7

-----------------------------------------------------------------------------
(* The gate.                                                                *)

LEMMA BothChecks ==
    ASSUME IInv
    PROVE  CatalogAgrees = HistoryValid(log)
<1>1. ASSUME NEW n \in DOMAIN log
      PROVE  LET active == Cardinality({k \in Activations : k <= n}) IN
             (/\ log[n].type = "activation" => log[n].world = active
              /\ \/ log[n].world = active
                 \/ /\ log[n].type = "observation" /\ log[n].kind \in TransferKinds
                    /\ log[n].world \in 1..active)
             <=> InItsWorld(log, Activations, n)
  <2>1. PICK active : active = Cardinality({k \in Activations : k <= n})
    OBVIOUS
  <2>2. active \in Nat /\ active >= 1
    BY <2>1, ActiveIs DEF Active, IInv
  <2>3. active \in 1..active
    BY <2>2
  <2>4. CASE log[n].type = "observation" /\ log[n].kind \in TransferKinds
    BY <2>1, <2>3, <2>4 DEF InItsWorld
  <2>5. CASE ~(log[n].type = "observation" /\ log[n].kind \in TransferKinds)
    BY <2>1, <2>5 DEF InItsWorld
  <2> QED
    BY <2>4, <2>5
<1>2. CatalogAgrees <=> HistoryValid(log)
  BY <1>1 DEF CatalogAgrees, HistoryValid, Activations
<1> QED
  BY <1>2 DEF CatalogAgrees, HistoryValid

LEMMA LatestAre ==
    ASSUME NEW L \in Seq(Events), NEW w
    PROVE  /\ IsFiniteSet(Latest(L, w)) /\ Cardinality(Latest(L, w)) \in 0..Window
           /\ Cardinality(RightAtFirst(L, Latest(L, w))) <= Cardinality(Latest(L, w))
<1> DEFINE items == WorldItems(L, w)
           S == Latest(L, w)
           R == {p \in S \X S : p[1] > p[2]}
<1>1. items \in SUBSET Int /\ IsFiniteSet(items)
  <2>1. items \in SUBSET Positions(L, "observation")
    BY DEF WorldItems, Observed
  <2> QED
    BY <2>1, PositionsAre, FS_Subset
<1>2. /\ S \in SUBSET items /\ IsFiniteSet(S) /\ S \in SUBSET Int
      /\ \A n \in S : Cardinality({m \in items : m > n}) < Window
  <2>1. S \in SUBSET items /\ \A n \in S : Cardinality({m \in items : m > n}) < Window
    BY DEF Latest
  <2> QED
    BY <1>1, <2>1, FS_Subset
<1> HIDE DEF S, items
<1>3. Orders(R, S)
  BY <1>2 DEF Orders
<1> HIDE DEF R
<1>4. Cardinality(S) \in Nat /\ Window \in Nat
  BY <1>2, FS_CardinalityType, CampaignAssumption
<1>5. Cardinality(S) <= Window
  <2> SUFFICES ASSUME Cardinality(S) > Window
               PROVE  FALSE
    BY <1>4
  <2>1. PICK k \in 1..Cardinality(S) : k = Cardinality(S)
    BY <1>4
  <2>2. PICK x \in S : Cardinality(Under(R, S, x)) = k - 1
    BY <1>2, <1>3, RanksAreUsed
  <2>3. Under(R, S, x) \in SUBSET {m \in items : m > x}
    BY <1>2 DEF Under, R
  <2>4. IsFiniteSet({m \in items : m > x})
    <3>1. {m \in items : m > x} \in SUBSET items
      OBVIOUS
    <3> QED
      BY <1>1, <3>1, FS_Subset
  <2>5. /\ Cardinality(Under(R, S, x)) <= Cardinality({m \in items : m > x})
        /\ Cardinality({m \in items : m > x}) \in Nat
    BY <2>3, <2>4, FS_Subset, FS_CardinalityType
  <2>6. Cardinality({m \in items : m > x}) < Window
    BY <1>2
  <2> QED
    BY <1>4, <2>1, <2>2, <2>5, <2>6
<1>6. Cardinality(RightAtFirst(L, S)) <= Cardinality(S)
  <2>1. RightAtFirst(L, S) \in SUBSET S
    BY DEF RightAtFirst
  <2> QED
    BY <1>2, <2>1, FS_Subset
<1> QED
  BY <1>2, <1>4, <1>5, <1>6 DEF S

LEMMA GateHolds ==
    ASSUME IInv
    PROVE  BossGateResultHolds(BossGate(w0))
<1>1. log \in Seq(Events) /\ w0 \in Worlds
  BY ActiveIs DEF IInv, InOrder
<1>2. PICK m \in 0..Len(LeadInItems) : WonFirst(m)
  BY SomeWon DEF IInv
<1>3. m \in Nat /\ Len(Wins(log, w0)) = m /\ Len(LeadInItems) \in Nat
  BY <1>2, BattleIs, LeadInsAre
<1>4. PICK wins \in 0..Len(LeadInItems) :
          wins = Min({Len(Wins(log, w0)), Len(LeadInItems)})
  <2>1. Min({m, Len(LeadInItems)}) = m
    BY <1>2, <1>3 DEF Min
  <2> QED
    BY <1>3, <2>1
<1> DEFINE latest == Latest(log, w0)
<1>5. /\ Cardinality(latest) \in 0..Window
      /\ Cardinality(RightAtFirst(log, latest)) <= Cardinality(latest)
  BY <1>1, LatestAre
<1>6. Cardinality({s \in ToSet(Core(w0)) : ReadySkill(log, s)}) <= CoreSkills[w0]
  <2>1. {s \in ToSet(Core(w0)) : ReadySkill(log, s)} \in SUBSET ToSet(Core(w0))
    OBVIOUS
  <2>2. IsFiniteSet(ToSet(Core(w0))) /\ Cardinality(ToSet(Core(w0))) = CoreSkills[w0]
    BY <1>1, CoreIs
  <2> QED
    BY <2>1, <2>2, FS_Subset
<1> HIDE DEF latest
<1>7. PICK c : c = [wins |-> wins,
                    items |-> Cardinality(WorldItems(log, w0)),
                    latest |-> Cardinality(latest),
                    latestRight |-> Cardinality(RightAtFirst(log, latest)),
                    skills |-> CoreSkills[w0],
                    ready |-> Cardinality({s \in ToSet(Core(w0)) : ReadySkill(log, s)})]
  OBVIOUS
<1>8. BossGate(w0) = [counts |-> c, unmet |-> Unmet(c), unlocked |-> Unmet(c) = <<>>]
  BY <1>4, <1>7 DEF BossGate, latest
<1>9. /\ c.wins \in 0..Len(LeadInItems) /\ c.latest \in 0..Window
      /\ c.latestRight <= c.latest /\ c.ready <= c.skills
  BY <1>4, <1>5, <1>6, <1>7
<1>10. /\ BossGate(w0).counts = c /\ BossGate(w0).unmet = Unmet(c)
       /\ BossGate(w0).unlocked = (Unmet(c) = <<>>)
  BY <1>8
<1> QED
  BY <1>9, <1>10 DEF BossGateResultHolds

\* The game is offered the step it takes.
LEMMA Offered ==
    ASSUME IInv, NEW last, last = Len(log),
           log[last].type \in {"boss", "seal", "assisted"}, SlotFree, HistoryValid(log)
    PROVE  Offers(NextStep(last), log[last].world)
<1>1. /\ last \in DOMAIN log /\ last \in Nat /\ log \in Seq(Events)
      /\ Activations \in SUBSET (1..last) /\ Max(Activations) \in Activations
  BY ActiveIs DEF IInv, InOrder
<1>2. Active(last) = w0
  <2>1. PICK x : x = Max(Activations)
    OBVIOUS
  <2>2. last >= x
    <3>1. x \in 1..last
      BY <1>1, <2>1
    <3> QED
      BY <1>1, <3>1
  <2> QED
    BY <1>1, <2>1, <2>2, ActiveIs DEF IInv
<1>3. log[last].world = w0
  <2>1. InItsWorld(log, Activations, last)
    BY <1>1 DEF HistoryValid, Activations
  <2> QED
    BY <1>2, <2>1 DEF InItsWorld, Active
<1>4. Upto(last) = log
  BY <1>1 DEF Upto
<1>5. ReplyAccepted(last) /\ (log[last].type = "seal" => BossEvents(log, w0) # {})
  BY <1>1, <1>3, <1>4 DEF IInv, Answered
<1>6. RouteFree
  BY DEF SlotFree, RouteFree
<1>7. CASE log[last].type = "boss"
  <2>1. last \in BossEvents(log, w0)
    BY <1>1, <1>3, <1>7 DEF BossEvents, Positions
  <2>2. NextStep(last) = IF TrialRequired(log, w0) THEN "SealTrial" ELSE "Reward"
    BY <1>3, <1>4, <1>7 DEF NextStep, AfterBattle, BattleReply
  <2>3. CASE TrialRequired(log, w0)
    <3>1. CanPrepareTrial
      BY <2>3 DEF CanPrepareTrial
    <3> QED
      BY <2>2, <2>3, <3>1 DEF Offers
  <2>4. CASE ~TrialRequired(log, w0)
    <3>1. Cleared(log, w0)
      BY <2>1, <2>4 DEF TrialRequired
    <3> QED
      BY <1>3, <2>2, <2>4, <3>1 DEF Offers
  <2> QED
    BY <2>3, <2>4
<1>8. CASE log[last].type = "seal"
  <2>1. NextStep(last) = IF Cleared(log, w0) THEN "Reward"
                         ELSE IF RouteUnlocked(log, w0) THEN "AssistedRoute"
                         ELSE "SealTrial"
    BY <1>3, <1>4, <1>8 DEF NextStep, AfterSeal, SealReply
  <2>2. CASE Cleared(log, w0)
    BY <1>3, <2>1, <2>2 DEF Offers
  <2>3. CASE ~Cleared(log, w0) /\ RouteUnlocked(log, w0)
    <3>1. CanPrepareRoute
      BY <1>6, <2>3 DEF CanPrepareRoute
    <3> QED
      BY <2>1, <2>3, <3>1 DEF Offers
  <2>4. CASE ~Cleared(log, w0) /\ ~RouteUnlocked(log, w0)
    <3>1. CanPrepareTrial
      BY <1>5, <1>8, <2>4 DEF CanPrepareTrial, TrialRequired
    <3> QED
      BY <2>1, <2>4, <3>1 DEF Offers
  <2> QED
    BY <2>2, <2>3, <2>4
<1>9. CASE log[last].type = "assisted"
  <2>1. NextStep(last) = "Reward"
    BY <1>9 DEF NextStep
  <2>2. AssistedRouteCompletedHolds(AssistedReply(last))
    BY <1>5, <1>9 DEF ReplyAccepted
  <2>3. Cleared(log, w0)
    BY <1>3, <1>4, <2>2 DEF AssistedRouteCompletedHolds, AssistedReply
  <2> QED
    BY <1>3, <2>1, <2>3 DEF Offers
<1> QED
  BY <1>7, <1>8, <1>9

LEMMA LeadOn ==
    ASSUME IInv
    PROVE  RepliesLeadOn
<1>1. \A n \in DOMAIN log : ReplyAccepted(n)
  BY DEF IInv, Answered
<1>2. GateAccepted
  BY BothChecks, GateHolds DEF GateAccepted
<1>3. PICK last : last = Len(log)
  OBVIOUS
<1>4. log[last].type \in {"boss", "seal", "assisted"} /\ SlotFree /\ HistoryValid(log)
          => Offers(NextStep(last), log[last].world)
  BY <1>3, Offered
<1> QED
  BY <1>1, <1>2, <1>3, <1>4 DEF RepliesLeadOn

-----------------------------------------------------------------------------
(* What always holds.                                                       *)

LEMMA Always == Spec => []IInv
<1>1. Init => IInv
  BY Initially
<1>2. IInv /\ [Next]_vars => IInv'
  BY Inductive
<1> QED
  BY <1>1, <1>2, PTL DEF Spec

\* The shapes of the variables: a batch is of its purpose's length, its
\* score is no more than it asks, its slots are of skills of the catalog.
THEOREM CampaignTypes == Spec => []TypeOK
<1>1. IInv => TypeOK
  BY DEF IInv
<1> QED
  BY <1>1, Always, PTL

\* Quiz batches and assisted routes live in tables of two stores.  However
\* preparations, answers and completions follow each other, the learner is
\* never in both: each store looks at the other's table before it writes.
THEOREM ActivitiesExclude == Spec => []OneActivity
<1>1. IInv => OneActivity
  BY DEF IInv
<1> QED
  BY <1>1, Always, PTL

\* _validate_campaign_history, on which every preparation and every new
\* session depends, refuses a history only over events of a world that was
\* left while a Second Wind of it was unfinished: no other order of commands,
\* and no slot the planner picks, makes the log of a learner unusable.
THEOREM OnlyLateWindsBreakHistory == Spec => []HistoryBrokenByLateWinds
<1>1. IInv => HistoryBrokenByLateWinds
  BY DEF IInv, Past, HistoryBrokenByLateWinds, Activations
<1> QED
  BY <1>1, Always, PTL

\* A learner who can neither prepare, answer, complete nor leave before the
\* campaign is over is at a shut boss gate, holds a batch whose battle a
\* revived combat won, or has a history that is refused: in a catalog of any
\* size, with any thresholds, there is no fourth way to be stuck.
THEOREM LockedOutOnlyKnownWays == Spec => []LockedOutKnownWays
<1>1. IInv => LockedOutKnownWays
  BY KnownWays
<1> QED
  BY <1>1, Always, PTL

\* Answers of the progression commands, first or repeated, and of the gate
\* query keep to contracts.py and StrictQuizValidator.cs, and the step
\* AuthoritativeProgressionMapper.cs takes next is one the server offers.
THEOREM RepliesAlwaysLeadOn == Spec => []RepliesLeadOn
<1>1. IInv => RepliesLeadOn
  BY LeadOn
<1> QED
  BY <1>1, Always, PTL
=============================================================================
