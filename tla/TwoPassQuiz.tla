---------------------------- MODULE TwoPassQuiz ----------------------------
(***************************************************************************)
(* What the two-pass quiz promises a learner, with no processes, retries,  *)
(* storage or sessions: the first pass is locked once, scored once and     *)
(* only then disclosed as a bare count; at most one revision follows; the  *)
(* item truth is told only after the reveal; and every item enters the     *)
(* learning record at most once, and only then.                            *)
(***************************************************************************)
CONSTANTS Items, Sheets, NoSheet

VARIABLES
    phase,      \* "open", "locked", "revising", "revealed" or "closed"
    first,      \* the locked first pass
    final,      \* the sheet the reveal scores
    told,       \* what the learner has been told: parts of {"count", "truth"}
    recorded    \* the items whose observation is in the learning record

vars == <<phase, first, final, told, recorded>>

Init == /\ phase = "open"
        /\ first = NoSheet
        /\ final = NoSheet
        /\ told = {}
        /\ recorded = {}

Lock == /\ phase = "open"
        /\ phase' = "locked"
        /\ first' \in Sheets
        /\ UNCHANGED <<final, told, recorded>>

\* A perfect first pass is revealed at once, any other opens the revision.
Score == /\ phase = "locked"
         /\ IF first = Items THEN phase' = "revealed" /\ final' = first
                             ELSE phase' = "revising" /\ UNCHANGED final
         /\ UNCHANGED <<first, told, recorded>>

Revise == /\ phase = "revising"
          /\ phase' = "revealed"
          /\ final' \in Sheets
          /\ UNCHANGED <<first, told, recorded>>

TellCount == /\ phase \in {"revising", "revealed", "closed"}
             /\ told' = told \cup {"count"}
             /\ UNCHANGED <<phase, first, final, recorded>>

TellTruth == /\ phase \in {"revealed", "closed"}
             /\ \E also \in SUBSET {"count"} : told' = told \cup {"truth"} \cup also
             /\ UNCHANGED <<phase, first, final, recorded>>

Record(i) == /\ phase \in {"revealed", "closed"}
             /\ i \notin recorded
             /\ recorded' = recorded \cup {i}
             /\ UNCHANGED <<phase, first, final, told>>

Close == /\ phase = "revealed"
         /\ phase' = "closed"
         /\ UNCHANGED <<first, final, told, recorded>>

Next == \/ Lock
        \/ Score
        \/ Revise
        \/ TellCount
        \/ TellTruth
        \/ Close
        \/ \E i \in Items : Record(i)

Spec == Init /\ [][Next]_vars
=============================================================================
