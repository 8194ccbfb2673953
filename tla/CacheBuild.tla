----------------------------- MODULE CacheBuild -----------------------------
(* build_reviewed_cache: one SQLite database built under a private name,     *)
(* audited, moved to its destination and audited again, in a directory that  *)
(* only its caller knows.  A publisher (CacheRelease) calls it in its stage. *)
(*                                                                           *)
(* A directory is what a process sees in it (entries) and what the disk      *)
(* would give back after a power loss: a file survives when its entry was    *)
(* synced with the directory and its bytes were flushed.  A fault is any     *)
(* failed system call, failed check or interrupt at that point.              *)
EXTENDS Naturals

CONSTANTS Publishers,      \* processes that may build and publish
          MaxFaults        \* faults in a behaviour

VARIABLES stage,           \* the staging directory of each publisher
          build,           \* where its call of build_reviewed_cache is
          faults           \* faults so far

buildVars == <<stage, build, faults>>

Files == {"database", "manifest"}

\* temp: the database under its private name; artifact: the database moved
\* into the quarantine directory.
Entries == Files \cup {"temp", "quarantine", "artifact"}

NoStage == [there |-> FALSE, entries |-> {}, synced |-> {}, flushed |-> {}]

NewStage == [NoStage EXCEPT !.there = TRUE]

Stages == [there : BOOLEAN, entries : SUBSET Entries, synced : SUBSET Entries,
           flushed : SUBSET Entries]

BuildPhases == {"off", "temp", "fill", "place", "syncParent", "audit",
                "quarantine", "discard", "syncRemoval", "failed", "built"}

BuildCodes == {"none", "rejected", "publish_durability_uncertain", "invalid",
               "published_cache_unsafe", "cleanup_durability_uncertain"}

NoBuild == [at |-> "off", code |-> "none", mayBePlaced |-> FALSE]

Builds == [at : BuildPhases, code : BuildCodes, mayBePlaced : BOOLEAN]

BuildTypeOK == /\ stage \in [Publishers -> Stages]
               /\ build \in [Publishers -> Builds]
               /\ faults \in 0..MaxFaults

MayFault == faults < MaxFaults

Fault == MayFault /\ faults' = faults + 1

Sync(dir) == [dir EXCEPT !.synced = dir.entries]

Flush(dir, file) == [dir EXCEPT !.flushed = @ \cup {file}]

Put(dir, entry) == [dir EXCEPT !.entries = @ \cup {entry}]

Drop(dir, gone) == [dir EXCEPT !.entries = @ \ gone, !.flushed = @ \ gone]

\* A rename carries the flushed bytes to the new name.
Rename(dir, from, to) ==
    [dir EXCEPT !.entries = (@ \ {from}) \cup {to},
                !.flushed = (@ \ {from, to})
                              \cup (IF from \in @ THEN {to} ELSE {})]

BuildAt(p, phase) == build[p].at = phase

BuildGoes(p, phase) == build' = [build EXCEPT ![p].at = phase]

StageBecomes(p, dir) == stage' = [stage EXCEPT ![p] = dir]

-----------------------------------------------------------------------------
(* Failing.  The handlers remove the database once it may be at its          *)
(* destination, unless the failure is that its durability is uncertain; the  *)
(* private file is unlinked by the finally clause unless it was renamed.     *)

Removes(p, code) == /\ build[p].mayBePlaced
                    /\ code # "publish_durability_uncertain"

BuildFails(p, code) ==
    build' = [build EXCEPT ![p].at = IF Removes(p, code) THEN "quarantine"
                                     ELSE "failed",
                           ![p].code = code]

\* The unlink of the finally clause ignores its own failure.
Unlinked(dir) == {dir, Drop(dir, {"temp"})}

\* The code a fault raises: a parent that cannot be synced has one of its own.
CodesAt(p) == CASE BuildAt(p, "syncParent") ->
                        {"publish_durability_uncertain", "invalid"}
                [] BuildAt(p, "audit") -> {"invalid"}
                [] OTHER -> {"rejected"}

\* Any read, check, write or interrupt that fails, before the rename or after.
BuildFault(p) ==
    /\ build[p].at \in {"temp", "fill", "place", "syncParent", "audit"}
    /\ Fault
    /\ \E code \in CodesAt(p) : BuildFails(p, code)
    /\ \E dir \in Unlinked(stage[p]) : StageBecomes(p, dir)

\* Interrupted around the rename, whose flag is already set.
PlaceInterrupted(p) ==
    /\ BuildAt(p, "place")
    /\ Fault
    /\ \/ \E dir \in Unlinked(stage[p]) : StageBecomes(p, dir)
       \/ StageBecomes(p, Rename(stage[p], "temp", "database"))
    /\ build' = [build EXCEPT ![p] = [at |-> "quarantine", code |-> "invalid",
                                      mayBePlaced |-> TRUE]]

-----------------------------------------------------------------------------
(* The call.                                                                 *)

StartBuild(p) ==
    build' = [build EXCEPT ![p] = [NoBuild EXCEPT !.at = "temp"]]

\* Nothing at the destination, the trusted read and the decoding of the input;
\* then a fresh private file.
CreateTemp(p) ==
    /\ BuildAt(p, "temp")
    /\ "database" \notin stage[p].entries
    /\ StageBecomes(p, Put(stage[p], "temp"))
    /\ BuildGoes(p, "fill")
    /\ UNCHANGED faults

\* Insert, VACUUM, no sidecar left, the first audit, read-only, flushed.
FillAndFlush(p) ==
    /\ BuildAt(p, "fill")
    /\ StageBecomes(p, Flush(stage[p], "temp"))
    /\ BuildGoes(p, "place")
    /\ UNCHANGED faults

Place(p) ==
    /\ BuildAt(p, "place")
    /\ StageBecomes(p, Rename(stage[p], "temp", "database"))
    /\ build' = [build EXCEPT ![p].at = "syncParent", ![p].mayBePlaced = TRUE]
    /\ UNCHANGED faults

SyncParent(p) ==
    /\ BuildAt(p, "syncParent")
    /\ StageBecomes(p, Sync(stage[p]))
    /\ BuildGoes(p, "audit")
    /\ UNCHANGED faults

\* No sidecar, the second audit equals the first, the same bytes.
AuditPlaced(p) ==
    /\ BuildAt(p, "audit")
    /\ BuildGoes(p, "built")
    /\ UNCHANGED <<stage, faults>>

-----------------------------------------------------------------------------
(* _remove_owned_published_cache: a fresh quarantine directory, the database *)
(* moved into it, identified, unlinked, the directory removed, the parent    *)
(* synced.  A fault on the way leaves what is there and renames the failure. *)

Quarantine(p) ==
    /\ BuildAt(p, "quarantine")
    /\ IF "database" \in stage[p].entries
       THEN /\ StageBecomes(p, Put(Rename(stage[p], "database", "artifact"),
                                   "quarantine"))
            /\ BuildGoes(p, "discard")
       ELSE /\ BuildGoes(p, "syncRemoval")
            /\ UNCHANGED stage
    /\ UNCHANGED faults

Discard(p) ==
    /\ BuildAt(p, "discard")
    /\ StageBecomes(p, Drop(stage[p], {"artifact", "quarantine"}))
    /\ BuildGoes(p, "syncRemoval")
    /\ UNCHANGED faults

SyncRemoval(p) ==
    /\ BuildAt(p, "syncRemoval")
    /\ StageBecomes(p, Sync(stage[p]))
    /\ BuildGoes(p, "failed")
    /\ UNCHANGED faults

\* mkdir or the move fails; then the check of the moved file or its unlink.
RemovalFault(p) ==
    /\ \/ /\ BuildAt(p, "quarantine")
          /\ \E made \in BOOLEAN :
               StageBecomes(p, IF made THEN Put(stage[p], "quarantine")
                               ELSE stage[p])
          /\ build' = [build EXCEPT ![p].at = "failed",
                                    ![p].code = "published_cache_unsafe"]
       \/ /\ BuildAt(p, "discard")
          /\ \E gone \in {{}, {"artifact"}} : StageBecomes(p, Drop(stage[p], gone))
          /\ build' = [build EXCEPT ![p].at = "failed",
                                    ![p].code = "published_cache_unsafe"]
       \/ /\ BuildAt(p, "syncRemoval")
          /\ build' = [build EXCEPT ![p].at = "failed",
                                    ![p].code = "cleanup_durability_uncertain"]
          /\ UNCHANGED stage
    /\ Fault

BuildStep(p) ==
    \/ CreateTemp(p)
    \/ FillAndFlush(p)
    \/ Place(p)
    \/ SyncParent(p)
    \/ AuditPlaced(p)
    \/ Quarantine(p)
    \/ Discard(p)
    \/ SyncRemoval(p)
    \/ BuildFault(p)
    \/ PlaceInterrupted(p)
    \/ RemovalFault(p)

-----------------------------------------------------------------------------
(* What a caller is told.                                                    *)

\* The code of a failed build says what it left at the destination: nothing,
\* unless the commit point was uncertain or the removal itself failed; and
\* nothing that a power loss brings back, unless the code says uncertain.
BuildCodeIsTrue ==
    \A p \in Publishers : BuildAt(p, "failed") =>
        LET uncertain == build[p].code = "publish_durability_uncertain"
            unsafe == build[p].code = "published_cache_unsafe"
            mayReturn == build[p].code = "cleanup_durability_uncertain"
        IN /\ uncertain => "database" \in stage[p].entries
           /\ ~uncertain /\ ~unsafe => "database" \notin stage[p].entries
           /\ ~uncertain /\ ~unsafe /\ ~mayReturn
                => "database" \notin stage[p].synced
=============================================================================
