---------------------------- MODULE CacheRelease ----------------------------
(* The reviewed cache on disk: publish_reviewed_cache builds a generation    *)
(* in a stage, promotes it under the digest of its manifest, and switches    *)
(* current.json to it; ReviewedCacheRelease.open_current reads the pointer   *)
(* and validates what it names.  Several publishers contend for a lock file, *)
(* readers open at any moment, every system call may fail, a publisher may   *)
(* die anywhere, and a power loss gives back only what was synced.           *)
(*                                                                           *)
(* Generations and manifests are one: a generation is named by its manifest, *)
(* and a manifest binds the runtime (model, prompt, curriculum) it was built *)
(* for.  A same-uid process that tampers with names is outside the claims.   *)
EXTENDS CacheBuild, FiniteSets

CONSTANTS Manifests,       \* what the inputs at hand build
          RuntimeOf,       \* the runtime each one is bound to
          Readers,         \* runtimes opening the release
          NoOne, NoPointer, Torn,
          MaxLosses        \* power losses in a behaviour

\* A pointer that is missing, or that is not one, names no manifest.
ASSUME NamesAssumption ==
    /\ NoPointer \notin Manifests /\ Torn \notin Manifests
    /\ NoPointer # Torn /\ NoOne \notin Publishers

VARIABLES generations,     \* the directories under generations/
          syncedNames,     \* those whose entry is on disk
          current,         \* what current.json names
          survivors,       \* what it may name after a power loss
          lock,            \* the holder of .publish.lock
          job,             \* the call of each publisher
          reader,          \* the open of each reader
          adopted,         \* generations found in place and published
          losses

releaseVars == <<generations, syncedNames, current, survivors, lock, job,
                 reader, adopted, losses>>

vars == <<buildVars, releaseVars>>

Runtimes == {RuntimeOf[m] : m \in Manifests}

Pointers == Manifests \cup {NoPointer, Torn}

Outcomes == {"none", "published", "publication_busy", "publication_failed",
             "pointer_durability_uncertain", "published_release_unavailable",
             "publication_cleanup_failed"}

Phases == {"idle", "capture", "stage", "build", "manifest", "syncStage",
           "promote", "syncGenerations", "candidate", "validate", "tidy",
           "attest", "replace", "syncRoot", "reopen",
           "cleanPointer", "cleanLeaves", "unlock"}

\* A candidate pointer is a file whose bytes may not be flushed.
Candidates == {"none", "written", "flushed"}

NoJob == [at |-> "idle", of |-> NoPointer, began |-> NoPointer,
          promoted |-> FALSE, candidate |-> "none", mayHaveSwitched |-> FALSE,
          switched |-> FALSE, durable |-> FALSE, code |-> "none",
          dirty |-> FALSE, outcome |-> "none"]

Jobs == [at : Phases, of : Pointers, began : Pointers, promoted : BOOLEAN,
         candidate : Candidates, mayHaveSwitched : BOOLEAN, switched : BOOLEAN,
         durable : BOOLEAN, code : Outcomes, dirty : BOOLEAN,
         outcome : Outcomes]

ReaderPhases == {"idle", "pointer", "generations", "checkPointer", "checkRoot",
                 "opened"}

NoOpen == [at |-> "idle", of |-> NoPointer, moved |-> {}]

\* moved: which of the three inodes it holds changed since it looked.
Openings == [at : ReaderPhases, of : Pointers,
             moved : SUBSET {"root", "pointer", "generations"}]

TypeOK == /\ BuildTypeOK
          /\ DOMAIN generations \subseteq Manifests
          /\ \A m \in DOMAIN generations : generations[m] \in Stages
          /\ syncedNames \subseteq DOMAIN generations
          /\ current \in Pointers
          /\ survivors \subseteq Pointers
          /\ lock \in Publishers \cup {NoOne}
          /\ job \in [Publishers -> Jobs]
          /\ reader \in [Readers -> Openings]
          /\ adopted \subseteq Manifests
          /\ losses \in 0..MaxLosses

Init == /\ stage = [p \in Publishers |-> NoStage]
        /\ build = [p \in Publishers |-> NoBuild]
        /\ faults = 0
        /\ generations = << >>
        /\ syncedNames = {}
        /\ current = NoPointer
        /\ survivors = {NoPointer}
        /\ lock = NoOne
        /\ job = [p \in Publishers |-> NoJob]
        /\ reader = [r \in Readers |-> NoOpen]
        /\ adopted = {}
        /\ losses = 0

-----------------------------------------------------------------------------
(* What is on disk.                                                          *)

Complete(m) == /\ m \in DOMAIN generations
               /\ generations[m].entries = Files

\* open_pointer: the pointer decodes, its generation holds exactly the two
\* files, digests and rows agree, and the manifest is of this runtime.
Opens(pointer, runtime) == /\ pointer \in Manifests
                            /\ Complete(pointer)
                            /\ RuntimeOf[pointer] = runtime

\* A file of a generation is on disk when its entry and its bytes are.
OnDisk(m) == /\ m \in syncedNames
             /\ Files \subseteq generations[m].synced \cap generations[m].flushed

\* Every identity check of a reader compares change times, so a change of a
\* directory it holds shows even when the names it follows are untouched.
Touch(what) ==
    reader' = [r \in Readers |->
                  [reader[r] EXCEPT !.moved = @ \cup
                      (what \cap (CASE reader[r].at = "pointer" -> {"root"}
                                    [] reader[r].at = "generations" ->
                                            {"root", "pointer"}
                                    [] reader[r].at \in {"checkPointer",
                                                         "checkRoot"} ->
                                            {"root", "pointer", "generations"}
                                    [] OTHER -> {}))]]

-----------------------------------------------------------------------------
(* Steps of a publisher.                                                     *)

At(p, phase) == job[p].at = phase

JobBecomes(p, j) == job' = [job EXCEPT ![p] = j]

Goes(p, phase) == JobBecomes(p, [job[p] EXCEPT !.at = phase])

Disk == <<generations, syncedNames, current, survivors, adopted>>

Rest == <<lock, losses>>

\* (mutant) A pointer whose switch was not synced counts as unchanged.
FailureCodeByDurability(p) ==
    IF job[p].durable THEN "published_release_unavailable"
    ELSE "publication_failed"

\* The code of a failure depends on how far the switch of the pointer got.
FailureCode(p) ==
    CASE ~job[p].mayHaveSwitched -> "publication_failed"
      [] job[p].mayHaveSwitched /\ ~job[p].durable ->
            "pointer_durability_uncertain"
      [] OTHER -> "published_release_unavailable"

Fails(p, code) ==
    JobBecomes(p, [job[p] EXCEPT !.at = "cleanPointer", !.code = code])

\* The directories are opened, the empty lock file is locked without waiting,
\* and the pointer in place is remembered.
Acquire(p, m) ==
    /\ At(p, "idle")
    /\ lock = NoOne
    /\ lock' = p
    /\ JobBecomes(p, [NoJob EXCEPT !.at = "capture", !.of = m, !.began = current])
    /\ stage' = [stage EXCEPT ![p] = NoStage]
    /\ build' = [build EXCEPT ![p] = NoBuild]
    /\ UNCHANGED <<Disk, reader, faults, losses>>

Busy(p) ==
    /\ At(p, "idle")
    /\ lock # NoOne
    /\ job[p].outcome # "publication_busy"
    /\ JobBecomes(p, [NoJob EXCEPT !.outcome = "publication_busy"])
    /\ UNCHANGED <<buildVars, Disk, Rest, reader>>

\* _capture_current_pointer: a pointer in place must open for this runtime.
Capture(p) ==
    /\ At(p, "capture")
    /\ IF current = NoPointer \/ Opens(current, RuntimeOf[job[p].of])
       THEN Goes(p, "stage")
       ELSE Fails(p, "publication_failed")
    /\ UNCHANGED <<buildVars, Disk, Rest, reader>>

\* _create_stage, and the call of build_reviewed_cache in it.
CreateStage(p) ==
    /\ At(p, "stage")
    /\ StageBecomes(p, NewStage)
    /\ StartBuild(p)
    /\ Goes(p, "build")
    /\ Touch({"generations"})
    /\ UNCHANGED <<faults, Disk, Rest>>

Building(p) ==
    /\ At(p, "build")
    /\ BuildStep(p)
    /\ UNCHANGED releaseVars

\* The database of a finished build is opened, flushed and hashed again.
BuildReturns(p) ==
    /\ At(p, "build")
    /\ build[p].at \in {"built", "failed"}
    /\ IF BuildAt(p, "built")
       THEN /\ Goes(p, "manifest")
            /\ StageBecomes(p, Flush(stage[p], "database"))
       ELSE /\ Fails(p, "publication_failed")
            /\ UNCHANGED stage
    /\ build' = [build EXCEPT ![p] = NoBuild]
    /\ UNCHANGED <<faults, Disk, Rest, reader>>

WriteManifest(p) ==
    /\ At(p, "manifest")
    /\ StageBecomes(p, Flush(Put(stage[p], "manifest"), "manifest"))
    /\ Goes(p, "syncStage")
    /\ UNCHANGED <<build, faults, Disk, Rest, reader>>

SyncStage(p) ==
    /\ At(p, "syncStage")
    /\ IF stage[p].entries = Files
       THEN StageBecomes(p, Sync(stage[p])) /\ Goes(p, "promote")
       ELSE Fails(p, "publication_failed") /\ UNCHANGED stage
    /\ UNCHANGED <<build, faults, Disk, Rest, reader>>

\* The exclusive rename to the final name.
Promote(p) ==
    /\ At(p, "promote")
    /\ job[p].of \notin DOMAIN generations
    /\ generations' = [m \in DOMAIN generations \cup {job[p].of} |->
                          IF m = job[p].of THEN stage[p] ELSE generations[m]]
    /\ StageBecomes(p, NoStage)
    /\ JobBecomes(p, [job[p] EXCEPT !.at = "syncGenerations", !.promoted = TRUE])
    /\ Touch({"generations"})
    /\ UNCHANGED <<build, faults, syncedNames, current, survivors, adopted, Rest>>

\* EEXIST: the generation in place is used, and nothing is synced.
Adopt(p) ==
    /\ At(p, "promote")
    /\ job[p].of \in DOMAIN generations
    /\ adopted' = adopted \cup ({job[p].of} \ syncedNames)
    /\ Goes(p, "candidate")
    /\ UNCHANGED <<buildVars, generations, syncedNames, current, survivors,
                   Rest, reader>>

\* (mutant) The promotion is not synced.
PromotionUnsynced(p) ==
    /\ At(p, "syncGenerations")
    /\ Goes(p, "candidate")
    /\ UNCHANGED <<buildVars, Disk, Rest, reader>>

SyncGenerations(p) ==
    /\ At(p, "syncGenerations")
    /\ syncedNames' = DOMAIN generations
    /\ Goes(p, "candidate")
    /\ UNCHANGED <<buildVars, generations, current, survivors, adopted, Rest,
                   reader>>

\* The candidate pointer, written, read-only and flushed.
CreateCandidate(p) ==
    /\ At(p, "candidate")
    /\ JobBecomes(p, [job[p] EXCEPT !.at = "validate", !.candidate = "flushed"])
    /\ Touch({"root"})
    /\ UNCHANGED <<buildVars, Disk, Rest>>

ValidateCandidate(p) ==
    /\ At(p, "validate")
    /\ IF Opens(job[p].of, RuntimeOf[job[p].of]) THEN Goes(p, "tidy")
       ELSE Fails(p, "publication_failed")
    /\ UNCHANGED <<buildVars, Disk, Rest, reader>>

\* A stage that was not promoted is emptied and removed; a directory in it
\* stops the removal, and a failure is ignored here.
Removable(p) == stage[p].there /\ "quarantine" \notin stage[p].entries

Tidy(p) ==
    /\ At(p, "tidy")
    /\ IF ~job[p].promoted /\ Removable(p)
       THEN /\ \/ StageBecomes(p, NoStage) /\ UNCHANGED faults
               \/ Fault /\ UNCHANGED stage
            /\ Touch({"generations"})
       ELSE UNCHANGED <<stage, faults, reader>>
    /\ Goes(p, "attest")
    /\ UNCHANGED <<build, Disk, Rest>>

\* The lock file, the pointer in place and the candidate are still the same.
Attest(p) ==
    /\ At(p, "attest")
    /\ IF current = job[p].began
       THEN JobBecomes(p, [job[p] EXCEPT !.at = "replace", !.mayHaveSwitched = TRUE])
       ELSE Fails(p, "publication_failed")
    /\ UNCHANGED <<buildVars, Disk, Rest, reader>>

\* The rename over current.json, seen at once and on disk later.
SwitchPointer(p) ==
    /\ current' = job[p].of
    /\ survivors' = survivors \cup {job[p].of}
                     \cup (IF job[p].candidate = "flushed" THEN {} ELSE {Torn})
    /\ Touch({"root", "pointer"})

Replace(p) ==
    /\ At(p, "replace")
    /\ SwitchPointer(p)
    /\ JobBecomes(p, [job[p] EXCEPT !.at = "syncRoot", !.switched = TRUE,
                                    !.candidate = "none"])
    /\ UNCHANGED <<buildVars, generations, syncedNames, adopted, Rest>>

SyncRoot(p) ==
    /\ At(p, "syncRoot")
    /\ survivors' = {current}
    /\ JobBecomes(p, [job[p] EXCEPT !.at = "reopen", !.durable = TRUE])
    /\ UNCHANGED <<buildVars, generations, syncedNames, current, adopted, Rest,
                   reader>>

Reopen(p) ==
    /\ At(p, "reopen")
    /\ Fails(p, IF current = job[p].of /\ Opens(current, RuntimeOf[current])
                THEN "published" ELSE "published_release_unavailable")
    /\ UNCHANGED <<buildVars, Disk, Rest, reader>>

-----------------------------------------------------------------------------
(* A publisher that fails: an error or an interrupt at any step.             *)

\* Nothing done, or only what no later step looks at.
StepFails(p) ==
    /\ job[p].at \in {"capture", "stage", "manifest", "syncStage", "promote",
                      "syncGenerations", "candidate", "validate", "attest",
                      "syncRoot", "reopen"}
    /\ Fault
    /\ Fails(p, FailureCode(p))
    /\ Touch(IF job[p].at = "stage" THEN {"generations"}
             ELSE IF job[p].at = "candidate" THEN {"root"} ELSE {})
    /\ UNCHANGED <<stage, build, Disk, Rest>>

\* Interrupted after the promotion, before the flag that records it.
PromoteInterrupted(p) ==
    /\ At(p, "promote")
    /\ job[p].of \notin DOMAIN generations
    /\ Fault
    /\ generations' = [m \in DOMAIN generations \cup {job[p].of} |->
                          IF m = job[p].of THEN stage[p] ELSE generations[m]]
    /\ StageBecomes(p, NoStage)
    /\ Fails(p, "publication_failed")
    /\ Touch({"generations"})
    /\ UNCHANGED <<build, syncedNames, current, survivors, adopted, Rest>>

\* A rename that raised did not take place; an interrupt may come before or
\* after it, and the flag set before the rename tells them from a failure.
ReplaceFails(p) ==
    /\ At(p, "replace")
    /\ Fault
    /\ \/ /\ JobBecomes(p, [job[p] EXCEPT !.at = "cleanPointer",
                                         !.mayHaveSwitched = FALSE,
                                         !.code = "publication_failed"])
          /\ UNCHANGED <<current, survivors, reader>>
       \/ /\ Fails(p, FailureCode(p))
          /\ UNCHANGED <<current, survivors, reader>>
       \/ /\ JobBecomes(p, [job[p] EXCEPT !.at = "cleanPointer",
                                         !.code = FailureCode(p),
                                         !.candidate = "none"])
          /\ SwitchPointer(p)
    /\ UNCHANGED <<stage, build, generations, syncedNames, adopted, Rest>>

\* _cleanup_owned_pointer ignores its own failure.
CleanPointer(p) ==
    /\ At(p, "cleanPointer")
    /\ IF job[p].candidate # "none" /\ ~job[p].switched
       THEN \/ /\ JobBecomes(p, [job[p] EXCEPT !.at = "cleanLeaves",
                                            !.candidate = "none"])
               /\ Touch({"root"})
               /\ UNCHANGED faults
            \/ /\ Goes(p, "cleanLeaves")
               /\ Fault
               /\ UNCHANGED reader
       ELSE Goes(p, "cleanLeaves") /\ UNCHANGED <<faults, reader>>
    /\ UNCHANGED <<stage, build, Disk, Rest>>

\* _cleanup_owned_stage and the ledger of leaves: a stage that stays is
\* reported, if nothing failed before.
CleanLeaves(p) ==
    /\ At(p, "cleanLeaves")
    /\ IF stage[p].there
       THEN /\ \/ /\ Removable(p)
                  /\ StageBecomes(p, NoStage)
                  /\ Goes(p, "unlock")
                  /\ UNCHANGED faults
               \/ /\ ~Removable(p)
                  /\ JobBecomes(p, [job[p] EXCEPT !.at = "unlock", !.dirty = TRUE])
                  /\ UNCHANGED <<stage, faults>>
               \/ /\ Fault
                  /\ JobBecomes(p, [job[p] EXCEPT !.at = "unlock", !.dirty = TRUE])
                  /\ UNCHANGED stage
            /\ Touch({"generations"})
       ELSE Goes(p, "unlock") /\ UNCHANGED <<stage, faults, reader>>
    /\ UNCHANGED <<build, Disk, Rest>>

Outcome(p, dirty) == IF job[p].code = "published" /\ dirty
                     THEN "publication_cleanup_failed" ELSE job[p].code

Ends(p, dirty) == JobBecomes(p, [NoJob EXCEPT !.outcome = Outcome(p, dirty)])

\* The lock goes first, then every descriptor; one that cannot be ended is
\* reported, and a lock that cannot be released stays with the process.
Unlock(p) ==
    /\ At(p, "unlock")
    /\ \/ /\ lock' = NoOne
          /\ Ends(p, job[p].dirty)
          /\ UNCHANGED faults
       \/ /\ Fault
          /\ lock' \in {NoOne, p}
          /\ Ends(p, TRUE)
    /\ UNCHANGED <<stage, build, Disk, losses, reader>>

-----------------------------------------------------------------------------
(* The death of a publisher, and a power loss.  Nobody looks for the stage   *)
(* or the candidate a dead publisher left: their names are random.           *)

Die(p) ==
    /\ job[p].at # "idle" \/ lock = p
    /\ Fault
    /\ JobBecomes(p, NoJob)
    /\ stage' = [stage EXCEPT ![p] = NoStage]
    /\ build' = [build EXCEPT ![p] = NoBuild]
    /\ lock' = IF lock = p THEN NoOne ELSE lock
    /\ UNCHANGED <<Disk, losses, reader>>

\* A name that was not synced and a file that was not flushed may be lost.
Remains(m, files) == [there |-> TRUE, entries |-> files, synced |-> files,
                      flushed |-> files]

MayRemain(m) == {files \in SUBSET generations[m].entries :
                   generations[m].synced \cap generations[m].flushed
                       \subseteq files}

PowerLoss ==
    /\ losses < MaxLosses
    /\ losses' = losses + 1
    /\ \E kept \in SUBSET DOMAIN generations :
         \E files \in [kept -> SUBSET Files] :
            /\ syncedNames \subseteq kept
            /\ \A m \in kept : files[m] \in MayRemain(m)
            /\ generations' = [m \in kept |-> Remains(m, files[m])]
            /\ syncedNames' = kept
    /\ current' \in survivors
    /\ survivors' = {current'}
    /\ job' = [p \in Publishers |-> NoJob]
    /\ stage' = [p \in Publishers |-> NoStage]
    /\ build' = [p \in Publishers |-> NoBuild]
    /\ lock' = NoOne
    /\ reader' = [r \in Readers |-> NoOpen]
    /\ UNCHANGED <<faults, adopted>>

-----------------------------------------------------------------------------
(* Opening the release.                                                      *)

ReaderAt(r, phase) == reader[r].at = phase

OpenGoes(r, phase) == reader' = [reader EXCEPT ![r].at = phase]

Refuse(r) == reader' = [reader EXCEPT ![r] = NoOpen]

Publishing == <<buildVars, Disk, Rest, job>>

\* The root directory is opened and remembered.
StartOpen(r) ==
    /\ reader[r].at \in {"idle", "opened"}
    /\ reader' = [reader EXCEPT ![r] = [NoOpen EXCEPT !.at = "pointer"]]
    /\ UNCHANGED Publishing

ReadPointer(r) ==
    /\ ReaderAt(r, "pointer")
    /\ IF current \in Manifests
       THEN reader' = [reader EXCEPT ![r].at = "generations", ![r].of = current]
       ELSE Refuse(r)
    /\ UNCHANGED Publishing

\* The generation, its manifest and its database; every row is audited, for
\* the runtime of the reader.
OpenGeneration(r, runtime) ==
    /\ ReaderAt(r, "generations")
    /\ IF Opens(reader[r].of, runtime) THEN OpenGoes(r, "checkPointer")
       ELSE Refuse(r)
    /\ UNCHANGED Publishing

CheckPointer(r) ==
    /\ ReaderAt(r, "checkPointer")
    /\ IF "pointer" \in reader[r].moved THEN Refuse(r) ELSE OpenGoes(r, "checkRoot")
    /\ UNCHANGED Publishing

\* (mutant) Only the pointer is checked again.
CheckPointerOnly(r) ==
    /\ ReaderAt(r, "checkRoot")
    /\ OpenGoes(r, "opened")
    /\ UNCHANGED Publishing

CheckRoot(r) ==
    /\ ReaderAt(r, "checkRoot")
    /\ IF {"root", "generations"} \cap reader[r].moved # {} THEN Refuse(r)
       ELSE OpenGoes(r, "opened")
    /\ UNCHANGED Publishing

-----------------------------------------------------------------------------
Publish(p) ==
    \/ \E m \in Manifests : Acquire(p, m)
    \/ Busy(p)
    \/ Capture(p)
    \/ CreateStage(p)
    \/ Building(p)
    \/ BuildReturns(p)
    \/ WriteManifest(p)
    \/ SyncStage(p)
    \/ Promote(p)
    \/ Adopt(p)
    \/ SyncGenerations(p)
    \/ CreateCandidate(p)
    \/ ValidateCandidate(p)
    \/ Tidy(p)
    \/ Attest(p)
    \/ Replace(p)
    \/ SyncRoot(p)
    \/ Reopen(p)
    \/ StepFails(p)
    \/ PromoteInterrupted(p)
    \/ ReplaceFails(p)
    \/ CleanPointer(p)
    \/ CleanLeaves(p)
    \/ Unlock(p)
    \/ Die(p)

Open(r) ==
    \/ StartOpen(r)
    \/ ReadPointer(r)
    \/ \E runtime \in Runtimes : OpenGeneration(r, runtime)
    \/ CheckPointer(r)
    \/ CheckRoot(r)

Next == \/ \E p \in Publishers : Publish(p)
        \/ \E r \in Readers : Open(r)
        \/ PowerLoss

Spec == Init /\ [][Next]_vars

-----------------------------------------------------------------------------
(* Properties.                                                               *)

\* Whatever pointer a power loss leaves names a generation that it leaves too.
SurvivorsAreDurable ==
    \A m \in survivors \cap Manifests : OnDisk(m)

\* The same, but for a generation found in place whose promotion was never
\* synced; no other order of the steps lets the pointer outrun its target.
DurableUnlessAdopted ==
    /\ \A m \in survivors \cap Manifests : m \in adopted \/ OnDisk(m)
    /\ Torn \notin survivors

\* What a call reports is what it left: the pointer it found after a failure,
\* its own one synced, complete and with nothing lying about after a success.
Reported(p) ==
    LET mine == current' = job[p].of /\ survivors' = {job[p].of}
    IN CASE job'[p].outcome = "published" ->
              /\ mine /\ ~stage'[p].there
              /\ \E m \in Manifests : m = job[p].of /\ Complete(m)'
         [] job'[p].outcome \in {"published_release_unavailable",
                                 "publication_cleanup_failed"} -> mine
         [] job'[p].outcome = "pointer_durability_uncertain" ->
              current' \in {job[p].began, job[p].of}
         [] OTHER -> current' = job[p].began

\* The codes are true: the one a failed build returns (BuildCodeIsTrue), and
\* the one a publication returns, said the moment it lets go of the root.
CodesAreTrue ==
    /\ []BuildCodeIsTrue
    /\ [][\A p \in Publishers :
             job[p].at = "unlock" /\ job'[p].outcome # "none" => Reported(p)]_vars

\* An open that succeeds returns what the pointer names at that moment.
OpenedIsCurrent ==
    [][\A r \in Readers :
          reader'[r].at = "opened" /\ reader[r].at # "opened"
             => reader'[r].of = current]_vars
=============================================================================
