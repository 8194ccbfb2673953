------------------------- MODULE CacheReleaseProofs -------------------------
(* Theorems of CacheRelease, for any number of publishers, readers,          *)
(* manifests, runtimes, faults and power losses.                             *)
EXTENDS CacheRelease, TLAPS

-----------------------------------------------------------------------------
(* What the operations on a directory do.                                    *)

\* A sync makes every entry survive, a flush the bytes of one file.
LEMMA SyncAndFlush ==
    ASSUME NEW d \in Stages, NEW e \in Entries
    PROVE  /\ Sync(d) \in Stages /\ Flush(d, e) \in Stages
           /\ Sync(d).entries = d.entries /\ Sync(d).synced = d.entries
           /\ Sync(d).flushed = d.flushed
           /\ Flush(d, e).entries = d.entries /\ Flush(d, e).synced = d.synced
           /\ Flush(d, e).flushed = d.flushed \cup {e}
BY DEF Sync, Flush, Stages

\* Adding and removing names leaves alone what a power loss gives back.
LEMMA PutAndDrop ==
    ASSUME NEW d \in Stages, NEW e \in Entries, NEW gone \in SUBSET Entries
    PROVE  /\ Put(d, e) \in Stages /\ Drop(d, gone) \in Stages
           /\ Put(d, e).entries = d.entries \cup {e}
           /\ Put(d, e).synced = d.synced /\ Put(d, e).flushed = d.flushed
           /\ Drop(d, gone).entries = d.entries \ gone
           /\ Drop(d, gone).synced = d.synced
BY DEF Put, Drop, Stages

\* So does a rename.
LEMMA RenameMoves ==
    ASSUME NEW d \in Stages, NEW from \in Entries, NEW to \in Entries
    PROVE  /\ Rename(d, from, to) \in Stages
           /\ to \in Rename(d, from, to).entries
           /\ from # to => from \notin Rename(d, from, to).entries
           /\ Rename(d, from, to).synced = d.synced
BY DEF Rename, Stages

\* The directories there are to begin with.
LEMMA FirstStages ==
    /\ NoStage \in Stages /\ NewStage \in Stages
    /\ NewStage.entries = {} /\ NewStage.synced = {} /\ NewStage.flushed = {}
    /\ ~NoStage.there
BY DEF NoStage, NewStage, Stages

-----------------------------------------------------------------------------
(* The build: what its directory holds in each phase.                        *)

BuildShape == stage \in [Publishers -> Stages] /\ build \in [Publishers -> Builds]

\* What the code of a failed build says is true.
CodeIsTrue(p) ==
    LET uncertain == build[p].code = "publish_durability_uncertain"
        unsafe == build[p].code = "published_cache_unsafe"
        mayReturn == build[p].code = "cleanup_durability_uncertain"
    IN /\ uncertain => "database" \in stage[p].entries
       /\ ~uncertain /\ ~unsafe => "database" \notin stage[p].entries
       /\ ~uncertain /\ ~unsafe /\ ~mayReturn
            => "database" \notin stage[p].synced

\* Nothing is at the destination before the rename; it is until it is taken
\* away again; and only a failure after the rename takes it away.
BuildInv(p) ==
    /\ build[p].at \in {"temp", "fill", "place"} =>
           /\ ~build[p].mayBePlaced
           /\ "database" \notin stage[p].entries \cup stage[p].synced
    /\ build[p].at \in {"syncParent", "audit"} =>
           build[p].mayBePlaced /\ "database" \in stage[p].entries
    /\ build[p].at \in {"quarantine", "discard", "syncRemoval"} =>
           build[p].code = "invalid"
    /\ build[p].at \in {"discard", "syncRemoval"} =>
           "database" \notin stage[p].entries
    /\ build[p].at = "failed" => CodeIsTrue(p)

\* A step that changes the phase and the code of one build.
LEMMA TwoFields ==
    ASSUME build \in [Publishers -> Builds], NEW p \in Publishers,
           NEW phase \in BuildPhases, NEW code \in BuildCodes,
           build' = [build EXCEPT ![p].at = phase, ![p].code = code]
    PROVE  /\ build' \in [Publishers -> Builds]
           /\ \A q \in Publishers \ {p} : build'[q] = build[q]
           /\ build'[p] = [at |-> phase, code |-> code,
                           mayBePlaced |-> build[p].mayBePlaced]
<1>1. /\ build[p] \in Builds
      /\ build[p] = [at |-> build[p].at, code |-> build[p].code,
                     mayBePlaced |-> build[p].mayBePlaced]
      BY DEF Builds
<1>2. build'[p] = [at |-> phase, code |-> code,
                   mayBePlaced |-> build[p].mayBePlaced]
      BY <1>1 DEF Builds
<1>3. \A q \in Publishers \ {p} : build'[q] = build[q]
      OBVIOUS
<1>4. DOMAIN build' = Publishers /\ build' = [q \in Publishers |-> build'[q]]
      OBVIOUS
<1>5. build'[p] \in Builds
      BY <1>1, <1>2 DEF Builds
<1> QED BY <1>2, <1>3, <1>4, <1>5

\* A build touches its own directory only.
LEMMA BuildIsLocal ==
    ASSUME BuildShape, NEW p \in Publishers, BuildStep(p)
    PROVE  /\ BuildShape'
           /\ \A q \in Publishers \ {p} : UNCHANGED <<stage[q], build[q]>>
<1> USE DEF BuildShape
<1>1. stage[p] \in Stages /\ build[p] \in Builds
      OBVIOUS
<1>2. /\ "temp" \in Entries /\ "database" \in Entries
      /\ "artifact" \in Entries /\ "quarantine" \in Entries
      BY DEF Entries, Files
<1>3. /\ Put(stage[p], "temp") \in Stages /\ Put(stage[p], "quarantine") \in Stages
      /\ Put(Rename(stage[p], "database", "artifact"), "quarantine") \in Stages
  <2>1. Rename(stage[p], "database", "artifact") \in Stages
        BY <1>1, <1>2, RenameMoves
  <2>2. QED BY <1>1, <1>2, <2>1, PutAndDrop
<1>4. \A gone \in SUBSET Entries : Drop(stage[p], gone) \in Stages
      BY <1>1, <1>2, PutAndDrop
<1>5. /\ Flush(stage[p], "temp") \in Stages /\ Sync(stage[p]) \in Stages
      /\ Rename(stage[p], "temp", "database") \in Stages
      BY <1>1, <1>2, SyncAndFlush, RenameMoves
<1>6. \A dir \in Unlinked(stage[p]) : dir \in Stages
      BY <1>1, <1>2, <1>4 DEF Unlinked
<1>7. /\ stage' \in [Publishers -> Stages]
      /\ \A q \in Publishers \ {p} : stage'[q] = stage[q]
  <2>1. SUFFICES UNCHANGED stage \/ \E d \in Stages : StageBecomes(p, d)
        BY DEF StageBecomes
  <2>2. CASE CreateTemp(p) \/ Quarantine(p) \/ Discard(p)
        BY <1>2, <1>3, <1>4, <2>2 DEF CreateTemp, Quarantine, Discard
  <2>3. CASE FillAndFlush(p) \/ Place(p) \/ SyncParent(p) \/ SyncRemoval(p)
        BY <1>5, <2>3 DEF FillAndFlush, Place, SyncParent, SyncRemoval
  <2>4. CASE AuditPlaced(p) \/ BuildFault(p) \/ PlaceInterrupted(p)
        BY <1>5, <1>6, <2>4 DEF AuditPlaced, BuildFault, PlaceInterrupted
  <2>5. CASE RemovalFault(p)
        BY <1>1, <1>2, <1>3, <1>4, <2>5 DEF RemovalFault
  <2>6. QED BY <2>2, <2>3, <2>4, <2>5 DEF BuildStep
<1>8. /\ build' \in [Publishers -> Builds]
      /\ \A q \in Publishers \ {p} : build'[q] = build[q]
  <2>1. CASE CreateTemp(p) \/ FillAndFlush(p) \/ Place(p) \/ SyncParent(p)
        BY <2>1 DEF CreateTemp, FillAndFlush, Place, SyncParent, BuildGoes, Builds,
           BuildPhases
  <2>2. CASE AuditPlaced(p) \/ Quarantine(p) \/ Discard(p) \/ SyncRemoval(p)
        BY <2>2 DEF AuditPlaced, Quarantine, Discard, SyncRemoval, BuildGoes, Builds,
           BuildPhases
  <2>3. CASE BuildFault(p)
    <3>1. PICK code \in CodesAt(p) : BuildFails(p, code)
          BY <2>3 DEF BuildFault
    <3>2. code \in BuildCodes
          BY <3>1 DEF CodesAt, BuildCodes
    <3>3. PICK phase \in BuildPhases :
              build' = [build EXCEPT ![p].at = phase, ![p].code = code]
          BY <3>1 DEF BuildFails, BuildPhases
    <3>4. QED BY <3>2, <3>3, TwoFields
  <2>4. CASE PlaceInterrupted(p)
    <3>1. [at |-> "quarantine", code |-> "invalid", mayBePlaced |-> TRUE] \in Builds
          BY DEF Builds, BuildPhases, BuildCodes
    <3>2. QED BY <2>4, <3>1 DEF PlaceInterrupted
  <2>5. CASE RemovalFault(p)
    <3>1. PICK code \in BuildCodes :
              build' = [build EXCEPT ![p].at = "failed", ![p].code = code]
          BY <2>5 DEF RemovalFault, BuildCodes
    <3>2. "failed" \in BuildPhases
          BY DEF BuildPhases
    <3>3. QED BY <3>1, <3>2, TwoFields
  <2>6. QED BY <2>1, <2>2, <2>3, <2>4, <2>5 DEF BuildStep
<1>9. QED BY <1>7, <1>8

\* What is at the destination follows the phases of the build.
LEMMA BuildKeeps ==
    ASSUME BuildShape, NEW p \in Publishers, BuildInv(p), BuildStep(p)
    PROVE  BuildInv(p)'
<1> USE DEF BuildShape
<1>0. BuildShape'
      BY BuildIsLocal
<1>1. stage[p] \in Stages /\ build[p] \in Builds /\ stage'[p] \in Stages
      BY <1>0
<1>2. /\ "temp" \in Entries /\ "database" \in Entries
      /\ "artifact" \in Entries /\ "quarantine" \in Entries
      BY DEF Entries, Files
<1>3. ASSUME NEW dir \in Unlinked(stage[p])
      PROVE  /\ "database" \in dir.entries <=> "database" \in stage[p].entries
             /\ dir.synced = stage[p].synced
      BY <1>1, <1>2, <1>3, PutAndDrop DEF Unlinked
<1>4. ASSUME NEW d \in Stages, StageBecomes(p, d)
      PROVE  stage'[p] = d
      BY <1>1, <1>4 DEF StageBecomes
<1>5. CASE CreateTemp(p)
  <2>1. stage'[p] = Put(stage[p], "temp") /\ build'[p] = [build[p] EXCEPT !.at = "fill"]
        BY <1>1, <1>5 DEF CreateTemp, StageBecomes, BuildGoes
  <2>2. /\ stage'[p].entries = stage[p].entries \cup {"temp"}
        /\ stage'[p].synced = stage[p].synced
        BY <1>1, <1>2, <2>1, PutAndDrop
  <2>3. QED BY <1>1, <1>5, <2>1, <2>2 DEF BuildInv, CreateTemp, BuildAt, Builds
<1>6. CASE FillAndFlush(p)
  <2>1. stage'[p] = Flush(stage[p], "temp") /\ build'[p] = [build[p] EXCEPT !.at = "place"]
        BY <1>1, <1>6 DEF FillAndFlush, StageBecomes, BuildGoes
  <2>2. stage'[p].entries = stage[p].entries /\ stage'[p].synced = stage[p].synced
        BY <1>1, <1>2, <2>1, SyncAndFlush
  <2>3. QED BY <1>1, <1>6, <2>1, <2>2 DEF BuildInv, FillAndFlush, BuildAt, Builds
<1>7. CASE Place(p)
  <2>1. /\ stage'[p] = Rename(stage[p], "temp", "database")
        /\ build'[p].at = "syncParent" /\ build'[p].mayBePlaced
        BY <1>0, <1>1, <1>7 DEF Place, StageBecomes, Builds
  <2>2. "database" \in Rename(stage[p], "temp", "database").entries
        BY <1>1, <1>2, RenameMoves
  <2>3. QED BY <2>1, <2>2 DEF BuildInv
<1>8. CASE SyncParent(p)
  <2>1. stage'[p] = Sync(stage[p]) /\ build'[p] = [build[p] EXCEPT !.at = "audit"]
        BY <1>1, <1>8 DEF SyncParent, StageBecomes, BuildGoes
  <2>2. stage'[p].entries = stage[p].entries
        BY <1>1, <1>2, <2>1, SyncAndFlush
  <2>3. QED BY <1>1, <1>8, <2>1, <2>2 DEF BuildInv, SyncParent, BuildAt, Builds
<1>9. CASE AuditPlaced(p)
  <2>1. build'[p].at = "built"
        BY <1>1, <1>9 DEF AuditPlaced, BuildGoes
  <2>2. QED BY <2>1 DEF BuildInv
<1>10. CASE Quarantine(p)
  <2>1. CASE "database" \in stage[p].entries
    <3>1. Rename(stage[p], "database", "artifact") \in Stages
          BY <1>1, <1>2, RenameMoves
    <3>2. /\ stage'[p] = Put(Rename(stage[p], "database", "artifact"), "quarantine")
          /\ build'[p] = [build[p] EXCEPT !.at = "discard"]
          BY <1>1, <1>10, <2>1 DEF Quarantine, StageBecomes, BuildGoes
    <3>3. "database" \notin Rename(stage[p], "database", "artifact").entries
          BY <1>1, <1>2, RenameMoves
    <3>4. stage'[p].entries
              = Rename(stage[p], "database", "artifact").entries \cup {"quarantine"}
          BY <1>2, <3>1, <3>2, PutAndDrop
    <3>5. "database" \notin stage'[p].entries
          BY <3>3, <3>4
    <3>6. build[p].at = "quarantine" /\ build[p].code = "invalid"
          BY <1>10 DEF BuildInv, Quarantine, BuildAt
    <3>7. build'[p].at = "discard" /\ build'[p].code = "invalid"
          BY <1>1, <3>2, <3>6 DEF Builds
    <3>8. QED BY <3>5, <3>7 DEF BuildInv
  <2>2. CASE "database" \notin stage[p].entries
    <3>1. stage'[p] = stage[p] /\ build'[p] = [build[p] EXCEPT !.at = "syncRemoval"]
          BY <1>1, <1>10, <2>2 DEF Quarantine, BuildGoes
    <3>2. QED BY <1>1, <1>10, <2>2, <3>1 DEF BuildInv, Quarantine, BuildAt, Builds
  <2>3. QED BY <2>1, <2>2
<1>11. CASE Discard(p)
  <2>1. /\ stage'[p] = Drop(stage[p], {"artifact", "quarantine"})
        /\ build'[p] = [build[p] EXCEPT !.at = "syncRemoval"]
        BY <1>1, <1>11 DEF Discard, StageBecomes, BuildGoes
  <2>2. stage'[p].entries \subseteq stage[p].entries
        BY <1>1, <1>2, <2>1, PutAndDrop
  <2>3. QED BY <1>1, <1>11, <2>1, <2>2 DEF BuildInv, Discard, BuildAt, Builds
<1>12. CASE SyncRemoval(p)
  <2>1. stage'[p] = Sync(stage[p]) /\ build'[p] = [build[p] EXCEPT !.at = "failed"]
        BY <1>1, <1>12 DEF SyncRemoval, StageBecomes, BuildGoes
  <2>2. /\ stage'[p].entries = stage[p].entries
        /\ stage'[p].synced = stage[p].entries
        BY <1>1, <1>2, <2>1, SyncAndFlush
  <2>3. build[p].code = "invalid" /\ "database" \notin stage[p].entries
        BY <1>12 DEF BuildInv, SyncRemoval, BuildAt
  <2>4. build'[p].at = "failed" /\ build'[p].code = "invalid"
        BY <1>1, <2>1, <2>3 DEF Builds
  <2>5. QED BY <2>2, <2>3, <2>4 DEF BuildInv, CodeIsTrue
<1>13. CASE BuildFault(p)
  <2>1. PICK code \in CodesAt(p) : BuildFails(p, code)
        BY <1>13 DEF BuildFault
  <2>2. PICK dir \in Unlinked(stage[p]) : StageBecomes(p, dir)
        BY <1>13 DEF BuildFault
  <2>3. /\ "database" \in stage'[p].entries <=> "database" \in stage[p].entries
        /\ stage'[p].synced = stage[p].synced
    <3>1. stage'[p] = dir
          BY <1>1, <2>2 DEF StageBecomes
    <3>2. QED BY <1>3, <3>1
  <2>4. code \in BuildCodes
        BY <2>1 DEF CodesAt, BuildCodes
  <2>5. PICK phase \in BuildPhases :
            /\ phase = IF Removes(p, code) THEN "quarantine" ELSE "failed"
            /\ build' = [build EXCEPT ![p].at = phase, ![p].code = code]
        BY <2>1 DEF BuildFails, BuildPhases
  <2>0. build'[p] = [at |-> phase, code |-> code, mayBePlaced |-> build[p].mayBePlaced]
    <3>1. build' = [build EXCEPT ![p].at = phase, ![p].code = code]
          BY <2>5
    <3>2. QED BY ONLY build \in [Publishers -> Builds], <2>4, <3>1, TwoFields
  <2>6. CASE build[p].at \in {"temp", "fill", "place"}
    <3>1. /\ code = "rejected" /\ ~Removes(p, code)
          /\ "database" \notin stage[p].entries \cup stage[p].synced
          BY <2>1, <2>6 DEF CodesAt, BuildAt, Removes, BuildInv
    <3>2. QED BY <2>3, <2>0, <2>5, <3>1 DEF BuildInv, CodeIsTrue
  <2>7. CASE build[p].at \in {"syncParent", "audit"}
    <3>1. /\ code \in {"publish_durability_uncertain", "invalid"}
          /\ build[p].mayBePlaced /\ "database" \in stage[p].entries
          BY <2>1, <2>7 DEF CodesAt, BuildAt, BuildInv
    <3>2. QED BY <2>3, <2>0, <2>5, <3>1 DEF BuildInv, CodeIsTrue, Removes
  <2>8. QED BY <1>13, <2>6, <2>7 DEF BuildFault
<1>14. CASE PlaceInterrupted(p)
  <2>1. build'[p] = [at |-> "quarantine", code |-> "invalid", mayBePlaced |-> TRUE]
        BY <1>1, <1>14 DEF PlaceInterrupted
  <2>2. QED BY <2>1 DEF BuildInv
<1>15. CASE RemovalFault(p)
  <2>1. CASE build'[p].at = "failed" /\ build'[p].code = "published_cache_unsafe"
        BY <2>1 DEF BuildInv, CodeIsTrue
  <2>2. CASE /\ BuildAt(p, "syncRemoval") /\ UNCHANGED stage
             /\ build'[p].at = "failed"
             /\ build'[p].code = "cleanup_durability_uncertain"
        BY <2>2 DEF BuildInv, CodeIsTrue, BuildAt
  <2>3. PICK code \in BuildCodes :
            /\ build' = [build EXCEPT ![p].at = "failed", ![p].code = code]
            /\ \/ code = "published_cache_unsafe"
               \/ /\ BuildAt(p, "syncRemoval") /\ UNCHANGED stage
                  /\ code = "cleanup_durability_uncertain"
        BY <1>15 DEF RemovalFault, BuildCodes
  <2>4. build'[p] = [at |-> "failed", code |-> code,
                     mayBePlaced |-> build[p].mayBePlaced]
    <3>1. "failed" \in BuildPhases
          BY DEF BuildPhases
    <3>2. QED BY <2>3, <3>1, TwoFields
  <2>5. QED BY <2>1, <2>2, <2>3, <2>4
<1>16. QED BY <1>5, <1>6, <1>7, <1>8, <1>9, <1>10, <1>11, <1>12, <1>13, <1>14, <1>15
           DEF BuildStep

-----------------------------------------------------------------------------
(* The inductive invariant.                                                  *)

Clean == {"cleanPointer", "cleanLeaves", "unlock"}

Before == {"capture", "stage", "build", "manifest", "syncStage", "promote",
           "syncGenerations", "candidate", "validate", "tidy", "attest"}

Shape == /\ BuildShape
         /\ job \in [Publishers -> Jobs]
         /\ reader \in [Readers -> Openings]
         /\ current \in Pointers /\ survivors \subseteq Pointers

\* Both files are there and a power loss leaves them.
Whole(d) == /\ d.entries = Files
            /\ Files \subseteq d.synced \cap d.flushed

\* A generation is promoted whole, and the pointer outruns no name but that of
\* a generation found in place.
Released ==
    /\ DOMAIN generations \subseteq Manifests
    /\ \A m \in DOMAIN generations : Whole(generations[m])
    /\ syncedNames \subseteq DOMAIN generations
    /\ survivors \cap Manifests \subseteq adopted \cup syncedNames
    /\ Torn \notin survivors

\* Whoever publishes holds the lock; its build is over when its call is.
Owned(p) ==
    /\ job[p].at # "idle" => /\ lock = p
                             /\ job[p].of \in Manifests
                             /\ job[p].outcome = "none"
    /\ job[p].at # "build" => build[p].at = "off"

\* How far the stage is from being whole.
Staged(p) ==
    /\ job[p].at = "manifest" => "database" \in stage[p].flushed
    /\ job[p].at = "syncStage" => Files \subseteq stage[p].flushed
    /\ job[p].at = "promote" => Whole(stage[p])

\* What the pointer will name is durable or was found in place, and the bytes
\* of the candidate are on disk before the rename.
Targeted(p) ==
    /\ job[p].at = "syncGenerations" => job[p].of \in DOMAIN generations
    /\ job[p].at \in {"candidate", "validate", "tidy", "attest", "replace",
                      "syncRoot"}
           => job[p].of \in adopted \cup syncedNames
    /\ job[p].at \in {"validate", "tidy", "attest", "replace"}
           => job[p].candidate = "flushed"

\* What the code of a call that is being cleaned up says of the pointer.
CodeHolds(p) ==
    /\ job[p].code \in {"published", "published_release_unavailable",
                        "pointer_durability_uncertain", "publication_failed"}
    /\ job[p].code = "published" => job[p].of \in DOMAIN generations
    /\ job[p].code \in {"published", "published_release_unavailable"}
           => current = job[p].of /\ survivors = {job[p].of}
    /\ job[p].code = "pointer_durability_uncertain"
           => current \in {job[p].began, job[p].of}
    /\ job[p].code = "publication_failed" => current = job[p].began

\* The flags follow the pointer.
Pointed(p) ==
    /\ job[p].at \in Before \cup {"replace"}
           => current = job[p].began /\ ~job[p].durable
    /\ job[p].at \in Before => ~job[p].mayHaveSwitched
    /\ job[p].at \in {"replace", "syncRoot", "reopen"} => job[p].mayHaveSwitched
    /\ job[p].at = "syncRoot" => current = job[p].of /\ ~job[p].durable
    /\ job[p].at = "reopen" => /\ job[p].durable
                               /\ current = job[p].of
                               /\ survivors = {job[p].of}
    /\ job[p].at \in Clean => CodeHolds(p)
    /\ job[p].at = "unlock" /\ stage[p].there => job[p].dirty

PublisherInv(p) == /\ BuildInv(p) /\ Owned(p) /\ Staged(p)
                   /\ Targeted(p) /\ Pointed(p)

\* A reader whose root did not move holds what the pointer names.
ReaderInv(r) ==
    reader[r].at \in {"generations", "checkPointer", "checkRoot"}
        => "root" \in reader[r].moved \/ reader[r].of = current

IInv == /\ Shape
        /\ Released
        /\ \A p \in Publishers : PublisherInv(p)
        /\ \A r \in Readers : ReaderInv(r)

-----------------------------------------------------------------------------
(* One publisher at a time.                                                  *)

\* While one publisher works, the others are between calls.
LEMMA OthersAreIdle ==
    ASSUME IInv, NEW p \in Publishers, job[p].at # "idle" \/ lock = NoOne,
           NEW q \in Publishers \ {p}
    PROVE  job[q].at = "idle"
BY NamesAssumption DEF IInv, PublisherInv, Owned

\* Nothing the disk may do concerns a publisher between calls.
LEMMA IdleRests ==
    ASSUME NEW q \in Publishers, job'[q].at = "idle", BuildInv(q)',
           build'[q].at = "off"
    PROVE  PublisherInv(q)'
BY DEF PublisherInv, Owned, Staged, Targeted, Pointed, Before, Clean

\* A step of a call, with what is left to show for it.
LEMMA CallSteps ==
    ASSUME IInv, NEW p \in Publishers, job[p].at # "idle" \/ lock = NoOne,
           NEW j \in Jobs, JobBecomes(p, j),
           NEW d \in Stages, stage' = [stage EXCEPT ![p] = d],
           NEW b \in Builds, build' = [build EXCEPT ![p] = b],
           current' \in Pointers, survivors' \subseteq Pointers, Released',
           reader' \in [Readers -> Openings], \A r \in Readers : ReaderInv(r)',
           PublisherInv(p)'
    PROVE  IInv'
<1>1. Shape'
      BY DEF IInv, Shape, BuildShape, JobBecomes
<1>2. ASSUME NEW q \in Publishers \ {p}
      PROVE  PublisherInv(q)'
  <2>1. job'[q] = job[q] /\ stage'[q] = stage[q] /\ build'[q] = build[q]
        BY DEF IInv, Shape, BuildShape, JobBecomes
  <2>2. job[q].at = "idle"
        BY OthersAreIdle
  <2>3. BuildInv(q) /\ build[q].at = "off"
        BY <2>2 DEF IInv, PublisherInv, Owned
  <2>4. BuildInv(q)'
        BY <2>1, <2>3 DEF BuildInv, CodeIsTrue
  <2>5. QED BY <2>1, <2>2, <2>3, <2>4, IdleRests
<1>3. QED BY <1>1, <1>2 DEF IInv

\* A change of a directory moves what readers hold; only that of the root may
\* come with another pointer.
LEMMA TouchKeeps ==
    ASSUME IInv, NEW what \in SUBSET {"root", "pointer", "generations"},
           Touch(what), UNCHANGED current \/ "root" \in what
    PROVE  /\ reader' \in [Readers -> Openings]
           /\ \A r \in Readers : ReaderInv(r)'
<1> DEFINE held(r) == CASE reader[r].at = "pointer" -> {"root"}
                        [] reader[r].at = "generations" -> {"root", "pointer"}
                        [] reader[r].at \in {"checkPointer", "checkRoot"} ->
                                {"root", "pointer", "generations"}
                        [] OTHER -> {}
<1>1. ASSUME NEW r \in Readers
      PROVE  /\ reader'[r] \in Openings /\ reader'[r].at = reader[r].at
             /\ reader'[r].of = reader[r].of
             /\ reader'[r].moved = reader[r].moved \cup (what \cap held(r))
  <2>1. reader[r] \in Openings
        BY DEF IInv, Shape
  <2>2. reader'[r] = [reader[r] EXCEPT !.moved = @ \cup (what \cap held(r))]
        BY DEF Touch
  <2>3. what \cap held(r) \subseteq {"root", "pointer", "generations"}
        OBVIOUS
  <2> HIDE DEF held
  <2>4. QED BY <2>1, <2>2, <2>3 DEF Openings
<1>2. reader' \in [Readers -> Openings]
      BY <1>1 DEF Touch
<1>3. ASSUME NEW r \in Readers
      PROVE  ReaderInv(r)'
  <2>1. reader[r].at \in {"generations", "checkPointer", "checkRoot"}
            => "root" \in held(r)
        OBVIOUS
  <2> HIDE DEF held
  <2>2. QED BY <1>1, <2>1 DEF IInv, ReaderInv
<1>4. QED BY <1>2, <1>3

\* So do steps that touch nothing.
LEMMA ReadersKeep ==
    ASSUME IInv, UNCHANGED <<reader, current>>
    PROVE  /\ reader' \in [Readers -> Openings]
           /\ \A r \in Readers : ReaderInv(r)'
BY DEF IInv, Shape, ReaderInv

\* What the disk keeps while it is left alone.
LEMMA DiskKeeps ==
    ASSUME IInv, UNCHANGED Disk
    PROVE  Released' /\ current' \in Pointers /\ survivors' \subseteq Pointers
BY DEF IInv, Shape, Released, Disk

\* The code a failure gets is true of the pointer.
LEMMA FailureCodeHolds ==
    ASSUME IInv, NEW p \in Publishers,
           job[p].at \in Before \cup {"replace", "syncRoot", "reopen"}
    PROVE  /\ FailureCode(p) \in {"publication_failed", "pointer_durability_uncertain",
                                  "published_release_unavailable"}
           /\ FailureCode(p) = "publication_failed" => current = job[p].began
           /\ FailureCode(p) = "pointer_durability_uncertain"
                  => current \in {job[p].began, job[p].of}
           /\ FailureCode(p) = "published_release_unavailable"
                  => current = job[p].of /\ survivors = {job[p].of}
BY DEF IInv, PublisherInv, Pointed, FailureCode, Before
-----------------------------------------------------------------------------
(* The shapes of a step.                                                     *)

\* A step of a call that is neither building nor about to end.
LEMMA WorkSteps ==
    ASSUME IInv, NEW p \in Publishers, job[p].at # "idle",
           NEW j \in Jobs, JobBecomes(p, j), j.at \notin {"idle", "build"},
           j.of = job[p].of, j.outcome = "none",
           NEW d \in Stages, stage' = [stage EXCEPT ![p] = d],
           NEW b \in Builds, b.at = "off", build' = [build EXCEPT ![p] = b],
           UNCHANGED lock, current' \in Pointers, survivors' \subseteq Pointers,
           Released', reader' \in [Readers -> Openings],
           \A r \in Readers : ReaderInv(r)',
           Staged(p)', Targeted(p)', Pointed(p)'
    PROVE  IInv'
<1>1. job'[p] = j /\ build'[p] = b
      BY DEF IInv, Shape, BuildShape, JobBecomes
<1>2. BuildInv(p)'
      BY <1>1 DEF BuildInv
<1>3. Owned(p)'
      BY <1>1 DEF IInv, PublisherInv, Owned
<1>4. PublisherInv(p)'
      BY <1>2, <1>3 DEF PublisherInv
<1>5. QED BY <1>4, CallSteps

\* A call whose build is over, and the parts it may leave alone.
LEMMA BuildIsOff ==
    ASSUME IInv, NEW p \in Publishers
    PROVE  /\ stage[p] \in Stages /\ stage = [stage EXCEPT ![p] = stage[p]]
           /\ build[p] \in Builds /\ build = [build EXCEPT ![p] = build[p]]
           /\ job[p] \in Jobs
           /\ job[p].at # "build" => build[p].at = "off"
BY DEF IInv, Shape, BuildShape, PublisherInv, Owned

\* A step that changes the phase of a call and of nothing else.
LEMMA PhaseSteps ==
    ASSUME IInv, NEW p \in Publishers, job[p].at \notin {"idle", "build"},
           NEW phase \in Phases \ {"idle", "build"}, Goes(p, phase),
           NEW d \in Stages, stage' = [stage EXCEPT ![p] = d],
           UNCHANGED <<build, lock>>,
           current' \in Pointers, survivors' \subseteq Pointers,
           Released', reader' \in [Readers -> Openings],
           \A r \in Readers : ReaderInv(r)',
           Staged(p)', Targeted(p)', Pointed(p)'
    PROVE  IInv'
<1>1. /\ build[p] \in Builds /\ build[p].at = "off" /\ job[p] \in Jobs
      /\ build' = [build EXCEPT ![p] = build[p]]
      BY BuildIsOff
<1> DEFINE j == [job[p] EXCEPT !.at = phase]
<1>2. j \in Jobs /\ j.at = phase /\ j.of = job[p].of /\ j.outcome = job[p].outcome
      BY ONLY <1>1, phase \in Phases DEF Jobs
<1>3. JobBecomes(p, j)
      BY DEF Goes
<1>4. job[p].outcome = "none"
      BY DEF IInv, PublisherInv, Owned
<1> HIDE DEF j
<1>5. QED BY <1>1, <1>2, <1>3, <1>4, WorkSteps

\* The codes a call may fail or end with, and what each says of the pointer.
ClosingCodes == {"published", "published_release_unavailable",
                 "pointer_durability_uncertain", "publication_failed"}

\* A call that fails, with a code that is true.
LEMMA FailureKeeps ==
    ASSUME IInv, NEW p \in Publishers, job[p].at # "idle",
           NEW code \in ClosingCodes, Fails(p, code),
           NEW d \in Stages, stage' = [stage EXCEPT ![p] = d],
           NEW b \in Builds, b.at = "off", build' = [build EXCEPT ![p] = b],
           UNCHANGED <<lock, current, survivors>>, Released',
           reader' \in [Readers -> Openings], \A r \in Readers : ReaderInv(r)',
           code = "published" => job[p].of \in DOMAIN generations',
           code \in {"published", "published_release_unavailable"}
               => current = job[p].of /\ survivors = {job[p].of},
           code = "pointer_durability_uncertain"
               => current \in {job[p].began, job[p].of},
           code = "publication_failed" => current = job[p].began
    PROVE  IInv'
<1>1. job[p] \in Jobs /\ "cleanPointer" \in Phases /\ code \in Outcomes
      BY BuildIsOff DEF Phases, Outcomes, ClosingCodes
<1> DEFINE j == [job[p] EXCEPT !.at = "cleanPointer", !.code = code]
<1>2. /\ j \in Jobs /\ j.at = "cleanPointer" /\ j.of = job[p].of
      /\ j.began = job[p].began /\ j.outcome = job[p].outcome /\ j.code = code
      BY ONLY <1>1 DEF Jobs
<1>3. JobBecomes(p, j)
      BY DEF Fails
<1>4. job[p].outcome = "none" /\ current \in Pointers /\ survivors \subseteq Pointers
      BY DEF IInv, Shape, PublisherInv, Owned
<1> HIDE DEF j
<1>5. job'[p] = j
      BY <1>3 DEF JobBecomes, IInv, Shape
<1>6. Staged(p)' /\ Targeted(p)'
      BY <1>2, <1>5 DEF Staged, Targeted
<1>7. CodeHolds(p)'
      BY <1>2, <1>5 DEF CodeHolds, ClosingCodes
<1>8. Pointed(p)'
      BY <1>2, <1>5, <1>7 DEF Pointed, Before, Clean
<1>9. QED BY <1>2, <1>3, <1>4, <1>6, <1>8, WorkSteps

\* A call that fails with the code the code calls for.
LEMMA FailureCodeKeeps ==
    ASSUME IInv, NEW p \in Publishers,
           job[p].at \in Before \cup {"replace", "syncRoot", "reopen"},
           job[p].at # "build", Fails(p, FailureCode(p)),
           UNCHANGED <<stage, build, lock, Disk>>,
           reader' \in [Readers -> Openings], \A r \in Readers : ReaderInv(r)'
    PROVE  IInv'
<1>1. /\ stage[p] \in Stages /\ stage' = [stage EXCEPT ![p] = stage[p]]
      /\ build[p] \in Builds /\ build' = [build EXCEPT ![p] = build[p]]
      /\ build[p].at = "off"
      BY BuildIsOff
<1>2. FailureCode(p) \in ClosingCodes
      BY FailureCodeHolds DEF ClosingCodes
<1>3. Released' /\ UNCHANGED <<current, survivors>>
      BY DiskKeeps DEF Disk
<1>4. job[p].at # "idle"
      BY DEF Before
<1>5. QED BY <1>1, <1>2, <1>3, <1>4, FailureCodeHolds, FailureKeeps

\* A call that fails before the pointer could be touched.
LEMMA EarlyFailureKeeps ==
    ASSUME IInv, NEW p \in Publishers, job[p].at \in Before,
           Fails(p, "publication_failed"), UNCHANGED <<stage, lock, Disk, reader>>,
           NEW b \in Builds, b.at = "off", build' = [build EXCEPT ![p] = b]
    PROVE  IInv'
<1>1. stage[p] \in Stages /\ stage' = [stage EXCEPT ![p] = stage[p]]
      BY BuildIsOff
<1>2. Released' /\ UNCHANGED <<current, survivors>>
      BY DiskKeeps DEF Disk
<1>3. reader' \in [Readers -> Openings] /\ \A r \in Readers : ReaderInv(r)'
      BY <1>2, ReadersKeep
<1>4. job[p].at # "idle" /\ "publication_failed" \in ClosingCodes
      /\ current = job[p].began
      BY DEF Before, ClosingCodes, IInv, PublisherInv, Pointed
<1>5. QED BY <1>1, <1>2, <1>3, <1>4, FailureKeeps
\* What a change of the phase of a call leaves of it.
LEMMA PhaseFields ==
    ASSUME IInv, NEW p \in Publishers, NEW phase \in Phases, Goes(p, phase)
    PROVE  /\ job'[p].at = phase /\ job'[p].of = job[p].of
           /\ job'[p].began = job[p].began /\ job'[p].promoted = job[p].promoted
           /\ job'[p].candidate = job[p].candidate
           /\ job'[p].mayHaveSwitched = job[p].mayHaveSwitched
           /\ job'[p].switched = job[p].switched
           /\ job'[p].durable = job[p].durable
           /\ job'[p].code = job[p].code /\ job'[p].dirty = job[p].dirty
<1>1. job[p] \in Jobs /\ job'[p] = [job[p] EXCEPT !.at = phase]
      BY DEF IInv, Shape, Goes, JobBecomes
<1>2. QED BY ONLY <1>1, phase \in Phases DEF Jobs

\* A step from one phase before the switch to a later one, that leaves the
\* pointer alone.
LEMMA BeforeSteps ==
    ASSUME IInv, NEW p \in Publishers, job[p].at \in Before \ {"build"},
           NEW phase \in Before \ {"build"}, Goes(p, phase),
           NEW d \in Stages, stage' = [stage EXCEPT ![p] = d],
           UNCHANGED <<build, lock, current, survivors>>, Released',
           reader' \in [Readers -> Openings], \A r \in Readers : ReaderInv(r)',
           Staged(p)', Targeted(p)'
    PROVE  IInv'
<1>1. phase \in Phases \ {"idle", "build"} /\ job[p].at \notin {"idle", "build"}
      BY DEF Before, Phases
<1>2. Pointed(p)'
  <2>1. /\ current = job[p].began /\ ~job[p].durable /\ ~job[p].mayHaveSwitched
        BY DEF IInv, PublisherInv, Pointed
  <2>2. /\ job'[p].at = phase /\ job'[p].began = job[p].began
        /\ job'[p].mayHaveSwitched = job[p].mayHaveSwitched
        /\ job'[p].durable = job[p].durable
        BY <1>1, PhaseFields
  <2>3. QED BY <2>1, <2>2 DEF Pointed, Before, Clean
<1>3. current' \in Pointers /\ survivors' \subseteq Pointers
      BY DEF IInv, Shape
<1>4. QED BY <1>1, <1>2, <1>3, PhaseSteps

-----------------------------------------------------------------------------
(* The steps of a publisher.                                                 *)

LEMMA CaptureKeeps ==
    ASSUME IInv, NEW p \in Publishers, Capture(p)
    PROVE  IInv'
<1>1. /\ job[p].at = "capture" /\ "capture" \in Before \ {"build"}
      /\ "stage" \in Before \ {"build"} /\ "stage" \in Phases
      BY DEF Capture, At, Before, Phases
<1>2. /\ UNCHANGED <<stage, build, lock, Disk, reader>>
      /\ UNCHANGED <<current, survivors>>
      BY DEF Capture, buildVars, Rest, Disk
<1>3. /\ Released' /\ reader' \in [Readers -> Openings]
      /\ \A r \in Readers : ReaderInv(r)'
      BY <1>2, DiskKeeps, ReadersKeep
<1>4. /\ stage[p] \in Stages /\ stage' = [stage EXCEPT ![p] = stage[p]]
      /\ build[p] \in Builds /\ build' = [build EXCEPT ![p] = build[p]]
      /\ build[p].at = "off"
      BY <1>1, <1>2, BuildIsOff
<1>5. CASE Goes(p, "stage")
  <2>1. Staged(p)' /\ Targeted(p)'
        BY <1>1, <1>5, PhaseFields DEF Staged, Targeted
  <2>2. QED BY <1>1, <1>2, <1>3, <1>4, <1>5, <2>1, BeforeSteps
<1>6. CASE Fails(p, "publication_failed")
      BY <1>1, <1>2, <1>4, <1>6, EarlyFailureKeeps
<1>7. QED BY <1>5, <1>6 DEF Capture

LEMMA CreateStageKeeps ==
    ASSUME IInv, NEW p \in Publishers, CreateStage(p)
    PROVE  IInv'
<1>1. /\ job[p].at = "stage" /\ Goes(p, "build") /\ "build" \in Phases
      /\ stage' = [stage EXCEPT ![p] = NewStage] /\ NewStage \in Stages
      /\ UNCHANGED <<Disk, lock>> /\ UNCHANGED <<current, survivors>>
      BY FirstStages DEF CreateStage, At, Phases, StageBecomes, Disk, Rest
<1> DEFINE b == [NoBuild EXCEPT !.at = "temp"]
<1>2. build' = [build EXCEPT ![p] = b] /\ b \in Builds /\ b.at = "temp"
      /\ ~b.mayBePlaced
      BY DEF CreateStage, StartBuild, NoBuild, Builds, BuildPhases, BuildCodes
<1>3. /\ Released' /\ current' \in Pointers /\ survivors' \subseteq Pointers
      /\ reader' \in [Readers -> Openings] /\ \A r \in Readers : ReaderInv(r)'
      BY <1>1, DiskKeeps, TouchKeeps DEF CreateStage
<1> DEFINE j == [job[p] EXCEPT !.at = "build"]
<1>4. job[p] \in Jobs /\ JobBecomes(p, j)
      BY <1>1, BuildIsOff DEF Goes
<1>5. j \in Jobs
      BY ONLY <1>1, <1>4 DEF Jobs
<1> HIDE DEF j, b
<1>6. /\ job'[p].at = "build" /\ job'[p].of = job[p].of
      /\ job'[p].began = job[p].began
      /\ job'[p].mayHaveSwitched = job[p].mayHaveSwitched
      /\ job'[p].durable = job[p].durable /\ job'[p].outcome = "none"
  <2>1. job'[p] = j /\ job[p].outcome = "none"
        BY <1>1, <1>4 DEF IInv, Shape, JobBecomes, PublisherInv, Owned
  <2>2. QED BY <1>1, <1>4, <2>1 DEF j, Jobs
<1>7. PublisherInv(p)'
  <2>1. stage'[p] = NewStage /\ build'[p] = b
        BY <1>1, <1>2 DEF IInv, Shape, BuildShape
  <2>2. BuildInv(p)'
        BY <1>2, <2>1, FirstStages DEF BuildInv
  <2>3. Owned(p)'
        BY <1>1, <1>6 DEF IInv, PublisherInv, Owned
  <2>4. Staged(p)' /\ Targeted(p)'
        BY <1>6 DEF Staged, Targeted
  <2>5. Pointed(p)'
        BY <1>1, <1>6 DEF IInv, PublisherInv, Pointed, Before, Clean
  <2>6. QED BY <2>2, <2>3, <2>4, <2>5 DEF PublisherInv
<1>8. QED BY <1>1, <1>2, <1>3, <1>4, <1>5, <1>7, CallSteps

LEMMA BuildingKeeps ==
    ASSUME IInv, NEW p \in Publishers, Building(p)
    PROVE  IInv'
<1>1. job[p].at = "build" /\ BuildStep(p) /\ UNCHANGED releaseVars
      BY DEF Building, At
<1>2. /\ BuildShape' /\ BuildInv(p)'
      /\ \A q \in Publishers \ {p} : UNCHANGED <<stage[q], build[q]>>
      BY <1>1, BuildIsLocal, BuildKeeps DEF IInv, Shape, PublisherInv
<1>3. Shape' /\ Released' /\ \A r \in Readers : ReaderInv(r)'
      BY <1>1, <1>2 DEF IInv, Shape, Released, ReaderInv, releaseVars
<1>4. ASSUME NEW q \in Publishers \ {p}
      PROVE  PublisherInv(q)'
  <2>1. /\ PublisherInv(q) /\ UNCHANGED <<stage[q], build[q]>>
        /\ job'[q].at = "idle" /\ build[q].at = "off"
        BY <1>1, <1>2, OthersAreIdle DEF IInv, PublisherInv, Owned, releaseVars
  <2>2. BuildInv(q)'
        BY <2>1 DEF BuildInv, CodeIsTrue
  <2>3. QED BY <2>1, <2>2, IdleRests
<1>5. PublisherInv(p)'
  <2>1. Owned(p)' /\ Staged(p)' /\ Targeted(p)'
        BY <1>1 DEF IInv, PublisherInv, Owned, Staged, Targeted, releaseVars
  <2>2. Pointed(p)'
        BY <1>1 DEF IInv, PublisherInv, Pointed, releaseVars, Before, Clean
  <2>3. QED BY <1>2, <2>1, <2>2 DEF PublisherInv
<1>6. QED BY <1>3, <1>4, <1>5 DEF IInv
LEMMA BuildReturnsKeeps ==
    ASSUME IInv, NEW p \in Publishers, BuildReturns(p)
    PROVE  IInv'
<1>1. /\ job[p].at = "build" /\ "manifest" \in Phases
      /\ UNCHANGED <<lock, reader, Disk>> /\ UNCHANGED <<current, survivors>>
      /\ build' = [build EXCEPT ![p] = NoBuild] /\ NoBuild \in Builds
      /\ NoBuild.at = "off"
      BY DEF BuildReturns, At, Phases, Rest, Disk, NoBuild, Builds, BuildPhases,
         BuildCodes
<1>2. /\ Released' /\ current' \in Pointers /\ survivors' \subseteq Pointers
      /\ reader' \in [Readers -> Openings] /\ \A r \in Readers : ReaderInv(r)'
      BY <1>1, DiskKeeps, ReadersKeep
<1>3. CASE Goes(p, "manifest") /\ StageBecomes(p, Flush(stage[p], "database"))
  <2> DEFINE j == [job[p] EXCEPT !.at = "manifest"]
  <2> DEFINE d == Flush(stage[p], "database")
  <2>1. job[p] \in Jobs /\ JobBecomes(p, j) /\ stage[p] \in Stages
        BY <1>3, BuildIsOff DEF Goes
  <2>2. j \in Jobs /\ j.at = "manifest" /\ j.of = job[p].of
        /\ j.outcome = job[p].outcome
        BY ONLY <1>1, <2>1 DEF Jobs
  <2>3. d \in Stages /\ "database" \in d.flushed /\ stage' = [stage EXCEPT ![p] = d]
        BY <1>3, <2>1, SyncAndFlush DEF Entries, Files, StageBecomes
  <2>4. job'[p].at = "manifest" /\ stage'[p] = d
        BY <1>1, <1>3, <2>3, PhaseFields DEF IInv, Shape, BuildShape
  <2> HIDE DEF j, d
  <2>5. Staged(p)' /\ Targeted(p)'
        BY <2>3, <2>4 DEF Staged, Targeted
  <2>6. Pointed(p)'
    <3>1. /\ current = job[p].began /\ ~job[p].durable /\ ~job[p].mayHaveSwitched
          BY <1>1 DEF IInv, PublisherInv, Pointed, Before
    <3>2. /\ job'[p].began = job[p].began
          /\ job'[p].mayHaveSwitched = job[p].mayHaveSwitched
          /\ job'[p].durable = job[p].durable
          BY <1>1, <1>3, PhaseFields
    <3>3. QED BY <1>1, <2>4, <3>1, <3>2 DEF Pointed, Before, Clean
  <2>7. job[p].outcome = "none"
        BY <1>1 DEF IInv, PublisherInv, Owned
  <2>8. QED BY <1>1, <1>2, <2>1, <2>2, <2>3, <2>5, <2>6, <2>7, WorkSteps
<1>4. CASE Fails(p, "publication_failed") /\ UNCHANGED stage
      BY <1>1, <1>4, EarlyFailureKeeps DEF Before
<1>5. QED BY <1>3, <1>4 DEF BuildReturns

LEMMA WriteManifestKeeps ==
    ASSUME IInv, NEW p \in Publishers, WriteManifest(p)
    PROVE  IInv'
<1> DEFINE put == Put(stage[p], "manifest")
<1> DEFINE d == Flush(put, "manifest")
<1>1. /\ job[p].at = "manifest" /\ Goes(p, "syncStage")
      /\ {"manifest", "syncStage"} \subseteq Before \ {"build"}
      /\ "syncStage" \in Phases /\ stage' = [stage EXCEPT ![p] = d]
      /\ UNCHANGED <<build, lock, Disk, reader>>
      /\ UNCHANGED <<current, survivors>>
      BY DEF WriteManifest, At, Phases, Rest, Disk, Before, StageBecomes
<1>2. stage[p] \in Stages /\ "manifest" \in Entries
      BY BuildIsOff DEF Entries, Files
<1>3. put \in Stages /\ put.flushed = stage[p].flushed
      BY <1>2 DEF Put, Stages
<1> HIDE DEF put
<1>4. d \in Stages /\ d.flushed = stage[p].flushed \cup {"manifest"}
      BY <1>2, <1>3, SyncAndFlush
<1> HIDE DEF d
<1>5. job'[p].at = "syncStage" /\ stage'[p] = d
      BY <1>1, PhaseFields DEF IInv, Shape, BuildShape
<1>6. "database" \in stage[p].flushed
      BY <1>1 DEF IInv, PublisherInv, Staged
<1>7. Staged(p)' /\ Targeted(p)'
      BY <1>4, <1>5, <1>6 DEF Staged, Targeted, Files
<1>8. /\ Released' /\ reader' \in [Readers -> Openings]
      /\ \A r \in Readers : ReaderInv(r)'
      BY <1>1, DiskKeeps, ReadersKeep
<1>9. QED BY <1>1, <1>4, <1>7, <1>8, BeforeSteps

LEMMA SyncStageKeeps ==
    ASSUME IInv, NEW p \in Publishers, SyncStage(p)
    PROVE  IInv'
<1>1. /\ job[p].at = "syncStage"
      /\ {"syncStage", "promote"} \subseteq Before \ {"build"}
      /\ "promote" \in Phases /\ UNCHANGED <<build, lock, Disk, reader>>
      /\ UNCHANGED <<current, survivors>>
      BY DEF SyncStage, At, Phases, Rest, Disk, Before
<1>2. /\ stage[p] \in Stages /\ build[p] \in Builds /\ build[p].at = "off"
      /\ build' = [build EXCEPT ![p] = build[p]]
      BY <1>1, BuildIsOff
<1>3. CASE /\ stage[p].entries = Files /\ StageBecomes(p, Sync(stage[p]))
           /\ Goes(p, "promote")
  <2> DEFINE d == Sync(stage[p])
  <2>1. /\ d \in Stages /\ stage' = [stage EXCEPT ![p] = d]
        /\ d.entries = Files /\ d.synced = Files /\ d.flushed = stage[p].flushed
        BY <1>2, <1>3, SyncAndFlush DEF StageBecomes, Entries
  <2> HIDE DEF d
  <2>2. Files \subseteq stage[p].flushed
        BY <1>1 DEF IInv, PublisherInv, Staged
  <2>3. job'[p].at = "promote" /\ stage'[p] = d
        BY <1>1, <1>3, <2>1, PhaseFields DEF IInv, Shape, BuildShape
  <2>4. Staged(p)' /\ Targeted(p)'
        BY <2>1, <2>2, <2>3 DEF Staged, Targeted, Whole
  <2>5. /\ Released' /\ reader' \in [Readers -> Openings]
        /\ \A r \in Readers : ReaderInv(r)'
        BY <1>1, DiskKeeps, ReadersKeep
  <2>6. QED BY <1>1, <1>3, <2>1, <2>4, <2>5, BeforeSteps
<1>4. CASE Fails(p, "publication_failed") /\ UNCHANGED stage
      BY <1>1, <1>2, <1>4, EarlyFailureKeeps
<1>5. QED BY <1>3, <1>4 DEF SyncStage

\* A whole stage becomes a generation.
LEMMA PromotionIsWhole ==
    ASSUME IInv, NEW p \in Publishers, job[p].at = "promote",
           generations' = [m \in DOMAIN generations \cup {job[p].of} |->
                             IF m = job[p].of THEN stage[p] ELSE generations[m]],
           UNCHANGED <<syncedNames, current, survivors, adopted>>
    PROVE  Released' /\ job[p].of \in DOMAIN generations'
<1>1. Whole(stage[p]) /\ job[p].of \in Manifests
      BY DEF IInv, PublisherInv, Staged, Owned
<1>2. ASSUME NEW m \in DOMAIN generations'
      PROVE  Whole(generations[m])'
  <2>1. generations'[m] = stage[p] \/ (m \in DOMAIN generations
                                       /\ generations'[m] = generations[m])
        OBVIOUS
  <2>2. m \in DOMAIN generations => Whole(generations[m])
        BY DEF IInv, Released
  <2>3. QED BY <1>1, <2>1, <2>2 DEF Whole
<1>3. DOMAIN generations' = DOMAIN generations \cup {job[p].of}
      OBVIOUS
<1>4. QED BY <1>1, <1>2, <1>3 DEF IInv, Released

LEMMA PromoteKeeps ==
    ASSUME IInv, NEW p \in Publishers, Promote(p)
    PROVE  IInv'
<1> DEFINE j == [job[p] EXCEPT !.at = "syncGenerations", !.promoted = TRUE]
<1>1. /\ job[p].at = "promote" /\ JobBecomes(p, j)
      /\ stage' = [stage EXCEPT ![p] = NoStage] /\ NoStage \in Stages
      /\ UNCHANGED <<build, syncedNames, current, survivors, adopted, lock>>
      BY FirstStages DEF Promote, At, Rest, StageBecomes
<1>2. Released' /\ job[p].of \in DOMAIN generations'
      BY <1>1, PromotionIsWhole DEF Promote
<1>3. /\ job[p] \in Jobs /\ build[p] \in Builds /\ build[p].at = "off"
      /\ build' = [build EXCEPT ![p] = build[p]]
      /\ "syncGenerations" \in Phases
      BY <1>1, BuildIsOff DEF Phases
<1>4. /\ j \in Jobs /\ j.at = "syncGenerations" /\ j.of = job[p].of
      /\ j.outcome = job[p].outcome /\ j.began = job[p].began
      /\ j.durable = job[p].durable /\ j.mayHaveSwitched = job[p].mayHaveSwitched
      BY ONLY <1>3 DEF Jobs
<1> HIDE DEF j
<1>5. job'[p] = j
      BY <1>1 DEF IInv, Shape, JobBecomes
<1>6. Staged(p)' /\ Targeted(p)'
      BY <1>2, <1>4, <1>5 DEF Staged, Targeted
<1>7. /\ current = job[p].began /\ ~job[p].durable /\ ~job[p].mayHaveSwitched
      /\ job[p].outcome = "none"
      /\ current \in Pointers /\ survivors \subseteq Pointers
      BY <1>1 DEF IInv, Shape, PublisherInv, Owned, Pointed, Before
<1>8. Pointed(p)'
      BY <1>1, <1>4, <1>5, <1>7 DEF Pointed, Before, Clean
<1>9. reader' \in [Readers -> Openings] /\ \A r \in Readers : ReaderInv(r)'
      BY <1>1, TouchKeeps DEF Promote
<1>10. QED BY <1>1, <1>2, <1>3, <1>4, <1>6, <1>7, <1>8, <1>9, WorkSteps

LEMMA AdoptKeeps ==
    ASSUME IInv, NEW p \in Publishers, Adopt(p)
    PROVE  IInv'
<1>1. /\ job[p].at = "promote" /\ Goes(p, "candidate")
      /\ {"promote", "candidate"} \subseteq Before \ {"build"}
      /\ "candidate" \in Phases /\ job[p].of \in DOMAIN generations
      /\ UNCHANGED <<stage, build, lock, reader, generations, syncedNames>>
      /\ UNCHANGED <<current, survivors>>
      BY DEF Adopt, At, Phases, Rest, buildVars, Before
<1>2. adopted' = adopted \cup ({job[p].of} \ syncedNames)
      BY DEF Adopt
<1>3. Released'
      BY <1>1, <1>2 DEF IInv, Released
<1>4. job'[p].at = "candidate" /\ job'[p].of = job[p].of
      BY <1>1, PhaseFields
<1>5. Staged(p)' /\ Targeted(p)'
      BY <1>1, <1>2, <1>4 DEF Staged, Targeted
<1>6. reader' \in [Readers -> Openings] /\ \A r \in Readers : ReaderInv(r)'
      BY <1>1, ReadersKeep
<1>7. stage[p] \in Stages /\ stage' = [stage EXCEPT ![p] = stage[p]]
      BY <1>1, BuildIsOff
<1>8. QED BY <1>1, <1>3, <1>5, <1>6, <1>7, BeforeSteps

LEMMA SyncGenerationsKeeps ==
    ASSUME IInv, NEW p \in Publishers, SyncGenerations(p)
    PROVE  IInv'
<1>1. /\ job[p].at = "syncGenerations" /\ Goes(p, "candidate")
      /\ {"syncGenerations", "candidate"} \subseteq Before \ {"build"}
      /\ "candidate" \in Phases
      /\ UNCHANGED <<stage, build, lock, reader, generations, adopted>>
      /\ UNCHANGED <<current, survivors>>
      BY DEF SyncGenerations, At, Phases, Rest, buildVars, Before
<1>2. syncedNames' = DOMAIN generations
      BY DEF SyncGenerations
<1>3. Released'
      BY <1>1, <1>2 DEF IInv, Released
<1>4. job'[p].at = "candidate" /\ job'[p].of = job[p].of
      BY <1>1, PhaseFields
<1>5. Staged(p)' /\ Targeted(p)'
  <2>1. job[p].of \in DOMAIN generations
        BY <1>1 DEF IInv, PublisherInv, Targeted
  <2>2. QED BY <1>1, <1>2, <1>4, <2>1 DEF Staged, Targeted
<1>6. reader' \in [Readers -> Openings] /\ \A r \in Readers : ReaderInv(r)'
      BY <1>1, ReadersKeep
<1>7. stage[p] \in Stages /\ stage' = [stage EXCEPT ![p] = stage[p]]
      BY <1>1, BuildIsOff
<1>8. QED BY <1>1, <1>3, <1>5, <1>6, <1>7, BeforeSteps

LEMMA CreateCandidateKeeps ==
    ASSUME IInv, NEW p \in Publishers, CreateCandidate(p)
    PROVE  IInv'
<1> DEFINE j == [job[p] EXCEPT !.at = "validate", !.candidate = "flushed"]
<1>1. /\ job[p].at = "candidate" /\ JobBecomes(p, j)
      /\ UNCHANGED <<stage, build, lock, Disk>> /\ UNCHANGED <<current, survivors>>
      /\ UNCHANGED <<adopted, syncedNames>>
      BY DEF CreateCandidate, At, Rest, buildVars, Disk
<1>2. /\ job[p] \in Jobs /\ build[p] \in Builds /\ build[p].at = "off"
      /\ build' = [build EXCEPT ![p] = build[p]]
      /\ stage[p] \in Stages /\ stage' = [stage EXCEPT ![p] = stage[p]]
      /\ "validate" \in Phases /\ "flushed" \in Candidates
      BY <1>1, BuildIsOff DEF Phases, Candidates
<1>3. /\ j \in Jobs /\ j.at = "validate" /\ j.of = job[p].of
      /\ j.outcome = job[p].outcome /\ j.began = job[p].began
      /\ j.candidate = "flushed"
      /\ j.durable = job[p].durable /\ j.mayHaveSwitched = job[p].mayHaveSwitched
      BY ONLY <1>2 DEF Jobs
<1> HIDE DEF j
<1>4. job'[p] = j
      BY <1>1 DEF IInv, Shape, JobBecomes
<1>5. Staged(p)' /\ Targeted(p)'
  <2>1. job[p].of \in adopted \cup syncedNames
        BY <1>1 DEF IInv, PublisherInv, Targeted
  <2>2. QED BY <1>1, <1>3, <1>4, <2>1 DEF Staged, Targeted
<1>6. /\ current = job[p].began /\ ~job[p].durable /\ ~job[p].mayHaveSwitched
      /\ job[p].outcome = "none"
      BY <1>1 DEF IInv, PublisherInv, Owned, Pointed, Before
<1>7. Pointed(p)'
      BY <1>1, <1>3, <1>4, <1>6 DEF Pointed, Before, Clean
<1>8. /\ Released' /\ current' \in Pointers /\ survivors' \subseteq Pointers
      /\ reader' \in [Readers -> Openings] /\ \A r \in Readers : ReaderInv(r)'
      BY <1>1, DiskKeeps, TouchKeeps DEF CreateCandidate
<1>9. QED BY <1>1, <1>2, <1>3, <1>5, <1>6, <1>7, <1>8, WorkSteps

LEMMA ValidateCandidateKeeps ==
    ASSUME IInv, NEW p \in Publishers, ValidateCandidate(p)
    PROVE  IInv'
<1>1. /\ job[p].at = "validate" /\ {"validate", "tidy"} \subseteq Before \ {"build"}
      /\ "tidy" \in Phases /\ UNCHANGED <<stage, build, lock, Disk, reader>>
      /\ UNCHANGED <<current, survivors>> /\ UNCHANGED <<adopted, syncedNames>>
      BY DEF ValidateCandidate, At, Phases, Rest, Disk, Before, buildVars
<1>2. /\ stage[p] \in Stages /\ stage' = [stage EXCEPT ![p] = stage[p]]
      /\ build[p] \in Builds /\ build' = [build EXCEPT ![p] = build[p]]
      /\ build[p].at = "off"
      BY <1>1, BuildIsOff
<1>3. CASE Goes(p, "tidy")
  <2>1. /\ job'[p].at = "tidy" /\ job'[p].of = job[p].of
        /\ job'[p].candidate = job[p].candidate
        BY <1>1, <1>3, PhaseFields
  <2>2. job[p].of \in adopted \cup syncedNames /\ job[p].candidate = "flushed"
        BY <1>1 DEF IInv, PublisherInv, Targeted
  <2>3. Staged(p)' /\ Targeted(p)'
        BY <1>1, <2>1, <2>2 DEF Staged, Targeted
  <2>4. /\ Released' /\ reader' \in [Readers -> Openings]
        /\ \A r \in Readers : ReaderInv(r)'
        BY <1>1, DiskKeeps, ReadersKeep
  <2>5. QED BY <1>1, <1>2, <1>3, <2>3, <2>4, BeforeSteps
<1>4. CASE Fails(p, "publication_failed")
      BY <1>1, <1>2, <1>4, EarlyFailureKeeps
<1>5. QED BY <1>3, <1>4 DEF ValidateCandidate
LEMMA TidyKeeps ==
    ASSUME IInv, NEW p \in Publishers, Tidy(p)
    PROVE  IInv'
<1>1. /\ job[p].at = "tidy" /\ Goes(p, "attest")
      /\ {"tidy", "attest"} \subseteq Before \ {"build"} /\ "attest" \in Phases
      /\ UNCHANGED <<build, lock, Disk>>
      /\ UNCHANGED <<current, survivors>> /\ UNCHANGED <<adopted, syncedNames>>
      BY DEF Tidy, At, Phases, Rest, Disk, Before
<1>2. PICK d \in Stages : stage' = [stage EXCEPT ![p] = d]
      BY BuildIsOff, FirstStages DEF Tidy, StageBecomes
<1>3. /\ job'[p].at = "attest" /\ job'[p].of = job[p].of
      /\ job'[p].candidate = job[p].candidate
      BY <1>1, PhaseFields
<1>4. job[p].of \in adopted \cup syncedNames /\ job[p].candidate = "flushed"
      BY <1>1 DEF IInv, PublisherInv, Targeted
<1>5. Staged(p)' /\ Targeted(p)'
      BY <1>1, <1>3, <1>4 DEF Staged, Targeted
<1>6. Released' /\ reader' \in [Readers -> Openings] /\ \A r \in Readers : ReaderInv(r)'
  <2>1. Touch({"generations"}) \/ UNCHANGED reader
        BY DEF Tidy
  <2>2. QED BY <1>1, <2>1, DiskKeeps, TouchKeeps, ReadersKeep
<1>7. QED BY <1>1, <1>2, <1>5, <1>6, BeforeSteps

LEMMA AttestKeeps ==
    ASSUME IInv, NEW p \in Publishers, Attest(p)
    PROVE  IInv'
<1> DEFINE j == [job[p] EXCEPT !.at = "replace", !.mayHaveSwitched = TRUE]
<1>1. /\ job[p].at = "attest" /\ "attest" \in Before /\ "replace" \in Phases
      /\ UNCHANGED <<stage, build, lock, Disk, reader>>
      /\ UNCHANGED <<current, survivors>> /\ UNCHANGED <<adopted, syncedNames>>
      BY DEF Attest, At, Phases, Rest, Disk, Before, buildVars
<1>2. /\ stage[p] \in Stages /\ stage' = [stage EXCEPT ![p] = stage[p]]
      /\ build[p] \in Builds /\ build' = [build EXCEPT ![p] = build[p]]
      /\ build[p].at = "off" /\ job[p] \in Jobs
      BY <1>1, BuildIsOff
<1>3. CASE JobBecomes(p, j)
  <2>1. /\ j \in Jobs /\ j.at = "replace" /\ j.of = job[p].of
        /\ j.outcome = job[p].outcome /\ j.began = job[p].began
        /\ j.candidate = job[p].candidate
        /\ j.durable = job[p].durable /\ j.mayHaveSwitched
        BY ONLY <1>1, <1>2 DEF Jobs
  <2> HIDE DEF j
  <2>2. job'[p] = j
        BY <1>3 DEF IInv, Shape, JobBecomes
  <2>3. /\ job[p].of \in adopted \cup syncedNames /\ job[p].candidate = "flushed"
        /\ current = job[p].began /\ ~job[p].durable /\ job[p].outcome = "none"
        BY <1>1 DEF IInv, PublisherInv, Owned, Targeted, Pointed
  <2>4. Staged(p)' /\ Targeted(p)'
        BY <1>1, <2>1, <2>2, <2>3 DEF Staged, Targeted
  <2>5. Pointed(p)'
        BY <1>1, <2>1, <2>2, <2>3 DEF Pointed, Before, Clean
  <2>6. /\ Released' /\ current' \in Pointers /\ survivors' \subseteq Pointers
        /\ reader' \in [Readers -> Openings] /\ \A r \in Readers : ReaderInv(r)'
        BY <1>1, DiskKeeps, ReadersKeep
  <2>7. QED BY <1>1, <1>2, <1>3, <2>1, <2>3, <2>4, <2>5, <2>6, WorkSteps
<1>4. CASE Fails(p, "publication_failed")
      BY <1>1, <1>2, <1>4, EarlyFailureKeeps
<1>5. QED BY <1>3, <1>4 DEF Attest

\* A switch names what a power loss keeps, or what was found in place.
LEMMA SwitchIsKept ==
    ASSUME IInv, NEW p \in Publishers, job[p].at = "replace", SwitchPointer(p),
           UNCHANGED <<generations, syncedNames, adopted>>
    PROVE  /\ Released' /\ current' \in Pointers /\ survivors' \subseteq Pointers
           /\ reader' \in [Readers -> Openings] /\ \A r \in Readers : ReaderInv(r)'
           /\ current' = job[p].of
<1>1. /\ job[p].of \in adopted \cup syncedNames /\ job[p].candidate = "flushed"
      /\ job[p].of \in Manifests
      BY DEF IInv, PublisherInv, Targeted, Owned
<1>2. current' = job[p].of /\ survivors' = survivors \cup {job[p].of}
      BY <1>1 DEF SwitchPointer
<1>3. Released'
      BY <1>1, <1>2, NamesAssumption DEF IInv, Released
<1>4. current' \in Pointers /\ survivors' \subseteq Pointers
      BY <1>1, <1>2 DEF IInv, Shape, Pointers
<1>5. QED BY <1>2, <1>3, <1>4, TouchKeeps DEF SwitchPointer

LEMMA ReplaceKeeps ==
    ASSUME IInv, NEW p \in Publishers, Replace(p)
    PROVE  IInv'
<1> DEFINE j == [job[p] EXCEPT !.at = "syncRoot", !.switched = TRUE,
                               !.candidate = "none"]
<1>1. /\ job[p].at = "replace" /\ JobBecomes(p, j) /\ SwitchPointer(p)
      /\ "syncRoot" \in Phases /\ "none" \in Candidates
      /\ UNCHANGED <<stage, build, lock, generations, syncedNames, adopted>>
      BY DEF Replace, At, Phases, Rest, Candidates, buildVars
<1>2. /\ stage[p] \in Stages /\ stage' = [stage EXCEPT ![p] = stage[p]]
      /\ build[p] \in Builds /\ build' = [build EXCEPT ![p] = build[p]]
      /\ build[p].at = "off" /\ job[p] \in Jobs
      BY <1>1, BuildIsOff
<1>3. /\ j \in Jobs /\ j.at = "syncRoot" /\ j.of = job[p].of
      /\ j.outcome = job[p].outcome
      /\ j.durable = job[p].durable /\ j.mayHaveSwitched = job[p].mayHaveSwitched
      BY ONLY <1>1, <1>2 DEF Jobs
<1> HIDE DEF j
<1>4. job'[p] = j
      BY <1>1 DEF IInv, Shape, JobBecomes
<1>5. /\ job[p].of \in adopted \cup syncedNames /\ job[p].mayHaveSwitched
      /\ ~job[p].durable /\ job[p].outcome = "none"
      BY <1>1 DEF IInv, PublisherInv, Owned, Targeted, Pointed
<1>6. /\ Released' /\ current' \in Pointers /\ survivors' \subseteq Pointers
      /\ reader' \in [Readers -> Openings] /\ \A r \in Readers : ReaderInv(r)'
      /\ current' = job[p].of
      BY <1>1, SwitchIsKept
<1>7. Staged(p)' /\ Targeted(p)'
      BY <1>1, <1>3, <1>4, <1>5 DEF Staged, Targeted
<1>8. Pointed(p)'
      BY <1>3, <1>4, <1>5, <1>6 DEF Pointed, Before, Clean
<1>9. QED BY <1>1, <1>2, <1>3, <1>5, <1>6, <1>7, <1>8, WorkSteps

LEMMA SyncRootKeeps ==
    ASSUME IInv, NEW p \in Publishers, SyncRoot(p)
    PROVE  IInv'
<1> DEFINE j == [job[p] EXCEPT !.at = "reopen", !.durable = TRUE]
<1>1. /\ job[p].at = "syncRoot" /\ JobBecomes(p, j) /\ "reopen" \in Phases
      /\ survivors' = {current}
      /\ UNCHANGED <<stage, build, lock, generations, syncedNames, adopted>>
      /\ UNCHANGED <<reader, current>>
      BY DEF SyncRoot, At, Phases, Rest, buildVars
<1>2. /\ stage[p] \in Stages /\ stage' = [stage EXCEPT ![p] = stage[p]]
      /\ build[p] \in Builds /\ build' = [build EXCEPT ![p] = build[p]]
      /\ build[p].at = "off" /\ job[p] \in Jobs
      BY <1>1, BuildIsOff
<1>3. /\ j \in Jobs /\ j.at = "reopen" /\ j.of = job[p].of
      /\ j.outcome = job[p].outcome
      /\ j.durable /\ j.mayHaveSwitched = job[p].mayHaveSwitched
      BY ONLY <1>1, <1>2 DEF Jobs
<1> HIDE DEF j
<1>4. job'[p] = j
      BY <1>1 DEF IInv, Shape, JobBecomes
<1>5. /\ job[p].of \in adopted \cup syncedNames /\ job[p].mayHaveSwitched
      /\ current = job[p].of /\ job[p].outcome = "none" /\ job[p].of \in Manifests
      BY <1>1 DEF IInv, PublisherInv, Owned, Targeted, Pointed
<1>6. /\ Released' /\ current' \in Pointers /\ survivors' \subseteq Pointers
  <2>1. Released'
        BY <1>1, <1>5, NamesAssumption DEF IInv, Released
  <2>2. QED BY <1>1, <1>5, <2>1 DEF Pointers
<1>7. reader' \in [Readers -> Openings] /\ \A r \in Readers : ReaderInv(r)'
      BY <1>1, ReadersKeep
<1>8. Staged(p)' /\ Targeted(p)'
      BY <1>3, <1>4 DEF Staged, Targeted
<1>9. Pointed(p)'
      BY <1>1, <1>3, <1>4, <1>5 DEF Pointed, Before, Clean
<1>10. QED BY <1>1, <1>2, <1>3, <1>5, <1>6, <1>7, <1>8, <1>9, WorkSteps

LEMMA ReopenKeeps ==
    ASSUME IInv, NEW p \in Publishers, Reopen(p)
    PROVE  IInv'
<1>1. /\ job[p].at = "reopen" /\ UNCHANGED <<stage, build, lock, Disk, reader>>
      /\ UNCHANGED <<current, survivors>> /\ UNCHANGED generations
      BY DEF Reopen, At, Rest, Disk, buildVars
<1>2. /\ stage[p] \in Stages /\ stage' = [stage EXCEPT ![p] = stage[p]]
      /\ build[p] \in Builds /\ build' = [build EXCEPT ![p] = build[p]]
      /\ build[p].at = "off"
      BY <1>1, BuildIsOff
<1>3. current = job[p].of /\ survivors = {job[p].of}
      BY <1>1 DEF IInv, PublisherInv, Pointed
<1>4. /\ Released' /\ reader' \in [Readers -> Openings]
      /\ \A r \in Readers : ReaderInv(r)'
      BY <1>1, DiskKeeps, ReadersKeep
<1>5. PICK code \in {"published", "published_release_unavailable"} :
          /\ Fails(p, code)
          /\ code = "published" => Opens(current, RuntimeOf[current])
      BY DEF Reopen
<1>6. /\ code = "published" => job[p].of \in DOMAIN generations'
      /\ code \in ClosingCodes
      BY <1>1, <1>3, <1>5 DEF Opens, Complete, ClosingCodes
<1>7. QED BY <1>1, <1>2, <1>3, <1>4, <1>5, <1>6, FailureKeeps

-----------------------------------------------------------------------------
(* A publisher that fails.                                                   *)

LEMMA StepFailsKeeps ==
    ASSUME IInv, NEW p \in Publishers, StepFails(p)
    PROVE  IInv'
<1>1. /\ job[p].at \in Before \cup {"replace", "syncRoot", "reopen"}
      /\ job[p].at # "build" /\ Fails(p, FailureCode(p))
      /\ UNCHANGED <<stage, build, lock, Disk>> /\ UNCHANGED current
      BY DEF StepFails, Before, Rest, Disk
<1>2. PICK what \in SUBSET {"root", "pointer", "generations"} : Touch(what)
      BY DEF StepFails
<1>3. reader' \in [Readers -> Openings] /\ \A r \in Readers : ReaderInv(r)'
      BY <1>1, <1>2, TouchKeeps
<1>4. QED BY <1>1, <1>3, FailureCodeKeeps

LEMMA PromoteInterruptedKeeps ==
    ASSUME IInv, NEW p \in Publishers, PromoteInterrupted(p)
    PROVE  IInv'
<1>1. /\ job[p].at = "promote" /\ Fails(p, "publication_failed")
      /\ stage' = [stage EXCEPT ![p] = NoStage] /\ NoStage \in Stages
      /\ UNCHANGED <<build, syncedNames, current, survivors, adopted, lock>>
      BY FirstStages DEF PromoteInterrupted, At, Rest, StageBecomes
<1>2. Released'
      BY <1>1, PromotionIsWhole DEF PromoteInterrupted
<1>3. /\ build[p] \in Builds /\ build[p].at = "off"
      /\ build' = [build EXCEPT ![p] = build[p]]
      BY <1>1, BuildIsOff
<1>4. reader' \in [Readers -> Openings] /\ \A r \in Readers : ReaderInv(r)'
      BY <1>1, TouchKeeps DEF PromoteInterrupted
<1>5. current = job[p].began /\ "publication_failed" \in ClosingCodes
      BY <1>1 DEF IInv, PublisherInv, Pointed, Before, ClosingCodes
<1>6. QED BY <1>1, <1>2, <1>3, <1>4, <1>5, FailureKeeps

LEMMA ReplaceFailsKeeps ==
    ASSUME IInv, NEW p \in Publishers, ReplaceFails(p)
    PROVE  IInv'
<1>1. /\ job[p].at = "replace" /\ "cleanPointer" \in Phases
      /\ "none" \in Candidates
      /\ UNCHANGED <<stage, build, lock, generations, syncedNames, adopted>>
      BY DEF ReplaceFails, At, Phases, Rest, Candidates
<1>2. /\ stage[p] \in Stages /\ stage' = [stage EXCEPT ![p] = stage[p]]
      /\ build[p] \in Builds /\ build' = [build EXCEPT ![p] = build[p]]
      /\ build[p].at = "off" /\ job[p] \in Jobs
      BY <1>1, BuildIsOff
<1>3. /\ job[p].mayHaveSwitched /\ ~job[p].durable /\ current = job[p].began
      /\ job[p].outcome = "none" /\ current \in Pointers /\ survivors \subseteq Pointers
      BY <1>1 DEF IInv, Shape, PublisherInv, Owned, Pointed
<1>4. ASSUME NEW j \in Jobs, JobBecomes(p, j), j.at = "cleanPointer",
             j.of = job[p].of, j.began = job[p].began, j.outcome = job[p].outcome,
             \/ j.code = "publication_failed" /\ UNCHANGED current
             \/ /\ j.code = "pointer_durability_uncertain"
                /\ current' \in {job[p].began, job[p].of},
             Released', current' \in Pointers, survivors' \subseteq Pointers,
             reader' \in [Readers -> Openings], \A r \in Readers : ReaderInv(r)'
      PROVE  IInv'
  <2>1. job'[p] = j
        BY <1>4 DEF IInv, Shape, JobBecomes
  <2>2. Staged(p)' /\ Targeted(p)'
        BY <1>4, <2>1 DEF Staged, Targeted
  <2>3. CodeHolds(p)'
        BY <1>3, <1>4, <2>1 DEF CodeHolds
  <2>4. Pointed(p)'
        BY <1>4, <2>1, <2>3 DEF Pointed, Before, Clean
  <2>5. QED BY <1>1, <1>2, <1>3, <1>4, <2>2, <2>4, WorkSteps
<1>5. CASE /\ JobBecomes(p, [job[p] EXCEPT !.at = "cleanPointer",
                                           !.mayHaveSwitched = FALSE,
                                           !.code = "publication_failed"])
           /\ UNCHANGED <<current, survivors, reader>>
  <2> DEFINE j == [job[p] EXCEPT !.at = "cleanPointer", !.mayHaveSwitched = FALSE,
                                 !.code = "publication_failed"]
  <2>0. "publication_failed" \in Outcomes
        BY DEF Outcomes
  <2>1. /\ j \in Jobs /\ j.at = "cleanPointer" /\ j.of = job[p].of
        /\ j.began = job[p].began /\ j.outcome = job[p].outcome
        /\ j.code = "publication_failed"
        BY ONLY <1>1, <1>2, <2>0 DEF Jobs
  <2> HIDE DEF j
  <2>2. JobBecomes(p, j) /\ UNCHANGED <<current, survivors, reader>>
        BY <1>5 DEF j
  <2>3. Released' /\ reader' \in [Readers -> Openings]
        /\ \A r \in Readers : ReaderInv(r)'
        BY <1>1, <2>2, DiskKeeps, ReadersKeep DEF Disk
  <2>4. QED BY <1>3, <1>4, <2>1, <2>2, <2>3
<1>6. CASE /\ Fails(p, FailureCode(p))
           /\ UNCHANGED <<current, survivors, reader>>
      BY <1>1, <1>6, ReadersKeep, FailureCodeKeeps DEF Disk
<1>7. CASE /\ JobBecomes(p, [job[p] EXCEPT !.at = "cleanPointer",
                                           !.code = FailureCode(p),
                                           !.candidate = "none"])
           /\ SwitchPointer(p)
  <2> DEFINE code == FailureCode(p)
  <2> DEFINE j == [job[p] EXCEPT !.at = "cleanPointer", !.code = code,
                                 !.candidate = "none"]
  <2>0. code = "pointer_durability_uncertain" /\ code \in Outcomes
        BY <1>3 DEF FailureCode, Outcomes
  <2> HIDE DEF code
  <2>1. /\ j \in Jobs /\ j.at = "cleanPointer" /\ j.of = job[p].of
        /\ j.began = job[p].began /\ j.outcome = job[p].outcome
        /\ j.code = code
        BY ONLY <1>1, <1>2, <2>0 DEF Jobs
  <2> HIDE DEF j
  <2>2. JobBecomes(p, j)
        BY <1>7 DEF j, code
  <2>3. QED BY <1>1, <1>4, <1>7, <2>0, <2>1, <2>2, SwitchIsKept
<1>8. QED BY <1>5, <1>6, <1>7 DEF ReplaceFails
\* The steps of the cleanup leave the pointer, and what the code says of it.
LEMMA CleaningSteps ==
    ASSUME IInv, NEW p \in Publishers, job[p].at \in {"cleanPointer", "cleanLeaves"},
           NEW j \in Jobs, JobBecomes(p, j), j.at \in {"cleanLeaves", "unlock"},
           j.of = job[p].of, j.began = job[p].began, j.outcome = job[p].outcome,
           j.code = job[p].code,
           NEW d \in Stages, stage' = [stage EXCEPT ![p] = d],
           j.at = "unlock" /\ d.there => j.dirty,
           UNCHANGED <<build, lock, Disk>>,
           Touch({"root"}) \/ Touch({"generations"}) \/ UNCHANGED reader
    PROVE  IInv'
<1>1. UNCHANGED <<generations, syncedNames, current, survivors, adopted>>
      BY DEF Disk
<1>2. /\ build[p] \in Builds /\ build[p].at = "off"
      /\ build' = [build EXCEPT ![p] = build[p]]
      BY BuildIsOff
<1>3. /\ Released' /\ current' \in Pointers /\ survivors' \subseteq Pointers
      /\ reader' \in [Readers -> Openings] /\ \A r \in Readers : ReaderInv(r)'
      BY <1>1, DiskKeeps, TouchKeeps, ReadersKeep
<1>4. job'[p] = j /\ stage'[p] = d
      BY DEF IInv, Shape, BuildShape, JobBecomes
<1>5. CodeHolds(p) /\ job[p].outcome = "none"
      BY DEF IInv, PublisherInv, Owned, Pointed, Clean
<1>6. Staged(p)' /\ Targeted(p)'
      BY <1>4 DEF Staged, Targeted
<1>7. CodeHolds(p)'
      BY <1>1, <1>4, <1>5 DEF CodeHolds
<1>8. Pointed(p)'
      BY <1>4, <1>7 DEF Pointed, Before, Clean
<1>9. QED BY <1>2, <1>3, <1>5, <1>6, <1>8, WorkSteps

LEMMA CleanPointerKeeps ==
    ASSUME IInv, NEW p \in Publishers, CleanPointer(p)
    PROVE  IInv'
<1>1. /\ job[p].at = "cleanPointer" /\ "cleanLeaves" \in Phases
      /\ "none" \in Candidates /\ UNCHANGED <<stage, build, lock, Disk>>
      /\ Touch({"root"}) \/ UNCHANGED reader
      BY DEF CleanPointer, At, Phases, Candidates, Rest
<1>2. /\ stage[p] \in Stages /\ stage' = [stage EXCEPT ![p] = stage[p]]
      /\ job[p] \in Jobs
      BY <1>1, BuildIsOff
<1>3. PICK j \in Jobs : /\ JobBecomes(p, j) /\ j.at = "cleanLeaves"
                        /\ j.of = job[p].of /\ j.began = job[p].began
                        /\ j.outcome = job[p].outcome /\ j.code = job[p].code
  <2> DEFINE k == [job[p] EXCEPT !.at = "cleanLeaves", !.candidate = "none"]
  <2> DEFINE l == [job[p] EXCEPT !.at = "cleanLeaves"]
  <2>1. /\ k \in Jobs /\ k.at = "cleanLeaves"
        /\ k.of = job[p].of /\ k.began = job[p].began
        /\ k.outcome = job[p].outcome /\ k.code = job[p].code
        BY ONLY <1>1, <1>2 DEF Jobs
  <2>2. /\ l \in Jobs /\ l.at = "cleanLeaves"
        /\ l.of = job[p].of /\ l.began = job[p].began
        /\ l.outcome = job[p].outcome /\ l.code = job[p].code
        BY ONLY <1>1, <1>2 DEF Jobs
  <2>3. JobBecomes(p, k) \/ JobBecomes(p, l)
        BY DEF CleanPointer, Goes
  <2> HIDE DEF k, l
  <2>4. QED BY <2>1, <2>2, <2>3
<1>4. QED BY <1>1, <1>2, <1>3, CleaningSteps

LEMMA CleanLeavesKeeps ==
    ASSUME IInv, NEW p \in Publishers, CleanLeaves(p)
    PROVE  IInv'
<1>1. /\ job[p].at = "cleanLeaves" /\ "unlock" \in Phases
      /\ UNCHANGED <<build, lock, Disk>>
      /\ Touch({"generations"}) \/ UNCHANGED reader
      BY DEF CleanLeaves, At, Phases, Rest
<1>2. /\ stage[p] \in Stages /\ job[p] \in Jobs
      /\ UNCHANGED stage => stage' = [stage EXCEPT ![p] = stage[p]]
      BY BuildIsOff
<1> DEFINE clean == [job[p] EXCEPT !.at = "unlock"]
<1> DEFINE dirty == [job[p] EXCEPT !.at = "unlock", !.dirty = TRUE]
<1>3. /\ clean \in Jobs /\ clean.at = "unlock"
      /\ clean.of = job[p].of /\ clean.began = job[p].began
      /\ clean.outcome = job[p].outcome /\ clean.code = job[p].code
      BY ONLY <1>1, <1>2 DEF Jobs
<1>4. /\ dirty \in Jobs /\ dirty.at = "unlock" /\ dirty.dirty
      /\ dirty.of = job[p].of /\ dirty.began = job[p].began
      /\ dirty.outcome = job[p].outcome /\ dirty.code = job[p].code
      BY ONLY <1>1, <1>2 DEF Jobs
<1>5. CASE StageBecomes(p, NoStage) /\ Goes(p, "unlock")
  <2>1. /\ JobBecomes(p, clean) /\ NoStage \in Stages /\ ~NoStage.there
        /\ stage' = [stage EXCEPT ![p] = NoStage]
        BY <1>5, FirstStages DEF Goes, StageBecomes
  <2> HIDE DEF clean, dirty
  <2>2. QED BY <1>1, <1>3, <2>1, CleaningSteps
<1>6. CASE JobBecomes(p, dirty) /\ UNCHANGED stage
  <2> HIDE DEF clean, dirty
  <2>1. QED BY <1>1, <1>2, <1>4, <1>6, CleaningSteps
<1>7. CASE ~stage[p].there /\ Goes(p, "unlock") /\ UNCHANGED stage
  <2>1. JobBecomes(p, clean)
        BY <1>7 DEF Goes
  <2> HIDE DEF clean, dirty
  <2>2. QED BY <1>1, <1>2, <1>3, <1>7, <2>1, CleaningSteps
<1>8. QED BY <1>5, <1>6, <1>7 DEF CleanLeaves

-----------------------------------------------------------------------------
(* The beginning and the end of a call.                                      *)

\* A publisher that comes to rest disturbs nobody, unless it takes the lock of
\* another one.
LEMMA RestingKeeps ==
    ASSUME IInv, NEW p \in Publishers, NEW j \in Jobs, j.at = "idle",
           JobBecomes(p, j), NEW d \in Stages, stage' = [stage EXCEPT ![p] = d],
           NEW b \in Builds, b.at = "off", build' = [build EXCEPT ![p] = b],
           UNCHANGED <<Disk, reader>>,
           \A q \in Publishers \ {p} : job[q].at # "idle" => UNCHANGED lock
    PROVE  IInv'
<1>1. UNCHANGED <<generations, syncedNames, current, survivors, adopted>>
      BY DEF Disk
<1>2. Shape' /\ Released' /\ \A r \in Readers : ReaderInv(r)'
      BY <1>1 DEF IInv, Shape, BuildShape, JobBecomes, Released, ReaderInv
<1>3. PublisherInv(p)'
  <2>1. job'[p] = j /\ build'[p] = b
        BY DEF IInv, Shape, BuildShape, JobBecomes
  <2>2. BuildInv(p)'
        BY <2>1 DEF BuildInv
  <2>3. QED BY <2>1, <2>2, IdleRests
<1>4. ASSUME NEW q \in Publishers \ {p}
      PROVE  PublisherInv(q)'
  <2>1. /\ job'[q] = job[q] /\ stage'[q] = stage[q] /\ build'[q] = build[q]
        /\ PublisherInv(q)
        BY DEF IInv, Shape, BuildShape, JobBecomes
  <2>2. BuildInv(q)'
        BY <2>1 DEF PublisherInv, BuildInv, CodeIsTrue
  <2>3. CASE job[q].at = "idle"
        BY <2>1, <2>2, <2>3, IdleRests DEF PublisherInv, Owned
  <2>4. CASE job[q].at # "idle"
    <3>1. Owned(q)' /\ Staged(q)'
          BY <2>1, <2>4 DEF PublisherInv, Owned, Staged, Whole
    <3>2. Targeted(q)'
          BY <1>1, <2>1 DEF PublisherInv, Targeted
    <3>3. Pointed(q)'
          BY <1>1, <2>1 DEF PublisherInv, Pointed, CodeHolds
    <3>4. QED BY <2>2, <3>1, <3>2, <3>3 DEF PublisherInv
  <2>5. QED BY <2>3, <2>4
<1>5. QED BY <1>2, <1>3, <1>4 DEF IInv

\* The rest state of a publisher, with any outcome.
LEMMA RestJobs ==
    ASSUME NEW code \in Outcomes
    PROVE  /\ [NoJob EXCEPT !.outcome = code] \in Jobs
           /\ [NoJob EXCEPT !.outcome = code].at = "idle"
           /\ NoJob \in Jobs /\ NoJob.at = "idle"
BY DEF NoJob, Jobs, Phases, Pointers, Candidates, Outcomes

LEMMA UnlockKeeps ==
    ASSUME IInv, NEW p \in Publishers, Unlock(p)
    PROVE  IInv'
<1>1. PICK dirty \in BOOLEAN : Ends(p, dirty)
  <2>1. job[p].dirty \in BOOLEAN
        BY BuildIsOff DEF Jobs
  <2>2. QED BY <2>1 DEF Unlock
<1>2. /\ job[p].at = "unlock" /\ UNCHANGED <<stage, build, Disk, reader>>
      BY DEF Unlock, At
<1>3. /\ stage[p] \in Stages /\ stage' = [stage EXCEPT ![p] = stage[p]]
      /\ build[p] \in Builds /\ build' = [build EXCEPT ![p] = build[p]]
      /\ build[p].at = "off"
      BY <1>2, BuildIsOff
<1>4. Outcome(p, dirty) \in Outcomes
  <2>1. job[p].code \in Outcomes
        BY BuildIsOff DEF Jobs
  <2>2. QED BY <2>1 DEF Outcome, Outcomes
<1>5. \A q \in Publishers \ {p} : job[q].at = "idle"
      BY <1>2, OthersAreIdle
<1>6. PICK j \in Jobs : j.at = "idle" /\ JobBecomes(p, j)
      BY <1>1, <1>4, RestJobs DEF Ends
<1>7. QED BY <1>2, <1>3, <1>5, <1>6, RestingKeeps

LEMMA BusyKeeps ==
    ASSUME IInv, NEW p \in Publishers, Busy(p)
    PROVE  IInv'
<1>1. /\ job[p].at = "idle" /\ UNCHANGED <<stage, build, lock, Disk, reader>>
      BY DEF Busy, At, buildVars, Rest
<1>2. /\ stage[p] \in Stages /\ stage' = [stage EXCEPT ![p] = stage[p]]
      /\ build[p] \in Builds /\ build' = [build EXCEPT ![p] = build[p]]
      /\ build[p].at = "off"
      BY <1>1, BuildIsOff
<1>3. "publication_busy" \in Outcomes
      BY DEF Outcomes
<1>4. PICK j \in Jobs : j.at = "idle" /\ JobBecomes(p, j)
      BY <1>3, RestJobs DEF Busy
<1>5. QED BY <1>1, <1>2, <1>4, RestingKeeps

LEMMA DieKeeps ==
    ASSUME IInv, NEW p \in Publishers, Die(p)
    PROVE  IInv'
<1>1. /\ stage' = [stage EXCEPT ![p] = NoStage] /\ NoStage \in Stages
      /\ build' = [build EXCEPT ![p] = NoBuild] /\ NoBuild \in Builds
      /\ NoBuild.at = "off" /\ UNCHANGED <<Disk, reader>>
      /\ JobBecomes(p, NoJob)
      BY FirstStages DEF Die, NoBuild, Builds, BuildPhases, BuildCodes
<1>2. NoJob \in Jobs /\ NoJob.at = "idle"
  <2>1. "none" \in Outcomes
        BY DEF Outcomes
  <2>2. QED BY <2>1, RestJobs
<1>3. ASSUME NEW q \in Publishers \ {p}, job[q].at # "idle"
      PROVE  UNCHANGED lock
  <2>1. lock = q
        BY <1>3 DEF IInv, PublisherInv, Owned
  <2>2. QED BY <2>1 DEF Die
<1>4. QED BY <1>1, <1>2, <1>3, RestingKeeps

LEMMA AcquireKeeps ==
    ASSUME IInv, NEW p \in Publishers, NEW m \in Manifests, Acquire(p, m)
    PROVE  IInv'
<1> DEFINE j == [NoJob EXCEPT !.at = "capture", !.of = m, !.began = current]
<1>1. /\ job[p].at = "idle" /\ lock = NoOne /\ lock' = p /\ JobBecomes(p, j)
      /\ stage' = [stage EXCEPT ![p] = NoStage] /\ NoStage \in Stages
      /\ build' = [build EXCEPT ![p] = NoBuild] /\ NoBuild \in Builds
      /\ NoBuild.at = "off" /\ UNCHANGED <<Disk, reader>>
      BY FirstStages DEF Acquire, At, NoBuild, Builds, BuildPhases, BuildCodes
<1>2. UNCHANGED <<current, survivors>>
      BY <1>1 DEF Disk
<1>3. current \in Pointers
      BY DEF IInv, Shape
<1>4. /\ j \in Jobs /\ j.at = "capture" /\ j.of = m /\ j.began = current
      /\ j.outcome = "none" /\ ~j.durable /\ ~j.mayHaveSwitched
      BY <1>3 DEF NoJob, Jobs, Phases, Pointers, Candidates, Outcomes
<1> HIDE DEF j
<1>5. job'[p] = j /\ build'[p] = NoBuild
      BY <1>1 DEF IInv, Shape, BuildShape, JobBecomes
<1>6. BuildInv(p)' /\ Owned(p)' /\ Staged(p)' /\ Targeted(p)'
      BY <1>1, <1>4, <1>5 DEF BuildInv, Owned, Staged, Targeted
<1>7. Pointed(p)'
      BY <1>2, <1>4, <1>5 DEF Pointed, Before, Clean
<1>8. /\ Released' /\ current' \in Pointers /\ survivors' \subseteq Pointers
      /\ reader' \in [Readers -> Openings] /\ \A r \in Readers : ReaderInv(r)'
      BY <1>1, <1>2, DiskKeeps, ReadersKeep
<1>9. PublisherInv(p)'
      BY <1>6, <1>7 DEF PublisherInv
<1>10. QED BY <1>1, <1>4, <1>8, <1>9, CallSteps

-----------------------------------------------------------------------------
(* Readers, and a power loss.                                                *)

LEMMA OpenKeeps ==
    ASSUME IInv, NEW r \in Readers, Open(r)
    PROVE  IInv'
<1>1. UNCHANGED <<stage, build, Disk, lock, job>>
      BY DEF Open, StartOpen, ReadPointer, OpenGeneration, CheckPointer, CheckRoot,
         Publishing, buildVars, Rest
<1>2. UNCHANGED <<generations, syncedNames, current, survivors, adopted>>
      BY <1>1 DEF Disk
<1>3. reader[r] \in Openings /\ ReaderInv(r) /\ current \in Pointers
      BY DEF IInv, Shape
<1>4. PICK o \in Openings :
          /\ reader' = [reader EXCEPT ![r] = o]
          /\ o.at \in {"generations", "checkPointer", "checkRoot"}
               => "root" \in o.moved \/ o.of = current
  <2>1. CASE StartOpen(r)
    <3> DEFINE o == [NoOpen EXCEPT !.at = "pointer"]
    <3>1. o \in Openings /\ o.at = "pointer"
          BY DEF NoOpen, Openings, ReaderPhases, Pointers
    <3>2. QED BY <2>1, <3>1 DEF StartOpen
  <2>2. ASSUME NEW s \in Readers, s = r, Refuse(s)
        PROVE  reader' = [reader EXCEPT ![r] = NoOpen]
               /\ NoOpen \in Openings /\ NoOpen.at = "idle"
        BY <2>2 DEF Refuse, NoOpen, Openings, ReaderPhases, Pointers
  <2>3. ASSUME NEW phase \in ReaderPhases, OpenGoes(r, phase),
               phase = "opened" \/ reader[r].at \in {"generations", "checkPointer"}
        PROVE  \E o \in Openings :
                  /\ reader' = [reader EXCEPT ![r] = o]
                  /\ o.at \in {"generations", "checkPointer", "checkRoot"}
                       => "root" \in o.moved \/ o.of = current
    <3> DEFINE o == [reader[r] EXCEPT !.at = phase]
    <3>1. /\ o \in Openings /\ o.at = phase /\ o.of = reader[r].of
          /\ o.moved = reader[r].moved
          BY ONLY <1>3, phase \in ReaderPhases DEF Openings
    <3>2. reader' = [reader EXCEPT ![r] = o]
          BY <2>3 DEF OpenGoes
    <3> HIDE DEF o
    <3>3. QED BY <1>3, <2>3, <3>1, <3>2 DEF ReaderInv
  <2>4. CASE ReadPointer(r)
    <3>1. CASE reader' = [reader EXCEPT ![r].at = "generations", ![r].of = current]
      <4> DEFINE o == [reader[r] EXCEPT !.at = "generations", !.of = current]
      <4>1. o \in Openings /\ o.of = current
            BY <1>3 DEF Openings, ReaderPhases
      <4>2. reader' = [reader EXCEPT ![r] = o]
        <5>1. reader \in [Readers -> Openings]
              BY DEF IInv, Shape
        <5>2. QED BY <3>1, <5>1
      <4> HIDE DEF o
      <4>3. QED BY <4>1, <4>2
    <3>2. QED BY <2>2, <2>4, <3>1 DEF ReadPointer
  <2>5. CASE \E runtime \in Runtimes : OpenGeneration(r, runtime)
        BY <2>2, <2>3, <2>5 DEF OpenGeneration, ReaderAt, ReaderPhases
  <2>6. CASE CheckPointer(r)
        BY <2>2, <2>3, <2>6 DEF CheckPointer, ReaderAt, ReaderPhases
  <2>7. CASE CheckRoot(r)
        BY <2>2, <2>3, <2>7 DEF CheckRoot, ReaderAt, ReaderPhases
  <2>8. QED BY <2>1, <2>4, <2>5, <2>6, <2>7 DEF Open
<1>5. Shape' /\ Released'
      BY <1>1, <1>2, <1>4 DEF IInv, Shape, BuildShape, Released
<1>6. ASSUME NEW s \in Readers
      PROVE  ReaderInv(s)'
  <2>1. reader'[s] = IF s = r THEN o ELSE reader[s]
        BY <1>4 DEF IInv, Shape
  <2>2. o.at \in {"generations", "checkPointer", "checkRoot"}
            => "root" \in o.moved \/ o.of = current
        BY <1>4
  <2>3. QED BY <1>2, <2>1, <2>2 DEF IInv, ReaderInv
<1>7. ASSUME NEW p \in Publishers
      PROVE  PublisherInv(p)'
  <2>1. BuildInv(p)' /\ Owned(p)' /\ Staged(p)'
        BY <1>1 DEF IInv, PublisherInv, BuildInv, CodeIsTrue, Owned, Staged, Whole
  <2>2. Targeted(p)' /\ Pointed(p)'
        BY <1>1, <1>2 DEF IInv, PublisherInv, Targeted, Pointed, CodeHolds
  <2>3. QED BY <2>1, <2>2 DEF PublisherInv
<1>8. QED BY <1>5, <1>6, <1>7 DEF IInv

\* A power loss takes no file of a generation: a stage is promoted whole.
LEMMA PowerLossKeeps ==
    ASSUME IInv, PowerLoss
    PROVE  IInv'
<1>0. PICK kept \in SUBSET DOMAIN generations :
          \E files \in [kept -> SUBSET Files] :
              /\ syncedNames \subseteq kept
              /\ \A m \in kept : files[m] \in MayRemain(m)
              /\ generations' = [m \in kept |-> Remains(m, files[m])]
              /\ syncedNames' = kept
      BY DEF PowerLoss
<1>1. PICK files \in [kept -> SUBSET Files] :
          /\ syncedNames \subseteq kept
          /\ \A m \in kept : files[m] \in MayRemain(m)
          /\ generations' = [m \in kept |-> Remains(m, files[m])]
          /\ syncedNames' = kept
      BY <1>0
<1>2. ASSUME NEW m \in kept
      PROVE  files[m] = Files
  <2>1. Whole(generations[m])
        BY DEF IInv, Released
  <2>2. QED BY <1>1, <2>1 DEF Whole, MayRemain
<1>3. ASSUME NEW m \in kept
      PROVE  Whole(generations[m])'
      BY <1>1, <1>2 DEF Whole, Remains
<1>4. /\ current' \in survivors /\ survivors' = {current'} /\ adopted' = adopted
      /\ survivors \subseteq Pointers
      BY DEF PowerLoss, IInv, Shape
<1>5. Released'
      BY <1>1, <1>3, <1>4 DEF IInv, Released
<1>6. Shape'
  <2>1. NoJob \in Jobs /\ NoStage \in Stages /\ NoBuild \in Builds
        /\ NoOpen \in Openings
        BY FirstStages DEF NoJob, Jobs, Phases, Pointers, Candidates, Outcomes,
           NoBuild, Builds, BuildPhases, BuildCodes, NoOpen, Openings, ReaderPhases
  <2>2. QED BY <1>4, <2>1 DEF PowerLoss, Shape, BuildShape
<1>7. ASSUME NEW p \in Publishers
      PROVE  PublisherInv(p)'
  <2>1. job'[p].at = "idle" /\ build'[p].at = "off"
        BY DEF PowerLoss, NoJob, NoBuild
  <2>2. BuildInv(p)'
        BY <2>1 DEF BuildInv
  <2>3. QED BY <2>1, <2>2, IdleRests
<1>8. \A r \in Readers : ReaderInv(r)'
      BY DEF PowerLoss, ReaderInv, NoOpen
<1>9. QED BY <1>5, <1>6, <1>7, <1>8 DEF IInv
-----------------------------------------------------------------------------
(* Theorems.                                                                 *)

LEMMA InitHolds == Init => IInv
<1> SUFFICES ASSUME Init
             PROVE  IInv
    OBVIOUS
<1>1. /\ NoJob \in Jobs /\ NoStage \in Stages /\ NoBuild \in Builds
      /\ NoOpen \in Openings /\ NoJob.at = "idle" /\ NoBuild.at = "off"
      /\ NoOpen.at = "idle"
      BY FirstStages DEF NoJob, Jobs, Phases, Pointers, Candidates, Outcomes,
         NoBuild, Builds, BuildPhases, BuildCodes, NoOpen, Openings, ReaderPhases
<1>2. Shape
      BY <1>1 DEF Init, Shape, BuildShape, Pointers
<1>3. Released
      BY NamesAssumption DEF Init, Released
<1>4. ASSUME NEW p \in Publishers
      PROVE  PublisherInv(p)
  <2>1. job[p].at = "idle" /\ build[p].at = "off"
        BY <1>1 DEF Init
  <2>2. BuildInv(p)
        BY <2>1 DEF BuildInv
  <2>3. QED BY <2>1, <2>2 DEF PublisherInv, Owned, Staged, Targeted, Pointed,
               Before, Clean
<1>5. \A r \in Readers : ReaderInv(r)
      BY <1>1 DEF Init, ReaderInv
<1>6. QED BY <1>2, <1>3, <1>4, <1>5 DEF IInv

LEMMA NextKeeps == IInv /\ [Next]_vars => IInv'
<1> SUFFICES ASSUME IInv, [Next]_vars
             PROVE  IInv'
    OBVIOUS
<1>1. CASE UNCHANGED vars
  <2>1. /\ UNCHANGED <<stage, build, generations, syncedNames, current, survivors>>
        /\ UNCHANGED <<lock, job, reader, adopted>>
        BY <1>1 DEF vars, buildVars, releaseVars
  <2>2. Shape' /\ Released' /\ \A r \in Readers : ReaderInv(r)'
        BY <2>1 DEF IInv, Shape, BuildShape, Released, Whole, ReaderInv
  <2>3. ASSUME NEW p \in Publishers
        PROVE  PublisherInv(p)'
        BY <2>1 DEF IInv, PublisherInv, BuildInv, CodeIsTrue, Owned, Staged, Whole,
           Targeted, Pointed, CodeHolds
  <2>4. QED BY <2>2, <2>3 DEF IInv
<1>2. ASSUME NEW p \in Publishers, Publish(p)
      PROVE  IInv'
  <2>1. CASE (\E m \in Manifests : Acquire(p, m)) \/ Busy(p) \/ Capture(p)
             \/ CreateStage(p) \/ Building(p) \/ BuildReturns(p)
        BY <2>1, AcquireKeeps, BusyKeeps, CaptureKeeps, CreateStageKeeps,
           BuildingKeeps, BuildReturnsKeeps
  <2>2. CASE WriteManifest(p) \/ SyncStage(p) \/ Promote(p) \/ Adopt(p)
             \/ SyncGenerations(p) \/ CreateCandidate(p) \/ ValidateCandidate(p)
        BY <2>2, WriteManifestKeeps, SyncStageKeeps, PromoteKeeps, AdoptKeeps,
           SyncGenerationsKeeps, CreateCandidateKeeps, ValidateCandidateKeeps
  <2>3. CASE Tidy(p) \/ Attest(p) \/ Replace(p) \/ SyncRoot(p) \/ Reopen(p)
        BY <2>3, TidyKeeps, AttestKeeps, ReplaceKeeps, SyncRootKeeps, ReopenKeeps
  <2>4. CASE StepFails(p) \/ PromoteInterrupted(p) \/ ReplaceFails(p)
        BY <2>4, StepFailsKeeps, PromoteInterruptedKeeps, ReplaceFailsKeeps
  <2>5. CASE CleanPointer(p) \/ CleanLeaves(p) \/ Unlock(p) \/ Die(p)
        BY <2>5, CleanPointerKeeps, CleanLeavesKeeps, UnlockKeeps, DieKeeps
  <2>6. QED BY <1>2, <2>1, <2>2, <2>3, <2>4, <2>5 DEF Publish
<1>3. QED BY <1>1, <1>2, OpenKeeps, PowerLossKeeps DEF Next

\* The inductive invariant holds: generations are whole, the pointer names none
\* that a power loss could take, the flags of a publication follow the pointer.
THEOREM GenerationsAreWhole == Spec => []IInv
BY InitHolds, NextKeeps, PTL DEF Spec

\* Whatever pointer a power loss leaves names a generation that it leaves too,
\* but for one found in place and never synced, and is never a torn one.
THEOREM PointerOutrunsNothing == Spec => []DurableUnlessAdopted
<1>1. IInv => DurableUnlessAdopted
      BY DEF IInv, Released, DurableUnlessAdopted, OnDisk, Whole
<1>2. QED BY <1>1, GenerationsAreWhole, PTL

\* A step of one publisher is no step of another one.
LEMMA OneJob ==
    ASSUME IInv, NEW p \in Publishers, Publish(p), NEW q \in Publishers \ {p}
    PROVE  job'[q] = job[q]
<1>1. UNCHANGED job \/ \E j : JobBecomes(p, j)
  <2>1. CASE (\E m \in Manifests : Acquire(p, m)) \/ Busy(p) \/ Capture(p)
             \/ CreateStage(p) \/ Building(p) \/ BuildReturns(p)
        BY <2>1 DEF Acquire, Busy, Capture, CreateStage, Building, BuildReturns,
           Goes, Fails, releaseVars
  <2>2. CASE WriteManifest(p) \/ SyncStage(p) \/ Promote(p) \/ Adopt(p)
             \/ SyncGenerations(p) \/ CreateCandidate(p) \/ ValidateCandidate(p)
        BY <2>2 DEF WriteManifest, SyncStage, Promote, Adopt, SyncGenerations,
           CreateCandidate, ValidateCandidate, Goes, Fails
  <2>3. CASE Tidy(p) \/ Attest(p) \/ Replace(p) \/ SyncRoot(p) \/ Reopen(p)
        BY <2>3 DEF Tidy, Attest, Replace, SyncRoot, Reopen, Goes, Fails
  <2>4. CASE StepFails(p) \/ PromoteInterrupted(p) \/ ReplaceFails(p)
        BY <2>4 DEF StepFails, PromoteInterrupted, ReplaceFails, Fails
  <2>5. CASE CleanPointer(p) \/ CleanLeaves(p) \/ Unlock(p) \/ Die(p)
        BY <2>5 DEF CleanPointer, CleanLeaves, Unlock, Die, Goes, Ends
  <2>6. QED BY <2>1, <2>2, <2>3, <2>4, <2>5 DEF Publish
<1>2. job \in [Publishers -> Jobs]
      BY DEF IInv, Shape
<1>3. QED BY <1>1, <1>2 DEF JobBecomes

\* What a call reports as it ends is true of what it left.
LEMMA ReportsAreTrue ==
    ASSUME IInv, NEW p \in Publishers, Unlock(p)
    PROVE  Reported(p)
<1>1. PICK dirty \in BOOLEAN : Ends(p, dirty) /\ (job[p].dirty => dirty)
  <2>1. job[p].dirty \in BOOLEAN
        BY BuildIsOff DEF Jobs
  <2>2. QED BY <2>1 DEF Unlock
<1>2. job[p].code \in Outcomes /\ Outcome(p, dirty) \in Outcomes
  <2>1. job[p].code \in Outcomes
        BY BuildIsOff DEF Jobs
  <2>2. QED BY <2>1 DEF Outcome, Outcomes
<1>3. job'[p].outcome = Outcome(p, dirty)
  <2>1. job'[p] = [NoJob EXCEPT !.outcome = Outcome(p, dirty)]
        BY <1>1 DEF Ends, JobBecomes, IInv, Shape
  <2>2. QED BY <2>1 DEF NoJob
<1>4. /\ CodeHolds(p) /\ job[p].of \in Manifests
      /\ stage[p].there => job[p].dirty
      BY DEF Unlock, At, IInv, PublisherInv, Owned, Pointed, Clean
<1>5. UNCHANGED <<stage, generations, current, survivors>>
      BY DEF Unlock, Disk
<1>6. \A m \in DOMAIN generations : Complete(m)'
      BY <1>5 DEF Complete, IInv, Released, Whole
<1>7. CASE job[p].code = "published" /\ ~dirty
  <2>1. job'[p].outcome = "published"
        BY <1>3, <1>7 DEF Outcome
  <2>2. current' = job[p].of /\ survivors' = {job[p].of} /\ ~stage'[p].there
        BY <1>1, <1>4, <1>5, <1>7 DEF CodeHolds
  <2>3. \E m \in Manifests : m = job[p].of /\ Complete(m)'
    <3>1. PICK m \in Manifests : m = job[p].of /\ m \in DOMAIN generations
          BY <1>4, <1>7 DEF CodeHolds
    <3>2. QED BY <1>6, <3>1
  <2>4. QED BY <2>1, <2>2, <2>3 DEF Reported
<1>8. CASE job[p].code = "published" /\ dirty
  <2>1. job'[p].outcome = "publication_cleanup_failed"
        BY <1>3, <1>8 DEF Outcome
  <2>2. current' = job[p].of /\ survivors' = {job[p].of}
        BY <1>4, <1>5, <1>8 DEF CodeHolds
  <2>3. QED BY <2>1, <2>2 DEF Reported
<1>9. CASE job[p].code # "published"
  <2>1. job'[p].outcome = job[p].code
        BY <1>3, <1>9 DEF Outcome
  <2>2. job[p].code \in {"published_release_unavailable",
                         "pointer_durability_uncertain", "publication_failed"}
        BY <1>4, <1>9 DEF CodeHolds
  <2>3. CASE job[p].code = "published_release_unavailable"
        BY <1>4, <1>5, <2>1, <2>3 DEF CodeHolds, Reported
  <2>4. CASE job[p].code = "pointer_durability_uncertain"
        BY <1>4, <1>5, <2>1, <2>4 DEF CodeHolds, Reported
  <2>5. CASE job[p].code = "publication_failed"
        BY <1>4, <1>5, <2>1, <2>5 DEF CodeHolds, Reported
  <2>6. QED BY <2>2, <2>3, <2>4, <2>5
<1>10. QED BY <1>7, <1>8, <1>9

\* The codes are true: what a failed build leaves at the destination, and what
\* a publication leaves of the pointer, of its stage and of the generation.
THEOREM CodesTellTheTruth == Spec => CodesAreTrue
<1>1. IInv => BuildCodeIsTrue
      BY DEF IInv, PublisherInv, BuildInv, CodeIsTrue, BuildCodeIsTrue, BuildAt
<1>2. IInv /\ [Next]_vars =>
         [\A p \in Publishers :
            job[p].at = "unlock" /\ job'[p].outcome # "none" => Reported(p)]_vars
  <2> SUFFICES ASSUME IInv, [Next]_vars, ~UNCHANGED vars,
                      NEW p \in Publishers, job[p].at = "unlock",
                      job'[p].outcome # "none"
               PROVE  Reported(p)
      OBVIOUS
  <2>1. job[p].outcome = "none"
        BY DEF IInv, PublisherInv, Owned
  <2>2. ASSUME NEW q \in Publishers \ {p}, Publish(q)
        PROVE  FALSE
        BY <2>1, <2>2, OneJob
  <2>3. ASSUME NEW r \in Readers, Open(r)
        PROVE  FALSE
        BY <2>1, <2>3 DEF Open, StartOpen, ReadPointer, OpenGeneration,
           CheckPointer, CheckRoot, Publishing
  <2>4. ASSUME PowerLoss
        PROVE  FALSE
        BY <2>4 DEF PowerLoss, NoJob
  <2>5. ASSUME Die(p)
        PROVE  FALSE
        BY <2>5 DEF Die, JobBecomes, IInv, Shape, NoJob
  <2>6. ASSUME Publish(p), ~Die(p)
        PROVE  Unlock(p)
    <3>1. ~\E m \in Manifests : Acquire(p, m)
          BY DEF Acquire, At
    <3>2. ~(Busy(p) \/ Capture(p) \/ CreateStage(p) \/ Building(p) \/ BuildReturns(p)
            \/ WriteManifest(p) \/ SyncStage(p) \/ Promote(p) \/ Adopt(p)
            \/ SyncGenerations(p))
          BY DEF At, Busy, Capture, CreateStage, Building, BuildReturns,
             WriteManifest, SyncStage, Promote, Adopt, SyncGenerations
    <3>3. ~(CreateCandidate(p) \/ ValidateCandidate(p) \/ Tidy(p) \/ Attest(p)
            \/ Replace(p) \/ SyncRoot(p) \/ Reopen(p) \/ StepFails(p)
            \/ PromoteInterrupted(p) \/ ReplaceFails(p) \/ CleanPointer(p)
            \/ CleanLeaves(p))
          BY DEF At, CreateCandidate, ValidateCandidate, Tidy, Attest, Replace,
             SyncRoot, Reopen, StepFails, PromoteInterrupted, ReplaceFails,
             CleanPointer, CleanLeaves
    <3>4. QED BY <2>6, <3>1, <3>2, <3>3 DEF Publish
  <2>7. QED BY <2>2, <2>3, <2>4, <2>5, <2>6, ReportsAreTrue DEF Next
<1>3. QED BY <1>1, <1>2, GenerationsAreWhole, PTL DEF Spec, CodesAreTrue

\* An open that succeeds returns the generation the pointer names at that
\* moment: a switch moves the root under every reader that holds it.
THEOREM OpensAreCurrent == Spec => OpenedIsCurrent
<1>1. IInv /\ [Next]_vars =>
         [\A r \in Readers :
            reader'[r].at = "opened" /\ reader[r].at # "opened"
               => reader'[r].of = current]_vars
  <2> SUFFICES ASSUME IInv, [Next]_vars, ~UNCHANGED vars,
                      NEW r \in Readers, reader'[r].at = "opened",
                      reader[r].at # "opened"
               PROVE  reader'[r].of = current
      OBVIOUS
  <2>0. reader[r] \in Openings /\ reader \in [Readers -> Openings] /\ ReaderInv(r)
        BY DEF IInv, Shape
  <2>1. ASSUME UNCHANGED reader \/ \E what : Touch(what)
        PROVE  FALSE
    <3>1. CASE \E what : Touch(what)
      <4>1. PICK what : Touch(what)
            BY <3>1
      <4>2. \E moved : reader'[r] = [reader[r] EXCEPT !.moved = moved]
            BY <4>1 DEF Touch
      <4>3. reader'[r].at = reader[r].at
            BY ONLY <2>0, <4>2 DEF Openings
      <4>4. QED BY <4>3
    <3>2. QED BY <2>1, <3>1
  <2>2. ASSUME NEW p \in Publishers, Publish(p)
        PROVE  UNCHANGED reader \/ \E what : Touch(what)
    <3>1. CASE (\E m \in Manifests : Acquire(p, m)) \/ Busy(p) \/ Capture(p)
               \/ CreateStage(p) \/ Building(p) \/ BuildReturns(p)
          BY <3>1 DEF Acquire, Busy, Capture, CreateStage, Building, BuildReturns,
             releaseVars
    <3>2. CASE WriteManifest(p) \/ SyncStage(p) \/ Promote(p) \/ Adopt(p)
               \/ SyncGenerations(p) \/ CreateCandidate(p) \/ ValidateCandidate(p)
          BY <3>2 DEF WriteManifest, SyncStage, Promote, Adopt, SyncGenerations,
             CreateCandidate, ValidateCandidate
    <3>3. CASE Tidy(p) \/ Attest(p) \/ Replace(p) \/ SyncRoot(p) \/ Reopen(p)
          BY <3>3 DEF Tidy, Attest, Replace, SwitchPointer, SyncRoot, Reopen
    <3>4. CASE StepFails(p) \/ PromoteInterrupted(p) \/ ReplaceFails(p)
          BY <3>4 DEF StepFails, PromoteInterrupted, ReplaceFails, SwitchPointer
    <3>5. CASE CleanPointer(p) \/ CleanLeaves(p) \/ Unlock(p) \/ Die(p)
          BY <3>5 DEF CleanPointer, CleanLeaves, Unlock, Die
    <3>6. QED BY <2>2, <3>1, <3>2, <3>3, <3>4, <3>5 DEF Publish
  <2>3. ~PowerLoss
        BY DEF PowerLoss, NoOpen
  <2>4. PICK s \in Readers : Open(s)
        BY <2>1, <2>2, <2>3 DEF Next
  <2>5. s = r
    <3>1. \E o : reader' = [reader EXCEPT ![s] = o]
      <4>1. CASE StartOpen(s) \/ ReadPointer(s)
        <5>1. reader' = [reader EXCEPT ![s].at = "generations", ![s].of = current]
                 => reader' = [reader EXCEPT ![s] = [reader[s] EXCEPT
                                   !.at = "generations", !.of = current]]
              BY <2>0
        <5>2. QED BY <4>1, <5>1 DEF StartOpen, ReadPointer, Refuse
      <4>2. CASE (\E runtime \in Runtimes : OpenGeneration(s, runtime))
                 \/ CheckPointer(s) \/ CheckRoot(s)
            BY <4>2 DEF OpenGeneration, CheckPointer, CheckRoot, Refuse, OpenGoes
      <4>3. QED BY <2>4, <4>1, <4>2 DEF Open
    <3>2. QED BY <2>0, <3>1
  <2>6. CASE StartOpen(r) \/ ReadPointer(r)
    <3>1. reader'[r].at # "opened"
          BY <2>0, <2>6 DEF StartOpen, ReadPointer, Refuse, NoOpen, Openings
    <3>2. QED BY <3>1
  <2>7. CASE (\E runtime \in Runtimes : OpenGeneration(r, runtime)) \/ CheckPointer(r)
    <3>1. reader'[r].at # "opened"
          BY <2>0, <2>7 DEF OpenGeneration, CheckPointer, Refuse, OpenGoes, NoOpen,
             Openings
    <3>2. QED BY <3>1
  <2>8. CASE CheckRoot(r)
    <3>1. reader[r].at = "checkRoot" /\ reader'[r].of = reader[r].of
          /\ "root" \notin reader[r].moved
          BY <2>0, <2>8 DEF CheckRoot, ReaderAt, Refuse, OpenGoes, NoOpen, Openings
    <3>2. QED BY <2>0, <3>1 DEF ReaderInv
  <2>9. QED BY <2>4, <2>5, <2>6, <2>7, <2>8 DEF Open
<1>2. QED BY <1>1, GenerationsAreWhole, PTL DEF Spec, OpenedIsCurrent
=============================================================================
