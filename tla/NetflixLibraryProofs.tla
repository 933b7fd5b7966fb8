------------------------- MODULE NetflixLibraryProofs -------------------------
(***************************************************************************)
(* Theorems about NetflixLibrary: its type correctness, that no mutation   *)
(* of the repository is ever refused as inconsistent, and that the files   *)
(* of the generations follow the state of the repository.                  *)
(***************************************************************************)
EXTENDS NetflixLibrary, NetflixRepositoryProofs

-----------------------------------------------------------------------------
(* Type correctness. *)

LEMMA MutateType ==
  ASSUME TypeOK, NEW allowed, NEW next \in RepositoryState, NEW ok,
         Mutate(allowed, next, ok)
  PROVE  /\ mem' \in RepositoryState /\ disk' \in RepositoryState
         /\ faults' \in 0..MaxFaults /\ refused' \in BOOLEAN
<1>1. mem' \in {mem, next} /\ disk' \in {disk, next}
  BY DEF Mutate, store
<1>2. faults' \in 0..MaxFaults
  BY BoundsAssumption DEF Mutate, store, TypeOK
<1>3. refused' \in BOOLEAN
  BY DEF Mutate, store, TypeOK
<1> QED BY <1>1, <1>2, <1>3 DEF TypeOK

LEMMA NoFilesType == NoFiles \in GenFiles
  BY DEF NoFiles, GenFiles

LEMMA WithSourceType ==
  ASSUME files \in [GenID -> GenFiles], NEW g \in GenID,
         NEW x \in {"none", "part", "good", "bad"}
  PROVE  WithSource(g, x) \in GenFiles
  BY DEF WithSource, GenFiles

LEMMA UpdateType ==
  ASSUME files \in [GenID -> GenFiles], NEW g \in GenID, NEW new \in GenFiles, Update(g, new)
  PROVE  files' \in [GenID -> GenFiles]
  BY DEF Update

LEMMA UnstageType ==
  ASSUME files \in [GenID -> GenFiles], NEW g \in GenID, Unstage(g)
  PROVE  files' \in [GenID -> GenFiles]
  BY WithSourceType, UpdateType DEF Unstage

LEMMA RemoveDirectoryType ==
  ASSUME TypeOK, NEW g \in GenID, NEW ok, RemoveDirectory(g, ok)
  PROVE  files' \in [GenID -> GenFiles] /\ faults' \in 0..MaxFaults
<1>1. [files EXCEPT ![g] = NoFiles] \in [GenID -> GenFiles]
  BY NoFilesType DEF TypeOK
<1>2. files' \in {files, [files EXCEPT ![g] = NoFiles]}
  BY DEF RemoveDirectory
<1>3. faults' \in 0..MaxFaults
  BY BoundsAssumption DEF RemoveDirectory, TypeOK
<1> QED BY <1>1, <1>2, <1>3 DEF TypeOK

LEMMA RemoveEverythingType ==
  ASSUME TypeOK, NEW ok, RemoveEverything(ok)
  PROVE  /\ files' \in [GenID -> GenFiles] /\ cacheFile' \in BOOLEAN
         /\ faults' \in 0..MaxFaults
<1>1. NoDirectories \in [GenID -> GenFiles]
  BY NoFilesType DEF NoDirectories
<1>2. files' \in {files, NoDirectories}
  BY DEF RemoveEverything
<1>4. cacheFile' \in BOOLEAN
  <2>1. cacheFile \in BOOLEAN
    BY DEF TypeOK
  <2>2. cacheFile' = FALSE \/ cacheFile' \in {cacheFile, FALSE}
    BY Zenon DEF RemoveEverything
  <2> QED BY <2>1, <2>2, Zenon
<1>3. faults' \in 0..MaxFaults
  <2>1. faults' = faults \/ (faults < MaxFaults /\ faults' = faults + 1)
    BY Zenon DEF RemoveEverything
  <2> QED BY <2>1, BoundsAssumption DEF TypeOK
<1> QED BY <1>1, <1>2, <1>3, <1>4 DEF TypeOK

LEMMA FailTypes ==
  ASSUME TypeOK, NEW g \in GenID
  PROVE  /\ FailRemove(g) => files' \in [GenID -> GenFiles] /\ faults' \in 0..MaxFaults
         /\ FailMark(g) => /\ mem' \in RepositoryState /\ disk' \in RepositoryState
                           /\ faults' \in 0..MaxFaults /\ refused' \in BOOLEAN
<1>1. mem \in RepositoryState
  BY DEF TypeOK
<1>2. Failed(mem, g) \in RepositoryState
  BY <1>1, EndTypes
<1>3. FailRemove(g) => files' \in [GenID -> GenFiles] /\ faults' \in 0..MaxFaults
  BY RemoveDirectoryType DEF FailRemove
<1>4. ASSUME FailMark(g)
      PROVE  /\ mem' \in RepositoryState /\ disk' \in RepositoryState
             /\ faults' \in 0..MaxFaults /\ refused' \in BOOLEAN
  <2>1. CASE UNCHANGED store
    BY <2>1 DEF store, TypeOK
  <2>2. ASSUME NEW ok \in BOOLEAN, Mutate(TRUE, Failed(mem, g), ok)
        PROVE  /\ mem' \in RepositoryState /\ disk' \in RepositoryState
               /\ faults' \in 0..MaxFaults /\ refused' \in BOOLEAN
    BY <1>2, <2>2, MutateType
  <2> QED BY <1>4, <2>1, <2>2 DEF FailMark
<1> QED BY <1>3, <1>4

(* The steps of the requests that create generations. *)
LEMMA CreateTypeOK ==
  ASSUME TypeOK, NEW g \in GenID,
         \/ CreateLocalGeneration(g) \/ CreateTMDBGeneration(g) \/ ValidateSource
         \/ CommitTMDBGeneration(g)
  PROVE  TypeOK'
<1>0. mem \in RepositoryState
  BY DEF TypeOK
<1>1. CASE CreateLocalGeneration(g)
  <2>1. PICK ok \in BOOLEAN : Mutate(TRUE, Received(mem, g), ok)
    BY <1>1 DEF CreateLocalGeneration
  <2>2. /\ mem' \in RepositoryState /\ disk' \in RepositoryState
        /\ faults' \in 0..MaxFaults /\ refused' \in BOOLEAN
    BY <1>0, <2>1, CreateTypes, MutateType
  <2> QED BY <1>1, <2>2 DEF TypeOK, CreateLocalGeneration, requests
<1>2. CASE CreateTMDBGeneration(g)
  BY <1>2 DEF TypeOK, CreateTMDBGeneration, CreateRequest, store, world
<1>3. CASE ValidateSource
  <2>1. [tmdb EXCEPT !.pc = "commit"] \in CreateRequest
    BY <1>3 DEF TypeOK, ValidateSource, NoCreate, CreateRequest
  <2> QED BY <1>3, <2>1 DEF TypeOK, ValidateSource, store, world
<1>4. CASE CommitTMDBGeneration(g)
  <2>1. CASE UNCHANGED <<store, used, job>>
    BY <1>4, <2>1 DEF TypeOK, CommitTMDBGeneration, store
  <2>2. CASE ~UNCHANGED <<store, used, job>>
    <3>1. PICK ok \in BOOLEAN :
            /\ AcceptsSource(tmdb.src) /\ used' = used \cup {g}
            /\ Mutate(TRUE, Derive(mem, g, tmdb.src), ok)
            /\ job' = IF ok THEN [job EXCEPT ![g] = "begin"] ELSE job
      BY <1>4, <2>2 DEF CommitTMDBGeneration
    <3>2. tmdb.src \in GenID
      BY <1>4 DEF CommitTMDBGeneration, NoCreate, CreateRequest, TypeOK
    <3>3. /\ mem' \in RepositoryState /\ disk' \in RepositoryState
          /\ faults' \in 0..MaxFaults /\ refused' \in BOOLEAN
      BY <1>0, <3>1, <3>2, CreateTypes, MutateType
    <3>4. job' \in [GenID -> JobSteps]
      BY <3>1 DEF TypeOK, JobSteps
    <3> QED BY <1>4, <3>1, <3>3, <3>4 DEF TypeOK, CommitTMDBGeneration
  <2> QED BY <2>1, <2>2
<1> QED BY <1>1, <1>2, <1>3, <1>4

(* The steps of an upload. *)
LEMMA UploadTypeOK ==
  ASSUME TypeOK, NEW g \in GenID, UploadStart(g) \/ Upload(g)
  PROVE  TypeOK'
<1>0. mem \in RepositoryState /\ files \in [GenID -> GenFiles] /\ up \in [GenID -> UploadSteps]
  BY DEF TypeOK
<1>u. \A pc \in UploadSteps : UploadGo(g, pc) => up' \in [GenID -> UploadSteps]
  BY <1>0 DEF UploadGo
<1>1. CASE UploadStart(g)
  BY <1>1, <1>u DEF TypeOK, UploadStart, UploadFrame, UploadSteps, store, world, requests
<1>2. CASE UploadStage(g)
  <2>1. up' \in [GenID -> UploadSteps]
    BY <1>2, <1>u, Zenon DEF UploadStage, UploadSteps
  <2>2. UNCHANGED files \/ Update(g, WithSource(g, "part"))
    BY <1>2, Zenon DEF UploadStage
  <2>3. files' \in [GenID -> GenFiles]
    BY <1>0, <2>2, WithSourceType, UpdateType
  <2> QED BY <1>2, <2>1, <2>3 DEF TypeOK, UploadStage, UploadFrame, store, world, requests
<1>3. CASE UploadCopy(g)
  <2>0. UploadGo(g, "commit") \/ UploadGo(g, "failing")
    BY <1>3 DEF UploadCopy
  <2>1. up' \in [GenID -> UploadSteps]
    BY <2>0, <1>u DEF UploadSteps
  <2>2. files' \in [GenID -> GenFiles]
    BY <1>0, <1>3, WithSourceType, UpdateType, UnstageType DEF UploadCopy
  <2>3. UploadFrame /\ UNCHANGED <<store, job>>
    BY <1>3 DEF UploadCopy
  <2> QED BY <2>1, <2>2, <2>3 DEF TypeOK, UploadFrame, store, world, requests
<1>4. CASE UploadCommit(g)
  <2>1. up' \in [GenID -> UploadSteps]
    BY <1>4, <1>u DEF UploadCommit, UploadSteps
  <2>2. /\ mem' \in RepositoryState /\ disk' \in RepositoryState
        /\ faults' \in 0..MaxFaults /\ refused' \in BOOLEAN /\ job' \in [GenID -> JobSteps]
    <3>1. CASE UNCHANGED <<store, job>>
      BY <3>1 DEF TypeOK, store
    <3>2. ASSUME NEW ok \in BOOLEAN, NEW allowed, Mutate(allowed, Validated(mem, g), ok),
                 job' = IF ok /\ job[g] = "idle" THEN [job EXCEPT ![g] = "begin"] ELSE job
          PROVE  /\ mem' \in RepositoryState /\ disk' \in RepositoryState
                 /\ faults' \in 0..MaxFaults /\ refused' \in BOOLEAN
                 /\ job' \in [GenID -> JobSteps]
      <4>1. Validated(mem, g) \in RepositoryState
        BY <1>0, StepTypes
      <4>2. job' \in [GenID -> JobSteps]
        BY <3>2 DEF TypeOK, JobSteps
      <4> QED BY <3>2, <4>1, <4>2, MutateType
    <3> QED BY <1>4, <3>1, <3>2 DEF UploadCommit
  <2>3. UploadFrame /\ UNCHANGED files
    BY <1>4 DEF UploadCommit
  <2> QED BY <2>1, <2>2, <2>3 DEF TypeOK, UploadFrame, world, requests
<1>5. CASE UploadFail(g)
  <2>1. up' \in [GenID -> UploadSteps]
    BY <1>5, <1>u DEF UploadFail, UploadSteps
  <2>2. CASE FailRemove(g)
    BY <1>5, <2>1, <2>2, FailTypes
    DEF TypeOK, UploadFail, FailRemove, UploadFrame, world, requests
  <2>3. CASE FailMark(g) /\ UNCHANGED files
    BY <1>5, <2>1, <2>3, FailTypes DEF TypeOK, UploadFail, UploadFrame, world, requests
  <2> QED BY <1>5, <2>2, <2>3 DEF UploadFail
<1>6. CASE UploadFinish(g)
  BY <1>6, <1>u DEF TypeOK, UploadFinish, UploadFrame, UploadSteps, store, world, requests
<1> QED BY <1>1, <1>2, <1>3, <1>4, <1>5, <1>6 DEF Upload

(* The steps of a job: each has one of three shapes. *)
LEMMA GoType ==
  ASSUME TypeOK, NEW g \in GenID, NEW pc \in JobSteps, Go(g, pc)
  PROVE  job' \in [GenID -> JobSteps]
  BY DEF TypeOK, Go

LEMMA GoIfType ==
  ASSUME TypeOK, NEW g \in GenID, NEW pc \in JobSteps, NEW ok, GoIf(ok, g, pc)
  PROVE  job' \in [GenID -> JobSteps]
  BY GoType DEF GoIf, JobSteps

LEMMA ReadStepType ==
  ASSUME TypeOK, NEW g \in GenID, NEW from, NEW ok, NEW to \in JobSteps,
         ReadStep(g, from, ok, to), JobFrame
  PROVE  TypeOK'
<1>1. job' \in [GenID -> JobSteps]
  BY GoIfType DEF ReadStep
<1>2. UNCHANGED <<store, files, cacheFile>>
  BY DEF ReadStep
<1> QED BY <1>1, <1>2 DEF JobFrame, TypeOK, store, world, requests

LEMMA MutateStepType ==
  ASSUME TypeOK, NEW g \in GenID, NEW from, NEW allowed, NEW next \in RepositoryState,
         NEW to \in JobSteps, MutateStep(g, from, allowed, next, to), JobFrame
  PROVE  TypeOK'
<1>1. PICK ok \in BOOLEAN : Mutate(allowed, next, ok) /\ GoIf(ok, g, to)
  BY DEF MutateStep
<1>2. job' \in [GenID -> JobSteps]
  BY <1>1, GoIfType
<1>3. /\ mem' \in RepositoryState /\ disk' \in RepositoryState
      /\ faults' \in 0..MaxFaults /\ refused' \in BOOLEAN
  BY <1>1, MutateType
<1>4. UNCHANGED <<files, cacheFile>>
  BY DEF MutateStep
<1> QED BY <1>2, <1>3, <1>4 DEF JobFrame, TypeOK, world, requests

LEMMA FileStepType ==
  ASSUME TypeOK, NEW g \in GenID, NEW from, NEW new \in GenFiles, NEW to \in JobSteps,
         FileStep(g, from, new, to), JobFrame
  PROVE  TypeOK'
<1>1. job' \in [GenID -> JobSteps]
  BY GoType DEF FileStep
<1>2. files' \in [GenID -> GenFiles]
  BY UpdateType DEF FileStep, TypeOK
<1>3. UNCHANGED <<store, cacheFile>>
  BY DEF FileStep
<1> QED BY <1>1, <1>2, <1>3 DEF JobFrame, TypeOK, store, world, requests

LEMMA JobTypeOK ==
  ASSUME TypeOK, NEW g \in GenID, Job(g)
  PROVE  TypeOK'
<1>0. /\ mem \in RepositoryState /\ files \in [GenID -> GenFiles] /\ JobFrame
      /\ files[g].outcomes \in SUBSET Titles
  BY DEF TypeOK, Job, GenFiles
<1>n. \A pc \in {"revalidate", "parse", "source", "reconcile", "importing", "records",
                "analytics", "checkpoint", "validate", "rmsource", "activate", "enrich",
                "progress", "rmoutcomes", "clear", "failing", "failmark", "finish", "idle"} :
        pc \in JobSteps
  BY DEF JobSteps, LocalSteps, TMDBSteps
<1>m. /\ Imported(mem, g) \in RepositoryState /\ Checkpointed(mem, g) \in RepositoryState
      /\ Progressed(mem, g, files[g].outcomes) \in RepositoryState
      /\ Cleared(mem, g) \in RepositoryState /\ Activated(mem, g) \in RepositoryState
  BY <1>0, StepTypes, EndTypes
<1>f. /\ [files[g] EXCEPT !.records = TRUE] \in GenFiles
      /\ [files[g] EXCEPT !.analytics = TRUE] \in GenFiles
      /\ [files[g] EXCEPT !.outcomes = {}] \in GenFiles
      /\ \A t \in Titles : [files[g] EXCEPT !.outcomes = @ \cup {t}] \in GenFiles
      /\ WithSource(g, "none") \in GenFiles
  BY <1>0, WithSourceType, ZenonT(60) DEF GenFiles
<1>1. CASE JobBegin(g)
  BY <1>0, <1>1, <1>n, ReadStepType DEF JobBegin
<1>2. CASE Revalidate(g)
  BY <1>0, <1>2, <1>n, ReadStepType DEF Revalidate
<1>3. CASE JobFails(g)
  <2>1. job' \in [GenID -> JobSteps]
    BY <1>3, <1>n, GoType DEF JobFails
  <2> QED BY <1>0, <1>3, <2>1 DEF JobFails, JobFrame, TypeOK, store, world, requests
<1>4. CASE LocalJob(g)
  <2>1. CASE ParseViewingActivity(g)
    BY <1>0, <2>1, <1>n, ReadStepType DEF ParseViewingActivity
  <2>2. CASE RecordImporting(g)
    BY <1>0, <2>2, <1>n, <1>m, MutateStepType DEF RecordImporting
  <2>3. CASE RemoveStagedSource(g)
    BY <1>0, <2>3, <1>n, <1>f, FileStepType DEF RemoveStagedSource
  <2> QED BY <1>4, <2>1, <2>2, <2>3 DEF LocalJob
<1>5. CASE TMDBJob(g)
  <2>1. CASE EnrichmentSource(g)
    BY <1>0, <2>1, <1>n, ReadStepType DEF EnrichmentSource
  <2>2. CASE ReconcileEnrichmentProgress(g)
    BY <1>0, <2>2, <1>n, <1>m, ReadStepType, MutateStepType DEF ReconcileEnrichmentProgress
  <2>3. CASE WriteOutcome(g)
    <3>1. files' \in [GenID -> GenFiles]
      BY <1>0, <1>f, <2>3, UpdateType DEF WriteOutcome
    <3>2. job' \in [GenID -> JobSteps]
      BY <1>n, <2>3, GoType DEF WriteOutcome
    <3>3. UNCHANGED store /\ cacheFile' \in BOOLEAN
      BY <2>3 DEF WriteOutcome
    <3> QED BY <1>0, <3>1, <3>2, <3>3 DEF JobFrame, TypeOK, store, world, requests
  <2>4. CASE FinishEnrichment(g)
    BY <1>0, <2>4, <1>n, ReadStepType DEF FinishEnrichment
  <2>5. CASE RecordEnrichmentProgress(g)
    BY <1>0, <2>5, <1>n, <1>m, MutateStepType DEF RecordEnrichmentProgress
  <2>6. CASE RemoveOutcomes(g)
    BY <1>0, <2>6, <1>n, <1>f, FileStepType DEF RemoveOutcomes
  <2>7. CASE ClearCheckpointBytes(g)
    BY <1>0, <2>7, <1>n, <1>m, MutateStepType DEF ClearCheckpointBytes
  <2> QED BY <1>5, <2>1, <2>2, <2>3, <2>4, <2>5, <2>6, <2>7 DEF TMDBJob
<1>6. CASE WriteRecords(g)
  BY <1>0, <1>6, <1>n, <1>f, FileStepType DEF WriteRecords
<1>7. CASE WriteAnalytics(g)
  BY <1>0, <1>7, <1>n, <1>f, FileStepType DEF WriteAnalytics
<1>8. CASE RecordCheckpoint(g)
  BY <1>0, <1>8, <1>n, <1>m, MutateStepType DEF RecordCheckpoint
<1>9. CASE ValidateArtifacts(g)
  BY <1>0, <1>9, <1>n, ReadStepType DEF ValidateArtifacts
<1>10. CASE ActivateGeneration(g)
  BY <1>0, <1>10, <1>n, <1>m, MutateStepType DEF ActivateGeneration
<1>11. CASE JobFail(g)
  <2>1. job' \in [GenID -> JobSteps] /\ UNCHANGED cacheFile
    BY <1>11, <1>n, GoType DEF JobFail
  <2>2. CASE UNCHANGED <<store, files>>
    BY <1>0, <2>1, <2>2 DEF JobFrame, TypeOK, store, world, requests
  <2>3. CASE FailRemove(g)
    BY <1>0, <2>1, <2>3, FailTypes DEF FailRemove, JobFrame, TypeOK, world, requests
  <2>4. CASE FailMark(g) /\ UNCHANGED files
    BY <1>0, <2>1, <2>4, FailTypes DEF JobFrame, TypeOK, world, requests
  <2> QED BY <1>11, <2>2, <2>3, <2>4 DEF JobFail
<1>12. CASE JobFinish(g)
  BY <1>0, <1>12, <1>n, ReadStepType DEF JobFinish
<1> QED
  BY <1>1, <1>2, <1>3, <1>4, <1>5, <1>6, <1>7, <1>8, <1>9, <1>10, <1>11, <1>12 DEF Job

(* The steps of the requests that delete. *)
LEMMA DeleteGoType ==
  ASSUME TypeOK, NEW d \in Deleters
  PROVE  /\ \A pc \in DeleteSteps : DeleteGo(d, pc) /\ del[d].pc # "idle" =>
              del' \in [Deleters -> DeleteRequest \cup {NoDelete}]
         /\ DeleteEnd(d) => del' \in [Deleters -> DeleteRequest \cup {NoDelete}]
<1>1. del \in [Deleters -> DeleteRequest \cup {NoDelete}]
  BY DEF TypeOK
<1>2. ASSUME NEW pc \in DeleteSteps, DeleteGo(d, pc), del[d].pc # "idle"
      PROVE  del' \in [Deleters -> DeleteRequest \cup {NoDelete}]
  <2>1. del[d] \in DeleteRequest
    BY <1>1, <1>2 DEF NoDelete
  <2>2. [del[d] EXCEPT !.pc = pc] \in DeleteRequest
    BY <2>1 DEF DeleteRequest
  <2>3. del' = [del EXCEPT ![d] = [del[d] EXCEPT !.pc = pc]]
    BY <1>2 DEF DeleteGo
  <2> QED BY <1>1, <2>2, <2>3
<1>3. DeleteEnd(d) => del' \in [Deleters -> DeleteRequest \cup {NoDelete}]
  BY <1>1 DEF DeleteEnd
<1> QED BY <1>2, <1>3

LEMMA DeleteTypeOK ==
  ASSUME TypeOK, NEW d \in Deleters, NEW g \in GenID,
         DeleteGeneration(d, g) \/ Delete(d)
  PROVE  TypeOK'
<1> DEFINE e == del[d].gen
<1>0. mem \in RepositoryState /\ del \in [Deleters -> DeleteRequest \cup {NoDelete}]
  BY DEF TypeOK
<1>n. \A pc \in {"wait", "check", "failing", "failmark", "mark", "rmdir", "unmark"} :
        pc \in DeleteSteps
  BY DEF DeleteSteps
<1>k. ASSUME del' \in [Deleters -> DeleteRequest \cup {NoDelete}], DeleteFrame,
             mem' \in RepositoryState, disk' \in RepositoryState,
             faults' \in 0..MaxFaults, refused' \in BOOLEAN, files' \in [GenID -> GenFiles]
      PROVE  TypeOK'
  BY <1>k DEF DeleteFrame, TypeOK, world
<1>s. UNCHANGED store =>
        /\ mem' \in RepositoryState /\ disk' \in RepositoryState
        /\ faults' \in 0..MaxFaults /\ refused' \in BOOLEAN
  BY DEF store, TypeOK
<1>fl. UNCHANGED files => files' \in [GenID -> GenFiles]
  BY DEF TypeOK
<1>1. CASE DeleteGeneration(d, g)
  <2>1. AfterWait(IsBuilding(mem, g)) \in DeleteSteps
    BY <1>n DEF AfterWait
  <2>2. [gen |-> g, building |-> IsBuilding(mem, g),
         pc |-> IF job[g] # "idle" THEN "wait" ELSE AfterWait(IsBuilding(mem, g))]
           \in DeleteRequest
    BY <1>n, <2>1 DEF DeleteRequest, IsBuilding
  <2>3. del' \in [Deleters -> DeleteRequest \cup {NoDelete}]
    BY <1>0, <1>1, <2>2 DEF DeleteGeneration
  <2> QED BY <1>1, <1>k, <1>s, <1>fl, <2>3 DEF DeleteGeneration
<1>2. ASSUME Delete(d), del[d].pc # "idle", e \in GenID PROVE TypeOK'
  <2>0. /\ MarkedPending(mem, e) \in RepositoryState
        /\ Removed(mem, e) \in RepositoryState
    BY <1>0, <1>2, EndTypes
  <2>1. CASE DeleteWait(d)
    BY <1>k, <1>s, <1>fl, <1>n, <2>1, DeleteGoType DEF DeleteWait, AfterWait
  <2>2. CASE DeleteCheck(d)
    BY <1>k, <1>s, <1>fl, <1>n, <2>2, DeleteGoType DEF DeleteCheck
  <2>3. CASE DeleteFail(d)
    <3>1. CASE FailRemove(e) /\ DeleteGo(d, "failmark")
      <4>1. files' \in [GenID -> GenFiles] /\ faults' \in 0..MaxFaults
        BY <1>2, <3>1, FailTypes
      <4>2. UNCHANGED <<mem, disk, refused>>
        BY <3>1 DEF FailRemove
      <4>3. mem' \in RepositoryState /\ disk' \in RepositoryState /\ refused' \in BOOLEAN
        BY <4>2 DEF TypeOK
      <4> QED BY <1>k, <1>n, <2>3, <3>1, <4>1, <4>3, DeleteGoType DEF DeleteFail
    <3>2. CASE FailMark(e) /\ DeleteEnd(d) /\ UNCHANGED files
      BY <1>2, <1>k, <1>fl, <2>3, <3>2, FailTypes, DeleteGoType DEF DeleteFail
    <3> QED BY <2>3, <3>1, <3>2 DEF DeleteFail
  <2>4. CASE DeleteMark(d)
    <3>1. PICK ok \in BOOLEAN :
            /\ Mutate(mem.active # e /\ Exists(mem, e), MarkedPending(mem, e), ok)
            /\ IF ok THEN DeleteGo(d, "rmdir") ELSE DeleteEnd(d)
      BY <2>4 DEF DeleteMark
    <3>2. /\ mem' \in RepositoryState /\ disk' \in RepositoryState
          /\ faults' \in 0..MaxFaults /\ refused' \in BOOLEAN
      BY <2>0, <3>1, MutateType
    <3>3. del' \in [Deleters -> DeleteRequest \cup {NoDelete}]
      BY <1>2, <1>n, <3>1, DeleteGoType
    <3> QED BY <1>k, <1>fl, <2>4, <3>2, <3>3 DEF DeleteMark
  <2>5. CASE DeleteDirectory(d)
    <3>1. PICK ok \in BOOLEAN :
            RemoveDirectory(e, ok) /\ (IF ok THEN DeleteGo(d, "unmark") ELSE DeleteEnd(d))
      BY <2>5 DEF DeleteDirectory
    <3>2. files' \in [GenID -> GenFiles] /\ faults' \in 0..MaxFaults
      BY <1>2, <3>1, RemoveDirectoryType
    <3>3. del' \in [Deleters -> DeleteRequest \cup {NoDelete}]
      BY <1>2, <1>n, <3>1, DeleteGoType
    <3>4. mem' \in RepositoryState /\ disk' \in RepositoryState /\ refused' \in BOOLEAN
      BY <2>5 DEF DeleteDirectory, TypeOK
    <3> QED BY <1>k, <2>5, <3>2, <3>3, <3>4 DEF DeleteDirectory
  <2>6. CASE DeleteUnmark(d)
    <3>1. PICK ok \in BOOLEAN : Mutate(TRUE, Removed(mem, e), ok)
      BY <2>6 DEF DeleteUnmark
    <3>2. /\ mem' \in RepositoryState /\ disk' \in RepositoryState
          /\ faults' \in 0..MaxFaults /\ refused' \in BOOLEAN
      BY <2>0, <3>1, MutateType
    <3> QED BY <1>k, <1>fl, <2>6, <3>2, DeleteGoType DEF DeleteUnmark
  <2> QED BY <1>2, <2>1, <2>2, <2>3, <2>4, <2>5, <2>6 DEF Delete
<1>3. CASE Delete(d)
  <2>1. del[d].pc # "idle"
    BY <1>3
    DEF Delete, DeleteWait, DeleteCheck, DeleteFail, DeleteMark, DeleteDirectory, DeleteUnmark
  <2>2. e \in GenID
    BY <1>0, <2>1 DEF NoDelete, DeleteRequest
  <2> QED BY <1>2, <1>3, <2>1, <2>2
<1> QED BY <1>1, <1>3

(* The steps of DeleteProvider and of the process itself. *)
LEMMA EverythingTypeOK ==
  ASSUME TypeOK, DeleteProvider \/ Provider
  PROVE  TypeOK'
<1>0. MarkedDeleting(mem) \in RepositoryState /\ EmptyState \in RepositoryState
  <2>1. mem \in RepositoryState
    BY DEF TypeOK
  <2> QED BY <2>1, PointerTypes, EmptyType DEF MarkedDeleting
<1>1. CASE DeleteProvider
  <2>1. PICK ok \in BOOLEAN :
          Mutate(TRUE, MarkedDeleting(mem), ok) /\ prov' = IF ok THEN "wait" ELSE "idle"
    BY <1>1 DEF DeleteProvider
  <2>2. /\ mem' \in RepositoryState /\ disk' \in RepositoryState
        /\ faults' \in 0..MaxFaults /\ refused' \in BOOLEAN
    BY <1>0, <2>1, MutateType
  <2>3. prov' \in {"idle", "wait", "remove", "reset"}
    BY <2>1
  <2> QED BY <1>1, <2>2, <2>3 DEF DeleteProvider, ProviderFrame, TypeOK, world
<1>2. CASE ProviderWait
  BY <1>2 DEF ProviderWait, ProviderFrame, TypeOK, store, world
<1>3. CASE ProviderRemove
  <2>1. PICK ok \in BOOLEAN : RemoveEverything(ok) /\ prov' = IF ok THEN "reset" ELSE "idle"
    BY <1>3 DEF ProviderRemove
  <2>2. /\ files' \in [GenID -> GenFiles] /\ cacheFile' \in BOOLEAN
        /\ faults' \in 0..MaxFaults
    BY <2>1, RemoveEverythingType
  <2>3. prov' \in {"idle", "wait", "remove", "reset"}
    BY <2>1
  <2> QED BY <1>3, <2>2, <2>3 DEF ProviderRemove, ProviderFrame, TypeOK, world
<1>4. CASE ProviderReset
  <2>1. PICK ok \in BOOLEAN : Mutate(TRUE, EmptyState, ok)
    BY <1>4 DEF ProviderReset
  <2>2. /\ mem' \in RepositoryState /\ disk' \in RepositoryState
        /\ faults' \in 0..MaxFaults /\ refused' \in BOOLEAN
    BY <1>0, <2>1, MutateType
  <2> QED BY <1>4, <2>2 DEF ProviderReset, ProviderFrame, TypeOK, world
<1> QED BY <1>1, <1>2, <1>3, <1>4 DEF Provider

LEMMA RecoverTypeOK ==
  ASSUME TypeOK, Recover
  PROVE  TypeOK'
<1>0. mem \in RepositoryState /\ disk \in RepositoryState /\ files \in [GenID -> GenFiles]
  BY DEF TypeOK
<1>d. Down => /\ mem' \in RepositoryState /\ disk' \in RepositoryState
              /\ refused' \in BOOLEAN /\ phase' = "down"
  BY <1>0 DEF Down, TypeOK
<1>s. UNCHANGED <<mem, disk, refused>> =>
        mem' \in RepositoryState /\ disk' \in RepositoryState /\ refused' \in BOOLEAN
  BY DEF TypeOK
<1>k. ASSUME OpenFrame, UNCHANGED configured, job' \in [GenID -> JobSteps],
             phase' \in {"down", "recover", "open", "closing"},
             mem' \in RepositoryState, disk' \in RepositoryState, faults' \in 0..MaxFaults,
             refused' \in BOOLEAN, files' \in [GenID -> GenFiles], cacheFile' \in BOOLEAN
      PROVE  TypeOK'
  BY <1>k DEF OpenFrame, requests, TypeOK
<1>1. CASE RecoverProvider
  <2>1. OpenFrame /\ UNCHANGED configured /\ job' \in [GenID -> JobSteps]
        /\ phase = "recover"
    BY <1>1 DEF RecoverProvider, TypeOK
  <2>2. CASE files = NoDirectories /\ ~cacheFile
    <3>1. PICK ok \in BOOLEAN :
            Mutate(TRUE, EmptyState, ok) /\ phase' = IF ok THEN "recover" ELSE "down"
      BY <1>1, <2>2 DEF RecoverProvider
    <3>2. /\ mem' \in RepositoryState /\ disk' \in RepositoryState
          /\ faults' \in 0..MaxFaults /\ refused' \in BOOLEAN
      BY <3>1, EmptyType, MutateType
    <3>3. files' \in [GenID -> GenFiles] /\ cacheFile' \in BOOLEAN
      BY <1>1, <2>2 DEF RecoverProvider, TypeOK
    <3> QED BY <1>k, <2>1, <3>1, <3>2, <3>3
  <2>3. CASE ~(files = NoDirectories /\ ~cacheFile)
    <3>1. PICK ok \in BOOLEAN :
            /\ RemoveEverything(ok)
            /\ UNCHANGED <<mem, disk, refused, phase>> \/ Down
      BY <1>1, <2>3 DEF RecoverProvider
    <3>2. /\ files' \in [GenID -> GenFiles] /\ cacheFile' \in BOOLEAN
          /\ faults' \in 0..MaxFaults
      BY <3>1, RemoveEverythingType
    <3> QED BY <1>d, <1>k, <1>s, <2>1, <3>1, <3>2
  <2> QED BY <2>2, <2>3
<1>2. ASSUME NEW g \in GenID, RecoverPending(g) PROVE TypeOK'
  <2>1. OpenFrame /\ UNCHANGED configured /\ job' \in [GenID -> JobSteps]
        /\ phase = "recover" /\ cacheFile' \in BOOLEAN
    BY <1>2 DEF RecoverPending, TypeOK
  <2>2. CASE files[g] = NoFiles
    <3>1. PICK ok \in BOOLEAN :
            Mutate(TRUE, Removed(mem, g), ok) /\ phase' = IF ok THEN "recover" ELSE "down"
      BY <1>2, <2>2 DEF RecoverPending
    <3>2. /\ mem' \in RepositoryState /\ disk' \in RepositoryState
          /\ faults' \in 0..MaxFaults /\ refused' \in BOOLEAN
      BY <1>0, <3>1, EndTypes, MutateType
    <3>3. files' \in [GenID -> GenFiles]
      BY <1>2, <2>2 DEF RecoverPending, TypeOK
    <3> QED BY <1>k, <2>1, <3>1, <3>2, <3>3
  <2>3. CASE files[g] # NoFiles
    <3>1. PICK ok \in BOOLEAN :
            /\ RemoveDirectory(g, ok)
            /\ UNCHANGED <<mem, disk, refused, phase>> \/ Down
      BY <1>2, <2>3 DEF RecoverPending
    <3>2. files' \in [GenID -> GenFiles] /\ faults' \in 0..MaxFaults
      BY <3>1, RemoveDirectoryType
    <3> QED BY <1>d, <1>k, <1>s, <2>1, <3>1, <3>2
  <2> QED BY <2>2, <2>3
<1>3. CASE RecoverBuilding
  <2> DEFINE g == mem.building
             receiving == StateOf(mem, g) = "receiving"
  <2>1. OpenFrame /\ UNCHANGED configured /\ cacheFile' \in BOOLEAN
    BY <1>3 DEF RecoverBuilding, DeletionsRecovered, TypeOK
  <2>2. g \in GenID \cup {None} /\ (receiving => g \in GenID)
    BY <1>0 DEF RepositoryState, StateOf
  <2>3. files' \in [GenID -> GenFiles]
    <3>1. IF receiving THEN Unstage(g) ELSE UNCHANGED files
      BY <1>3 DEF RecoverBuilding, DeletionsRecovered
    <3> HIDE DEF receiving, g
    <3> QED BY <1>0, <2>2, <3>1, UnstageType
  <2>4. \/ \E ok \in BOOLEAN :
             /\ receiving
             /\ Mutate(TRUE, Validated(mem, g), ok)
             /\ phase' = IF ok THEN "open" ELSE "down"
             /\ job' = IF ok THEN [job EXCEPT ![g] = "begin"] ELSE job
        \/ /\ phase' = "open" /\ UNCHANGED store
           /\ job' = job \/ job' = [job EXCEPT ![g] = "begin"]
    BY <1>3 DEF RecoverBuilding, DeletionsRecovered
  <2>5. job' \in [GenID -> JobSteps] /\ phase' \in {"open", "down"}
    <3> HIDE DEF receiving, g
    <3> QED BY <2>4 DEF TypeOK, JobSteps
  <2>6. /\ mem' \in RepositoryState /\ disk' \in RepositoryState
        /\ faults' \in 0..MaxFaults /\ refused' \in BOOLEAN
    <3>1. CASE UNCHANGED store
      BY <3>1 DEF store, TypeOK
    <3>2. ASSUME receiving, NEW ok \in BOOLEAN, Mutate(TRUE, Validated(mem, g), ok)
          PROVE  /\ mem' \in RepositoryState /\ disk' \in RepositoryState
                 /\ faults' \in 0..MaxFaults /\ refused' \in BOOLEAN
      <4>1. Validated(mem, g) \in RepositoryState
        BY <1>0, <2>2, <3>2, StepTypes
      <4> QED BY <3>2, <4>1, MutateType
    <3> HIDE DEF receiving, g
    <3> QED BY <2>4, <3>1, <3>2
  <2> QED BY <1>k, <2>1, <2>3, <2>5, <2>6
<1> QED BY <1>1, <1>2, <1>3 DEF Recover

LEMMA TypeInit == Init => TypeOK
<1> SUFFICES ASSUME Init PROVE TypeOK
  OBVIOUS
<1>1. mem \in RepositoryState /\ disk \in RepositoryState
  BY EmptyType DEF Init
<1>2. files \in [GenID -> GenFiles]
  BY NoFilesType DEF Init, NoDirectories
<1>3. cacheFile \in BOOLEAN /\ configured \in BOOLEAN /\ refused \in BOOLEAN
  BY DEF Init
<1>4. /\ phase \in {"down", "recover", "open", "closing"} /\ used \in SUBSET GenID
      /\ prov \in {"idle", "wait", "remove", "reset"}
  BY DEF Init
<1>5. up \in [GenID -> UploadSteps] /\ job \in [GenID -> JobSteps]
  BY DEF Init, UploadSteps, JobSteps
<1>6. /\ del \in [Deleters -> DeleteRequest \cup {NoDelete}]
      /\ tmdb \in CreateRequest \cup {NoCreate}
  BY DEF Init
<1>7. faults \in 0..MaxFaults /\ stops \in 0..MaxStops
  BY BoundsAssumption DEF Init
<1> QED BY <1>1, <1>2, <1>3, <1>4, <1>5, <1>6, <1>7 DEF TypeOK

LEMMA TypeStep == TypeOK /\ [Next]_vars => TypeOK'
<1> SUFFICES ASSUME TypeOK, [Next]_vars PROVE TypeOK'
  OBVIOUS
<1>1. CASE Request
  <2>1. CASE \E g \in GenID : SetProfileLabel(g)
    <3>1. PICK g \in GenID : SetProfileLabel(g)
      BY <2>1
    <3>2. [files[g] EXCEPT !.label = TRUE] \in GenFiles
      BY ZenonT(60) DEF TypeOK, GenFiles
    <3>3. files' \in [GenID -> GenFiles]
      BY <3>1, <3>2, UpdateType DEF SetProfileLabel, TypeOK
    <3> QED BY <3>1, <3>3 DEF SetProfileLabel, TypeOK, store, world, requests
  <2>2. CASE ValidateSource
    <3>1. tmdb \in CreateRequest
      BY <2>2 DEF ValidateSource, TypeOK, NoCreate
    <3>2. tmdb.src \in GenID
      BY <3>1 DEF CreateRequest
    <3> QED BY <2>2, <3>2, CreateTypeOK
  <2>3. CASE DeleteProvider
    BY <2>3, EverythingTypeOK
  <2> QED BY <1>1, <2>1, <2>2, <2>3, CreateTypeOK, UploadTypeOK, DeleteTypeOK DEF Request
<1>2. CASE \E g \in GenID : Upload(g) \/ Job(g)
  BY <1>2, UploadTypeOK, JobTypeOK
<1>3. CASE \E d \in Deleters : Delete(d)
  <2>1. PICK d \in Deleters : Delete(d)
    BY <1>3
  <2>2. del[d].pc # "idle"
    BY <2>1
    DEF Delete, DeleteWait, DeleteCheck, DeleteFail, DeleteMark, DeleteDirectory, DeleteUnmark
  <2>3. del[d].gen \in GenID
    BY <2>2 DEF TypeOK, NoDelete, DeleteRequest
  <2> QED BY <2>1, <2>3, DeleteTypeOK
<1>4. CASE Provider
  BY <1>4, EverythingTypeOK
<1>5. CASE Open
  BY <1>5, ConfiguredAssumption DEF Open, OpenFrame, TypeOK, requests
<1>6. CASE Recover
  BY <1>6, RecoverTypeOK
<1>7. CASE Close
  BY <1>7, BoundsAssumption DEF Close, TypeOK, store, requests
<1>8. CASE Closed
  BY <1>8 DEF Closed, Down, TypeOK, requests
<1>9. CASE Crash
  BY <1>9, BoundsAssumption DEF Crash, Down, TypeOK, UploadSteps, JobSteps
<1>10. CASE UNCHANGED vars
  BY <1>10 DEF vars, TypeOK
<1> QED
  BY <1>1, <1>2, <1>3, <1>4, <1>5, <1>6, <1>7, <1>8, <1>9, <1>10 DEF Next

(* Every reachable state has the types of its variables: the records in     *)
(* memory and in the state file, and the places of requests and jobs.       *)
THEOREM TypeCorrect == Spec => []TypeOK
  BY TypeInit, TypeStep, PTL DEF Spec

-----------------------------------------------------------------------------
(***************************************************************************)
(* The inductive invariant.  A mutation is refused exactly when the state  *)
(* it builds is inconsistent, so the state it builds has to be sound.      *)
(***************************************************************************)

(* The persisted half of a step, and what it leaves of one generation.      *)
StoreHolds == Sound(mem') /\ Sound(disk') /\ NeverRefused'

Kept(h) ==
  /\ Undisturbed(mem, mem', h)
  /\ Exists(disk', h) => Exists(mem, h) \/ Exists(disk, h)

LEMMA MutateHolds ==
  ASSUME IInv, NEW allowed \in BOOLEAN, NEW next, NEW ok \in BOOLEAN,
         allowed => Sound(next), Mutate(allowed, next, ok)
  PROVE  /\ StoreHolds
         /\ ok => allowed /\ mem' = next
         /\ ~ok => mem' = mem
         /\ disk' = disk \/ (allowed /\ disk' = next)
<1>1. allowed => Consistent(next)
  BY DEF Sound
<1>2. Sound(mem) /\ Sound(disk) /\ ~refused
  BY DEF IInv, NeverRefused
<1>3. /\ ok => allowed /\ mem' = next /\ disk' = next
      /\ ~ok => mem' = mem
      /\ disk' = disk \/ (allowed /\ disk' = next)
  BY DEF Mutate, store
<1>4. ~refused'
  BY <1>1, <1>2 DEF Mutate, store
<1>5. (mem' = mem \/ (allowed /\ mem' = next)) /\ (disk' = disk \/ (allowed /\ disk' = next))
  BY <1>3
<1>6. Sound(mem') /\ Sound(disk')
  BY <1>2, <1>5
<1> QED BY <1>3, <1>4, <1>6 DEF StoreHolds, NeverRefused

LEMMA SameHolds ==
  ASSUME IInv, UNCHANGED <<mem, disk, refused>>
  PROVE  StoreHolds /\ \A h \in GenID : Kept(h)
<1>1. StoreHolds
  BY DEF IInv, StoreHolds, NeverRefused
<1>2. \A h \in GenID : Kept(h)
  BY SameUndisturbed DEF Kept
<1> QED BY <1>1, <1>2

(* A mutation that disturbs no generation h keeps h in memory and on disk.  *)
LEMMA MutateKept ==
  ASSUME IInv, NEW allowed \in BOOLEAN, NEW next, NEW ok \in BOOLEAN,
         allowed => Sound(next), Mutate(allowed, next, ok),
         NEW h, allowed => Undisturbed(mem, next, h)
  PROVE  Kept(h)
<1>1. mem' = mem \/ (allowed /\ mem' = next)
  BY MutateHolds
<1>2. disk' = disk \/ (allowed /\ disk' = next)
  BY MutateHolds
<1>3. Undisturbed(mem, mem', h)
  BY <1>1, SameUndisturbed
<1>4. Exists(disk', h) => Exists(mem, h) \/ Exists(disk, h)
  BY <1>2 DEF Undisturbed
<1> QED BY <1>3, <1>4 DEF Kept

(* How the parts of the invariant about requests and jobs carry over. *)
Guarded == {"records", "analytics", "checkpoint", "rmsource", "activate"}

LEMMA DrawnKept ==
  ASSUME DrawnIDs, used \subseteq used',
         \A h \in GenID : \/ h \in used'
                          \/ Kept(h) /\ (job'[h] # "idle" => job[h] # "idle")
  PROVE  DrawnIDs'
  BY DEF DrawnIDs, Kept, Undisturbed

LEMMA JobKept ==
  ASSUME NEW h \in GenID, Prepared(mem, h, job[h]), Undisturbed(mem, mem', h),
         job'[h] = job[h] \/ job'[h] \notin Guarded
  PROVE  Prepared(mem', h, job'[h])
<1>1. CASE job'[h] \notin Guarded
  BY <1>1 DEF Prepared, Guarded
<1>2. CASE job'[h] = job[h]
  <2>1. StateOf(mem', h) = "enriching" => IsBuilding(mem', h)
    BY DEF IsBuilding, BuildingStates
  <2>2. IsBuilding(mem', h) =>
          mem'.gens[h].bytes = mem.gens[h].bytes /\ mem'.gens[h].done = mem.gens[h].done
    BY DEF Undisturbed
  <2> QED BY <1>2, <2>1, <2>2 DEF Undisturbed, Prepared
<1> QED BY <1>1, <1>2

LEMMA DeletersKept ==
  ASSUME DeletersHold, UNCHANGED del, used \subseteq used',
         \A h \in used : Undisturbed(mem, mem', h)
  PROVE  DeletersHold'
  BY DEF DeletersHold, Undisturbed

(* A step that leaves jobs and requests alone, or starts or ends a job.     *)
LEMMA FrameHolds ==
  ASSUME IInv, TypeOK', StoreHolds, UNCHANGED <<del, used>>,
         \A h \in GenID : Kept(h),
         \A h \in GenID : job'[h] = job[h] \/ (job'[h] \notin Guarded /\ h \in used),
         PhasesHold'
  PROVE  IInv'
<1>1. DrawnIDs'
  BY DrawnKept DEF IInv
<1>2. DeletersHold'
  <2>1. used \subseteq GenID
    BY DEF IInv, TypeOK
  <2> QED BY <2>1, DeletersKept DEF IInv, Kept
<1>3. JobsHold'
  BY JobKept DEF IInv, JobsHold, Kept
<1> QED BY <1>1, <1>2, <1>3 DEF IInv, StoreHolds

(* A step of the process, while no job and no request runs. *)
LEMMA ProcessHolds ==
  ASSUME IInv, TypeOK', StoreHolds, UNCHANGED used,
         \A h \in GenID : Exists(mem', h) \/ Exists(disk', h) => h \in used,
         \A d \in Deleters : del'[d].pc = "idle",
         \A h \in GenID : job'[h] \notin Guarded /\ (job'[h] # "idle" => h \in used),
         PhasesHold'
  PROVE  IInv'
<1>1. DrawnIDs'
  BY DEF DrawnIDs
<1>2. DeletersHold'
  BY DEF DeletersHold, Committed
<1>3. JobsHold'
  BY DEF JobsHold, Prepared, Guarded
<1> QED BY <1>1, <1>2, <1>3 DEF IInv, StoreHolds

(* A step that brings in a drawn ID. *)
LEMMA FreshHolds ==
  ASSUME IInv, TypeOK', StoreHolds, NEW g \in GenID, g \notin used, used' = used \cup {g},
         UNCHANGED del, \A h \in GenID \ {g} : Kept(h) /\ job'[h] = job[h],
         job'[g] \in {"idle", "begin"}, phase = "open", phase' = "open"
  PROVE  IInv'
<1>1. DrawnIDs'
  BY DrawnKept DEF IInv
<1>2. DeletersHold'
  <2>1. used \subseteq GenID
    BY DEF IInv, TypeOK
  <2>2. \A h \in used : Undisturbed(mem, mem', h)
    BY <2>1 DEF Kept
  <2> QED BY <2>2, DeletersKept DEF IInv
<1>3. JobsHold'
  <2>1. \A h \in GenID \ {g} : Prepared(mem', h, job'[h])
    BY JobKept DEF IInv, JobsHold, Kept
  <2>2. Prepared(mem', g, job'[g])
    BY DEF Prepared
  <2> QED BY <2>1, <2>2 DEF JobsHold
<1>4. PhasesHold'
  BY DEF PhasesHold
<1> QED BY <1>1, <1>2, <1>3, <1>4 DEF IInv, StoreHolds

LEMMA CreateHolds ==
  ASSUME IInv, TypeOK', NEW g \in GenID,
         \/ CreateLocalGeneration(g) \/ CreateTMDBGeneration(g) \/ ValidateSource
         \/ CommitTMDBGeneration(g)
  PROVE  IInv'
<1>0. mem \in RepositoryState /\ TypeOK
  BY DEF IInv, TypeOK
<1>1. CASE CreateLocalGeneration(g)
  <2>1. PICK ok \in BOOLEAN : Mutate(TRUE, Received(mem, g), ok)
    BY <1>1 DEF CreateLocalGeneration
  <2>2. /\ g \notin used /\ used' = used \cup {g} /\ ~mem.deleting /\ mem.building = None
        /\ phase = "open" /\ phase' = "open" /\ UNCHANGED <<del, job>>
    BY <1>1 DEF CreateLocalGeneration, Accepting, requests
  <2>3. ~Exists(mem, g) /\ job[g] = "idle"
    BY <2>2 DEF IInv, DrawnIDs
  <2>4. Sound(Received(mem, g))
    BY <1>0, <2>2, <2>3, ReceivedSound DEF IInv
  <2>5. ASSUME NEW h \in GenID \ {g} PROVE Kept(h)
    <3>1. NewLocal \in Generation
      BY NewTypes
    <3>2. NewLocal.src = None
      BY DEF NewLocal, Absent
    <3>3. Undisturbed(mem, Received(mem, g), h)
      BY <1>0, <3>1, <3>2, CreatedUndisturbed DEF Received
    <3> QED BY <2>1, <2>4, <3>3, MutateKept
  <2>6. StoreHolds
    BY <2>1, <2>4, MutateHolds
  <2> QED BY <2>2, <2>3, <2>5, <2>6, FreshHolds
<1>2. CASE CreateTMDBGeneration(g) \/ ValidateSource
  <2>1. UNCHANGED <<store, used, job, del, phase, up>>
    BY <1>2 DEF CreateTMDBGeneration, ValidateSource, world
  <2>2. StoreHolds /\ \A h \in GenID : Kept(h)
    BY <2>1, SameHolds DEF store
  <2>3. PhasesHold'
    BY <2>1 DEF IInv, PhasesHold, NoJobs, NoUploads
  <2> QED BY <2>1, <2>2, <2>3, FrameHolds
<1>3. CASE CommitTMDBGeneration(g) /\ UNCHANGED <<store, used, job>>
  <2>1. UNCHANGED <<store, used, job, del, phase, up>>
    BY <1>3 DEF CommitTMDBGeneration
  <2>2. StoreHolds /\ \A h \in GenID : Kept(h)
    BY <2>1, SameHolds DEF store
  <2>3. PhasesHold'
    BY <2>1 DEF IInv, PhasesHold, NoJobs, NoUploads
  <2> QED BY <2>1, <2>2, <2>3, FrameHolds
<1>4. CASE CommitTMDBGeneration(g) /\ ~UNCHANGED <<store, used, job>>
  <2> DEFINE source == tmdb.src
  <2>1. PICK ok \in BOOLEAN :
          /\ AcceptsSource(source) /\ g \notin used /\ used' = used \cup {g}
          /\ Mutate(TRUE, Derive(mem, g, source), ok)
          /\ job' = IF ok THEN [job EXCEPT ![g] = "begin"] ELSE job
    BY <1>4 DEF CommitTMDBGeneration
  <2>2. /\ ~mem.deleting /\ mem.building = None /\ mem.active = source
        /\ IsReadyLocal(mem, source) /\ phase = "open"
    BY <2>1 DEF AcceptsSource, Accepting
  <2>3. phase' = "open" /\ UNCHANGED del
    BY <1>4, <2>2 DEF CommitTMDBGeneration
  <2>4. source \in GenID
    BY <1>0, <1>4 DEF CommitTMDBGeneration, NoCreate, CreateRequest, TypeOK
  <2>5. ~Exists(mem, g) /\ job[g] = "idle"
    BY <2>1 DEF IInv, DrawnIDs
  <2>6. Sound(Derive(mem, g, source))
    BY <1>0, <2>2, <2>4, <2>5, DeriveSound DEF IInv
  <2>7. ASSUME NEW h \in GenID \ {g} PROVE Kept(h) /\ job'[h] = job[h]
    <3>1. NewTMDB(source) \in Generation
      BY <2>4, NewTypes
    <3>2. NewTMDB(source).src = source
      BY DEF NewTMDB, Absent
    <3>3. Undisturbed(mem, Derive(mem, g, source), h)
      BY <1>0, <2>2, <3>1, <3>2, CreatedUndisturbed DEF Derive
    <3>4. Kept(h)
      BY <2>1, <2>6, <3>3, MutateKept
    <3>5. job'[h] = job[h]
      BY <1>0, <2>1 DEF TypeOK
    <3> QED BY <3>4, <3>5
  <2>8. job'[g] \in {"idle", "begin"}
    BY <1>0, <2>1, <2>5 DEF TypeOK
  <2>9. StoreHolds
    BY <2>1, <2>6, MutateHolds
  <2> QED BY <2>1, <2>2, <2>3, <2>7, <2>8, <2>9, FreshHolds
<1> QED BY <1>1, <1>2, <1>3, <1>4

LEMMA PhaseKept ==
  ASSUME PhasesHold, UNCHANGED <<phase, del>>, phase \notin {"down", "recover"}
  PROVE  PhasesHold'
  BY DEF PhasesHold

LEMMA FailHolds ==
  ASSUME IInv, NEW g \in GenID, FailRemove(g) \/ FailMark(g)
  PROVE  StoreHolds /\ \A h \in GenID : Kept(h)
<1>0. mem \in RepositoryState
  BY DEF IInv, TypeOK
<1>1. CASE UNCHANGED <<mem, disk, refused>>
  BY <1>1, SameHolds
<1>2. ASSUME NEW ok \in BOOLEAN, Mutate(TRUE, Failed(mem, g), ok)
      PROVE  StoreHolds /\ \A h \in GenID : Kept(h)
  <2>1. Sound(Failed(mem, g))
    BY <1>0, FailedSound DEF IInv
  <2>2. \A h \in GenID : Undisturbed(mem, Failed(mem, g), h)
    BY <1>0, FailedUndisturbed
  <2> QED BY <1>2, <2>1, <2>2, MutateHolds, MutateKept
<1> QED BY <1>1, <1>2 DEF FailRemove, FailMark, store

LEMMA UploadHolds ==
  ASSUME IInv, TypeOK', NEW g \in GenID, UploadStart(g) \/ Upload(g)
  PROVE  IInv'
<1>0. mem \in RepositoryState /\ job \in [GenID -> JobSteps]
  BY DEF IInv, TypeOK
<1>1. UNCHANGED <<del, used, phase>>
  BY DEF UploadStart, Upload, UploadStage, UploadCopy, UploadCommit, UploadFail, UploadFinish,
         UploadFrame, world, requests
<1>2. phase \notin {"down", "recover"}
  <2>1. phase = "open" \/ up[g] # "idle"
    BY DEF UploadStart, Accepting, Upload, UploadStage, UploadCopy, UploadCommit, UploadFail,
           UploadFinish
  <2> QED BY <2>1 DEF IInv, PhasesHold, NoUploads
<1>3. PhasesHold'
  BY <1>1, <1>2, PhaseKept DEF IInv
<1>4. CASE UNCHANGED <<store, job>>
  <2>1. StoreHolds /\ \A h \in GenID : Kept(h)
    BY <1>4, SameHolds DEF store
  <2> QED BY <1>1, <1>3, <1>4, <2>1, FrameHolds
<1>5. CASE UploadFail(g)
  <2>1. FailRemove(g) \/ FailMark(g)
    BY <1>5 DEF UploadFail
  <2>2. UNCHANGED job
    BY <1>5 DEF UploadFail
  <2> QED BY <1>1, <1>3, <2>1, <2>2, FailHolds, FrameHolds
<1>6. ASSUME NEW ok \in BOOLEAN,
             Mutate(mem.building = g /\ StateOf(mem, g) = "receiving", Validated(mem, g), ok),
             job' = IF ok /\ job[g] = "idle" THEN [job EXCEPT ![g] = "begin"] ELSE job
      PROVE  IInv'
  <2> DEFINE allowed == mem.building = g /\ StateOf(mem, g) = "receiving"
  <2>1. allowed => Sound(Validated(mem, g))
    BY <1>0, StepsSound DEF IInv
  <2>2. allowed => \A h \in GenID : Undisturbed(mem, Validated(mem, g), h)
    BY <1>0, ValidatedUndisturbed
  <2>3. allowed \in BOOLEAN
    OBVIOUS
  <2>4. StoreHolds /\ (ok => allowed)
    BY <1>6, <2>1, <2>3, MutateHolds
  <2>5. ASSUME NEW h \in GenID PROVE Kept(h)
    BY <1>6, <2>1, <2>2, <2>3, MutateKept
  <2>6. ok => g \in used
    BY <2>4 DEF IInv, DrawnIDs, Exists
  <2>7. \A h \in GenID : job'[h] = job[h] \/ (job'[h] \notin Guarded /\ h \in used)
    <3> HIDE DEF allowed
    <3> QED BY <1>0, <1>6, <2>6 DEF Guarded
  <2> QED BY <1>1, <1>3, <2>4, <2>5, <2>7, FrameHolds
<1>7. CASE UploadCommit(g)
  BY <1>4, <1>6, <1>7 DEF UploadCommit
<1> QED
  BY <1>4, <1>5, <1>7 DEF UploadStart, Upload, UploadStage, UploadCopy, UploadFinish

(* A step of the job of g. *)
LEMMA OwnStepHolds ==
  ASSUME IInv, TypeOK', NEW g \in GenID, job[g] # "idle", JobFrame, StoreHolds,
         \A h \in GenID \ {g} : Kept(h) /\ job'[h] = job[h],
         Removable(mem, g) => Removable(mem', g),
         Prepared(mem', g, job'[g])
  PROVE  IInv'
<1>1. UNCHANGED <<used, del, phase>>
  BY DEF JobFrame, world, requests
<1>2. g \in used /\ used \subseteq GenID
  BY DEF IInv, DrawnIDs, TypeOK
<1>3. DrawnIDs'
  BY <1>1, <1>2, DrawnKept DEF IInv
<1>4. DeletersHold'
  <2>1. \A h \in used : Removable(mem, h) => Removable(mem', h)
    BY <1>2 DEF Kept, Undisturbed
  <2> QED BY <1>1, <2>1 DEF IInv, DeletersHold
<1>5. JobsHold'
  <2>1. \A h \in GenID \ {g} : Prepared(mem', h, job'[h])
    BY JobKept DEF IInv, JobsHold, Kept
  <2> QED BY <2>1 DEF JobsHold
<1>6. PhasesHold'
  <2>1. phase \notin {"down", "recover"}
    BY DEF IInv, PhasesHold, NoJobs
  <2> QED BY <1>1, <2>1, PhaseKept DEF IInv
<1> QED BY <1>3, <1>4, <1>5, <1>6 DEF IInv, StoreHolds

LEMMA GoOthers ==
  ASSUME IInv, NEW g \in GenID, NEW pc
  PROVE  Go(g, pc) => job'[g] = pc /\ \A h \in GenID \ {g} : job'[h] = job[h]
  BY DEF Go, IInv, TypeOK

(* A step that leaves the repository alone. *)
LEMMA IdleStepHolds ==
  ASSUME IInv, TypeOK', NEW g \in GenID, job[g] # "idle", JobFrame,
         UNCHANGED <<mem, disk, refused>>, NEW pc, Go(g, pc), Prepared(mem, g, pc)
  PROVE  IInv'
<1>1. StoreHolds /\ \A h \in GenID : Kept(h)
  BY SameHolds
<1>2. job'[g] = pc /\ \A h \in GenID \ {g} : job'[h] = job[h]
  BY GoOthers
<1>3. Prepared(mem', g, job'[g])
  BY <1>2
<1>4. Removable(mem, g) => Removable(mem', g)
  OBVIOUS
<1> QED BY <1>1, <1>2, <1>3, <1>4, OwnStepHolds

LEMMA ReadStepHolds ==
  ASSUME IInv, TypeOK', NEW g \in GenID, NEW from, from # "idle", NEW ok \in BOOLEAN, NEW to,
         ReadStep(g, from, ok, to), JobFrame, ok => Prepared(mem, g, to)
  PROVE  IInv'
<1>1. /\ job[g] # "idle" /\ UNCHANGED <<mem, disk, refused>>
      /\ Go(g, IF ok THEN to ELSE "failing")
  BY DEF ReadStep, GoIf, store
<1>2. Prepared(mem, g, IF ok THEN to ELSE "failing")
  BY DEF Prepared
<1> QED BY <1>1, <1>2, IdleStepHolds

LEMMA MutateStepHolds ==
  ASSUME IInv, TypeOK', NEW g \in GenID, NEW from, from # "idle", NEW allowed \in BOOLEAN,
         NEW next, NEW to, MutateStep(g, from, allowed, next, to), JobFrame,
         allowed => /\ IsBuilding(mem, g) /\ Sound(next) /\ Prepared(next, g, to)
                    /\ \A h \in GenID \ {g} : Undisturbed(mem, next, h)
  PROVE  IInv'
<1>1. PICK ok \in BOOLEAN : Mutate(allowed, next, ok) /\ GoIf(ok, g, to)
  BY DEF MutateStep
<1>2. /\ StoreHolds /\ (ok => allowed /\ mem' = next) /\ (~ok => mem' = mem)
  BY <1>1, MutateHolds
<1>3. \A h \in GenID \ {g} : Kept(h)
  BY <1>1, MutateKept
<1>4. /\ job'[g] = IF ok THEN to ELSE "failing"
      /\ \A h \in GenID \ {g} : job'[h] = job[h]
  BY <1>1, GoOthers DEF GoIf
<1>5. Prepared(mem', g, job'[g])
  BY <1>2, <1>4 DEF Prepared
<1>6. Removable(mem, g) => Removable(mem', g)
  BY <1>2 DEF Removable
<1>7. job[g] # "idle"
  BY DEF MutateStep
<1> QED BY <1>2, <1>3, <1>4, <1>5, <1>6, <1>7, OwnStepHolds

LEMMA FileStepHolds ==
  ASSUME IInv, TypeOK', NEW g \in GenID, NEW from, from # "idle", NEW new, NEW to,
         FileStep(g, from, new, to), JobFrame, Prepared(mem, g, to)
  PROVE  IInv'
<1>1. job[g] # "idle" /\ UNCHANGED <<mem, disk, refused>> /\ Go(g, to)
  BY DEF FileStep, store
<1> QED BY <1>1, IdleStepHolds

(* The mutations of a job: what each needs, and what it leaves alone. *)
LEMMA JobMutations ==
  ASSUME IInv, NEW g \in GenID
  PROVE  /\ StateOf(mem, g) \in {"validating", "importing"} =>
              /\ Sound(Imported(mem, g)) /\ Prepared(Imported(mem, g), g, "records")
              /\ \A h \in GenID \ {g} : Undisturbed(mem, Imported(mem, g), h)
         /\ job[g] = "checkpoint" /\ CanFinish(g) /\ mem.gens[g].summary =>
              /\ Sound(Checkpointed(mem, g))
              /\ \A h \in GenID \ {g} : Undisturbed(mem, Checkpointed(mem, g), h)
         /\ job[g] = "activate" /\ CanFinish(g) /\ mem.gens[g].hashes =>
              /\ Sound(Activated(mem, g))
              /\ \A h \in GenID \ {g} : Undisturbed(mem, Activated(mem, g), h)
         /\ \A c \in SUBSET Titles : StateOf(mem, g) = "enriching" /\ mem.gens[g].done \subseteq c =>
              /\ Sound(Progressed(mem, g, c))
              /\ \A h \in GenID \ {g} : Undisturbed(mem, Progressed(mem, g, c), h)
         /\ StateOf(mem, g) = "enriching" =>
              /\ Sound(Cleared(mem, g)) /\ Prepared(Cleared(mem, g), g, "activate")
              /\ \A h \in GenID \ {g} : Undisturbed(mem, Cleared(mem, g), h)
<1> DEFINE r == mem.gens[g]
<1>1. mem \in RepositoryState /\ Sound(mem) /\ r \in Generation /\ Prepared(mem, g, job[g])
  BY GenType DEF IInv, TypeOK, JobsHold
<1>2. StateOf(mem, g) \in {"receiving", "validating", "importing", "enriching"} => IsBuilding(mem, g)
  BY DEF IsBuilding, BuildingStates
<1> HIDE DEF r
<1>3. ASSUME StateOf(mem, g) \in {"validating", "importing"}
      PROVE  /\ Sound(Imported(mem, g)) /\ Prepared(Imported(mem, g), g, "records")
             /\ \A h \in GenID \ {g} : Undisturbed(mem, Imported(mem, g), h)
  <2> DEFINE q == [r EXCEPT !.state = "importing", !.summary = TRUE, !.hashes = FALSE]
  <2>1. q \in Generation /\ q.state = "importing" /\ q.src = r.src
    BY <1>1, FieldTypes DEF Generation
  <2>2. Imported(mem, g) = With(mem, g, q)
    BY DEF Imported, r
  <2> HIDE DEF q
  <2>3. With(mem, g, q).gens[g] = q
    BY <1>1, <2>1, WithFields
  <2>4. StateOf(With(mem, g, q), g) = "importing"
    BY <2>1, <2>3, NoneAssumption DEF StateOf
  <2>5. Prepared(With(mem, g, q), g, "records")
    BY <2>4 DEF Prepared
  <2>6. \A h \in GenID \ {g} : Undisturbed(mem, With(mem, g, q), h)
    BY <1>1, <1>2, <1>3, <2>1, BuildStepUndisturbed DEF r
  <2> QED BY <1>1, <1>3, <2>2, <2>5, <2>6, StepsSound
<1>4. ASSUME job[g] = "checkpoint", CanFinish(g), mem.gens[g].summary
      PROVE  /\ Sound(Checkpointed(mem, g))
             /\ \A h \in GenID \ {g} : Undisturbed(mem, Checkpointed(mem, g), h)
  <2>1. StateOf(mem, g) \in {"importing", "enriching"}
    BY <1>4 DEF CanFinish
  <2>2. StateOf(mem, g) = "enriching" => mem.gens[g].done = Titles
    BY <1>1, <1>4 DEF Prepared
  <2>3. Sound(Checkpointed(mem, g))
    BY <1>1, <1>4, <2>1, <2>2, StepsSound
  <2>4. [r EXCEPT !.hashes = TRUE] \in Generation /\ [r EXCEPT !.hashes = TRUE].src = r.src
    BY <1>1, FieldTypes DEF Generation
  <2>5. \A h \in GenID \ {g} : Undisturbed(mem, Checkpointed(mem, g), h)
    BY <1>1, <1>2, <2>1, <2>4, BuildStepUndisturbed DEF Checkpointed, r
  <2> QED BY <2>3, <2>5
<1>5. ASSUME job[g] = "activate", CanFinish(g), mem.gens[g].hashes
      PROVE  /\ Sound(Activated(mem, g))
             /\ \A h \in GenID \ {g} : Undisturbed(mem, Activated(mem, g), h)
  <2>1. mem.building = g /\ StateOf(mem, g) \in {"importing", "enriching"}
    BY <1>5 DEF CanFinish
  <2>2. ~mem.gens[g].bytes
    BY <1>1, <1>2, <1>5, <2>1 DEF Prepared
  <2> QED BY <1>1, <1>2, <1>5, <2>1, <2>2, ActivatedSound, ActivatedUndisturbed
<1>6. ASSUME NEW c \in SUBSET Titles, StateOf(mem, g) = "enriching", mem.gens[g].done \subseteq c
      PROVE  /\ Sound(Progressed(mem, g, c))
             /\ \A h \in GenID \ {g} : Undisturbed(mem, Progressed(mem, g, c), h)
  <2> DEFINE q == [r EXCEPT !.done = c, !.bytes = (c # {})]
  <2>1. q \in Generation /\ q.src = r.src
    BY <1>1, ProgressType DEF Generation
  <2>2. Progressed(mem, g, c) = With(mem, g, q)
    BY DEF Progressed, r
  <2> HIDE DEF q
  <2>3. \A h \in GenID \ {g} : Undisturbed(mem, With(mem, g, q), h)
    BY <1>1, <1>2, <1>6, <2>1, BuildStepUndisturbed DEF r
  <2> QED BY <1>1, <1>6, <2>2, <2>3, StepsSound
<1>7. ASSUME StateOf(mem, g) = "enriching"
      PROVE  /\ Sound(Cleared(mem, g)) /\ Prepared(Cleared(mem, g), g, "activate")
             /\ \A h \in GenID \ {g} : Undisturbed(mem, Cleared(mem, g), h)
  <2> DEFINE q == [r EXCEPT !.bytes = FALSE]
  <2>1. q \in Generation /\ q.src = r.src /\ ~q.bytes
    BY <1>1, FieldTypes DEF Generation
  <2>2. Cleared(mem, g) = With(mem, g, q)
    BY DEF Cleared, r
  <2> HIDE DEF q
  <2>3. With(mem, g, q).gens[g] = q
    BY <1>1, <2>1, WithFields
  <2>4. Prepared(With(mem, g, q), g, "activate")
    BY <2>1, <2>3 DEF Prepared
  <2>5. \A h \in GenID \ {g} : Undisturbed(mem, With(mem, g, q), h)
    BY <1>1, <1>2, <1>7, <2>1, BuildStepUndisturbed DEF r
  <2> QED BY <1>1, <1>7, <2>2, <2>4, <2>5, StepsSound
<1> QED BY <1>3, <1>4, <1>5, <1>6, <1>7

LEMMA JobHolds ==
  ASSUME IInv, TypeOK', NEW g \in GenID, Job(g)
  PROVE  IInv'
<1>0. /\ mem \in RepositoryState /\ Sound(mem) /\ JobFrame
      /\ files[g].outcomes \in SUBSET Titles /\ Prepared(mem, g, job[g])
  BY DEF IInv, TypeOK, Job, JobsHold, GenFiles
<1>p. \A pc : pc \notin Guarded => Prepared(mem, g, pc)
  BY DEF Guarded, Prepared
<1>g. \A pc \in {"idle", "begin", "revalidate", "parse", "source", "reconcile", "importing",
                "validate", "enrich", "progress", "rmoutcomes", "clear", "failing", "failmark",
                "finish"} : pc \notin Guarded
  BY DEF Guarded
<1>b. StateOf(mem, g) \in {"validating", "importing", "enriching"} => IsBuilding(mem, g)
  BY DEF IsBuilding, BuildingStates
<1>1. CASE JobBegin(g)
  <2>1. IsCurrent(g) \in BOOLEAN
    BY DEF IsCurrent, IsBuilding
  <2> QED BY <1>0, <1>1, <1>p, <1>g, <2>1, ReadStepHolds DEF JobBegin
<1>2. CASE Revalidate(g)
  <2>1. CASE mem.gens[g].level = "local"
    <3>1. Prepared(mem, g, "rmsource") /\ Prepared(mem, g, "parse")
      BY <1>p, <1>g, <2>1 DEF Prepared
    <3>2. ReadStep(g, "revalidate", Intact(g) \/ Staged(g),
                   IF Intact(g) THEN "rmsource" ELSE "parse")
      BY <1>2, <2>1 DEF Revalidate
    <3>3. (Intact(g) \/ Staged(g)) \in BOOLEAN
      OBVIOUS
    <3>4. Prepared(mem, g, IF Intact(g) THEN "rmsource" ELSE "parse")
      BY <3>1
    <3> QED BY <1>0, <3>2, <3>3, <3>4, ReadStepHolds
  <2>2. CASE mem.gens[g].level # "local"
    <3>1. ReadStep(g, "revalidate", Intact(g), "rmoutcomes")
      BY <1>2, <2>2 DEF Revalidate
    <3>2. Intact(g) \in BOOLEAN
      BY DEF Intact, IInv, TypeOK, GenFiles
    <3> QED BY <1>0, <1>p, <1>g, <3>1, <3>2, ReadStepHolds
  <2> QED BY <2>1, <2>2
<1>3. CASE JobFails(g)
  <2>1. /\ job[g] # "idle" /\ UNCHANGED <<mem, disk, refused>> /\ Go(g, "failing")
    BY <1>3 DEF JobFails, store
  <2> QED BY <1>0, <1>p, <1>g, <2>1, IdleStepHolds
<1>4. CASE ParseViewingActivity(g)
  <2>1. (files[g].source = "good") \in BOOLEAN
    OBVIOUS
  <2> QED BY <1>0, <1>4, <1>p, <1>g, <2>1, ReadStepHolds DEF ParseViewingActivity
<1>5. CASE RecordImporting(g)
  <2> DEFINE allowed == mem.building = g /\ StateOf(mem, g) \in {"validating", "importing"}
  <2>1. allowed \in BOOLEAN
    OBVIOUS
  <2>2. MutateStep(g, "importing", allowed, Imported(mem, g), "records")
    BY <1>5 DEF RecordImporting
  <2>3. allowed => /\ IsBuilding(mem, g) /\ Sound(Imported(mem, g))
                   /\ Prepared(Imported(mem, g), g, "records")
                   /\ \A h \in GenID \ {g} : Undisturbed(mem, Imported(mem, g), h)
    BY <1>b, JobMutations
  <2> HIDE DEF allowed
  <2> QED BY <1>0, <2>1, <2>2, <2>3, MutateStepHolds
<1>6. CASE RemoveStagedSource(g)
  <2>1. job[g] = "rmsource"
    BY <1>6 DEF RemoveStagedSource, FileStep
  <2>2. IsBuilding(mem, g) => mem.gens[g].level = "local" /\ ValidGeneration(mem.gens[g])
    BY <1>0, <2>1, NoneAssumption
    DEF Prepared, Sound, Consistent, Exists, IsBuilding, BuildingStates, StateOf
  <2>3. Prepared(mem, g, "activate")
    BY <2>2 DEF Prepared, ValidGeneration, ValidEnrichment
  <2> QED BY <1>0, <1>6, <2>3, FileStepHolds DEF RemoveStagedSource
<1>7. CASE EnrichmentSource(g)
  <2> DEFINE source == mem.gens[g].src
             ok == /\ IsReadyLocal(mem, source) /\ mem.active = source
                   /\ Intact(source)
  <2>1. ReadStep(g, "source", ok, "reconcile") /\ ok \in BOOLEAN
    BY <1>7 DEF EnrichmentSource
  <2> HIDE DEF ok
  <2> QED BY <1>0, <1>p, <1>g, <2>1, ReadStepHolds
<1>8. CASE ReconcileEnrichmentProgress(g)
  <2> DEFINE found == files[g].outcomes
             r == mem.gens[g]
             ahead == ~(r.done \subseteq found) \/ (r.bytes /\ found = {})
             allowed == IsEnriching(g) /\ ~ahead
  <2>1. \/ ReadStep(g, "reconcile", TRUE, "enrich")
        \/ MutateStep(g, "reconcile", allowed, Progressed(mem, g, found), "enrich")
    BY <1>8, Zenon DEF ReconcileEnrichmentProgress
  <2>2. allowed => StateOf(mem, g) = "enriching" /\ mem.gens[g].done \subseteq found
    BY DEF IsEnriching
  <2>3. allowed => /\ IsBuilding(mem, g) /\ Sound(Progressed(mem, g, found))
                   /\ \A h \in GenID \ {g} : Undisturbed(mem, Progressed(mem, g, found), h)
    BY <1>0, <1>b, <2>2, JobMutations
  <2>4. Prepared(Progressed(mem, g, found), g, "enrich")
    BY DEF Prepared
  <2>5. allowed \in BOOLEAN
    OBVIOUS
  <2> HIDE DEF allowed, found
  <2> QED BY <1>0, <1>p, <1>g, <2>1, <2>3, <2>4, <2>5, ReadStepHolds, MutateStepHolds
<1>9. CASE WriteOutcome(g)
  <2>1. job[g] # "idle" /\ UNCHANGED <<mem, disk, refused>> /\ Go(g, "progress")
    BY <1>9 DEF WriteOutcome, store
  <2> QED BY <1>0, <1>p, <1>g, <2>1, IdleStepHolds
<1>10. CASE FinishEnrichment(g)
  <2> DEFINE ok == files[g].outcomes = Titles /\ IsCurrent(g) /\ mem.gens[g].done = Titles
  <2>1. ReadStep(g, "enrich", ok, "records") /\ ok \in BOOLEAN
    BY <1>10 DEF FinishEnrichment
  <2>2. ok => Prepared(mem, g, "records")
    BY DEF Prepared
  <2> HIDE DEF ok
  <2> QED BY <1>0, <2>1, <2>2, ReadStepHolds
<1>11. CASE RecordEnrichmentProgress(g)
  <2> DEFINE found == files[g].outcomes
             allowed == IsEnriching(g) /\ mem.gens[g].done \subseteq found
  <2>1. MutateStep(g, "progress", allowed, Progressed(mem, g, found), "enrich")
    BY <1>11 DEF RecordEnrichmentProgress
  <2>2. allowed => StateOf(mem, g) = "enriching" /\ mem.gens[g].done \subseteq found
    BY DEF IsEnriching
  <2>3. allowed => /\ IsBuilding(mem, g) /\ Sound(Progressed(mem, g, found))
                   /\ \A h \in GenID \ {g} : Undisturbed(mem, Progressed(mem, g, found), h)
    BY <1>0, <1>b, <2>2, JobMutations
  <2>4. Prepared(Progressed(mem, g, found), g, "enrich")
    BY DEF Prepared
  <2>5. allowed \in BOOLEAN
    OBVIOUS
  <2> HIDE DEF allowed, found
  <2> QED BY <1>0, <2>1, <2>3, <2>4, <2>5, MutateStepHolds
<1>12. CASE RemoveOutcomes(g)
  BY <1>0, <1>12, <1>p, <1>g, FileStepHolds DEF RemoveOutcomes
<1>13. CASE ClearCheckpointBytes(g)
  <2> DEFINE allowed == IsEnriching(g) /\ mem.gens[g].hashes
  <2>1. MutateStep(g, "clear", allowed, Cleared(mem, g), "activate") /\ allowed \in BOOLEAN
    BY <1>0, <1>13, GenType DEF ClearCheckpointBytes, IsEnriching, Generation
  <2>2. allowed => StateOf(mem, g) = "enriching"
    BY DEF IsEnriching
  <2>3. allowed => /\ IsBuilding(mem, g) /\ Sound(Cleared(mem, g))
                   /\ Prepared(Cleared(mem, g), g, "activate")
                   /\ \A h \in GenID \ {g} : Undisturbed(mem, Cleared(mem, g), h)
    BY <1>b, <2>2, JobMutations
  <2> HIDE DEF allowed
  <2> QED BY <1>0, <2>1, <2>3, MutateStepHolds
<1>14. CASE WriteRecords(g)
  <2>1. Prepared(mem, g, "analytics")
    BY <1>0, <1>14 DEF WriteRecords, FileStep, Prepared
  <2> QED BY <1>0, <1>14, <2>1, FileStepHolds DEF WriteRecords
<1>15. CASE WriteAnalytics(g)
  <2>1. Prepared(mem, g, "checkpoint")
    BY <1>0, <1>15 DEF WriteAnalytics, FileStep, Prepared
  <2> QED BY <1>0, <1>15, <2>1, FileStepHolds DEF WriteAnalytics
<1>16. CASE RecordCheckpoint(g)
  <2> DEFINE allowed == CanFinish(g) /\ mem.gens[g].summary
  <2>1. /\ MutateStep(g, "checkpoint", allowed, Checkpointed(mem, g), "validate")
        /\ allowed \in BOOLEAN
    BY <1>0, <1>16, GenType DEF RecordCheckpoint, CanFinish, Generation
  <2>2. job[g] = "checkpoint"
    BY <1>16 DEF RecordCheckpoint, MutateStep
  <2>3. allowed => /\ IsBuilding(mem, g) /\ Sound(Checkpointed(mem, g))
                   /\ \A h \in GenID \ {g} : Undisturbed(mem, Checkpointed(mem, g), h)
    BY <1>b, <2>2, JobMutations DEF CanFinish
  <2>4. Prepared(Checkpointed(mem, g), g, "validate")
    BY DEF Prepared
  <2> HIDE DEF allowed
  <2> QED BY <1>0, <2>1, <2>3, <2>4, MutateStepHolds
<1>17. CASE ValidateArtifacts(g)
  <2> DEFINE to == IF mem.gens[g].level = "local" THEN "rmsource" ELSE "rmoutcomes"
  <2>1. ReadStep(g, "validate", IsCurrent(g) /\ Intact(g), to)
    BY <1>17 DEF ValidateArtifacts
  <2>2. Prepared(mem, g, to)
    BY <1>p, <1>g DEF Prepared
  <2>3. (IsCurrent(g) /\ Intact(g)) \in BOOLEAN
    OBVIOUS
  <2> QED BY <1>0, <2>1, <2>2, <2>3, ReadStepHolds
<1>18. CASE ActivateGeneration(g)
  <2> DEFINE allowed == CanFinish(g) /\ mem.gens[g].hashes
  <2>1. /\ MutateStep(g, "activate", allowed, Activated(mem, g), "finish")
        /\ allowed \in BOOLEAN
    BY <1>0, <1>18, GenType DEF ActivateGeneration, CanFinish, Generation
  <2>2. job[g] = "activate"
    BY <1>18 DEF ActivateGeneration, MutateStep
  <2>3. allowed => /\ IsBuilding(mem, g) /\ Sound(Activated(mem, g))
                   /\ \A h \in GenID \ {g} : Undisturbed(mem, Activated(mem, g), h)
    BY <1>b, <2>2, JobMutations DEF CanFinish
  <2>4. Prepared(Activated(mem, g), g, "finish")
    BY DEF Prepared
  <2> HIDE DEF allowed
  <2> QED BY <1>0, <2>1, <2>3, <2>4, MutateStepHolds
<1>19. CASE JobFail(g)
  <2>1. CASE job[g] = "failing"
    <3>1. UNCHANGED <<mem, disk, refused>> /\ (Go(g, "finish") \/ Go(g, "failmark"))
      BY <1>19, <2>1 DEF JobFail, FailRemove, store
    <3> QED BY <1>0, <1>p, <1>g, <2>1, <3>1, IdleStepHolds
  <2>2. CASE job[g] = "failmark" /\ FailMark(g) /\ Go(g, "finish")
    <3>1. StoreHolds /\ \A h \in GenID : Kept(h)
      BY <2>2, FailHolds
    <3>2. job'[g] = "finish" /\ \A h \in GenID \ {g} : job'[h] = job[h]
      BY <2>2, GoOthers
    <3>3. Prepared(mem', g, job'[g])
      BY <3>2 DEF Prepared
    <3>4. Removable(mem, g) => Removable(mem', g)
      BY <3>1 DEF Kept, Undisturbed
    <3> QED BY <1>0, <2>2, <3>1, <3>2, <3>3, <3>4, OwnStepHolds
  <2> QED BY <1>19, <2>1, <2>2 DEF JobFail
<1>20. CASE JobFinish(g)
  BY <1>0, <1>20, <1>p, <1>g, ReadStepHolds DEF JobFinish
<1> QED
  BY <1>1, <1>2, <1>3, <1>4, <1>5, <1>6, <1>7, <1>8, <1>9, <1>10, <1>11, <1>12, <1>13, <1>14,
     <1>15, <1>16, <1>17, <1>18, <1>19, <1>20 DEF Job, LocalJob, TMDBJob

(* A step of the DELETE request d. *)
LEMMA DeleteStepHolds ==
  ASSUME IInv, TypeOK', NEW d \in Deleters, DeleteFrame, phase = "open", StoreHolds,
         \A h \in GenID : Kept(h),
         \A e \in Deleters \ {d} : del'[e] = del[e],
         Committed(del'[d]) => del'[d].gen \in used /\ Removable(mem', del'[d].gen)
  PROVE  IInv'
<1>1. UNCHANGED <<used, job, phase, up>>
  BY DEF DeleteFrame, world
<1>2. DrawnIDs'
  BY <1>1, DrawnKept DEF IInv
<1>3. DeletersHold'
  <2>1. used \subseteq GenID
    BY DEF IInv, TypeOK
  <2>2. \A h \in used : Removable(mem, h) => Removable(mem', h)
    BY <2>1 DEF Kept, Undisturbed
  <2> QED BY <1>1, <2>2 DEF IInv, DeletersHold
<1>4. JobsHold'
  BY <1>1, JobKept DEF IInv, JobsHold, Kept
<1>5. PhasesHold'
  BY <1>1 DEF PhasesHold
<1> QED BY <1>2, <1>3, <1>4, <1>5 DEF IInv, StoreHolds

LEMMA DeleteGoSteps ==
  ASSUME IInv, NEW d \in Deleters, NEW pc
  PROVE  /\ DeleteGo(d, pc) =>
              /\ del'[d].pc = pc /\ del'[d].gen = del[d].gen
              /\ \A e \in Deleters \ {d} : del'[e] = del[e]
         /\ DeleteEnd(d) =>
              ~Committed(del'[d]) /\ \A e \in Deleters \ {d} : del'[e] = del[e]
<1>1. del \in [Deleters -> DeleteRequest \cup {NoDelete}]
  BY DEF IInv, TypeOK
<1>2. del[d] \in [pc : DeleteSteps \cup {"idle"}, gen : GenID \cup {None}, building : BOOLEAN]
  <2>1. NoDelete \in [pc : DeleteSteps \cup {"idle"}, gen : GenID \cup {None}, building : BOOLEAN]
    BY DEF NoDelete
  <2>2. CASE del[d] \in DeleteRequest
    BY <2>2 DEF DeleteRequest
  <2> QED BY <1>1, <2>1, <2>2
<1>3. ASSUME DeleteGo(d, pc)
      PROVE  /\ del'[d].pc = pc /\ del'[d].gen = del[d].gen
             /\ \A e \in Deleters \ {d} : del'[e] = del[e]
  <2>1. del' = [del EXCEPT ![d] = [del[d] EXCEPT !.pc = pc]]
    BY <1>3 DEF DeleteGo
  <2> QED BY <1>1, <1>2, <2>1
<1>4. ASSUME DeleteEnd(d)
      PROVE  ~Committed(del'[d]) /\ \A e \in Deleters \ {d} : del'[e] = del[e]
  BY <1>1, <1>4 DEF DeleteEnd, Committed, NoDelete
<1> QED BY <1>3, <1>4

LEMMA DeleteHolds ==
  ASSUME IInv, TypeOK', NEW d \in Deleters, Delete(d)
  PROVE  IInv'
<1> DEFINE g == del[d].gen
<1>0. del[d].pc # "idle" /\ DeleteFrame
  BY DEF Delete, DeleteWait, DeleteCheck, DeleteFail, DeleteMark, DeleteDirectory, DeleteUnmark
<1>1. /\ mem \in RepositoryState /\ Sound(mem) /\ g \in GenID
      /\ Committed(del[d]) => g \in used /\ Removable(mem, g)
  BY <1>0 DEF IInv, TypeOK, NoDelete, DeleteRequest, DeletersHold
<1>2. phase = "open"
  BY <1>0 DEF IInv, PhasesHold
<1>3. CASE DeleteWait(d)
  <2>1. StoreHolds /\ \A h \in GenID : Kept(h)
    BY <1>3, SameHolds DEF DeleteWait, store
  <2>2. CASE DeleteGo(d, "mark") /\ del[d].pc = "wait" /\ ~del[d].building
    <3>1. Committed(del[d])
      BY <2>2 DEF Committed
    <3>2. Removable(mem', g)
      BY <1>1, <2>1, <3>1 DEF Kept, Undisturbed
    <3> QED BY <1>0, <1>1, <1>2, <2>1, <2>2, <3>1, <3>2, DeleteGoSteps, DeleteStepHolds
  <2>3. CASE DeleteGo(d, "check")
    <3>1. ~Committed(del'[d])
      BY <2>3, DeleteGoSteps DEF Committed
    <3> QED BY <1>0, <1>2, <2>1, <2>3, <3>1, DeleteGoSteps, DeleteStepHolds
  <2>4. CASE DeleteEnd(d)
    BY <1>0, <1>2, <2>1, <2>4, DeleteGoSteps, DeleteStepHolds
  <2> QED BY <1>3, <2>2, <2>3, <2>4 DEF DeleteWait, AfterWait
<1>4. CASE DeleteCheck(d)
  <2>1. StoreHolds /\ \A h \in GenID : Kept(h)
    BY <1>4, SameHolds DEF DeleteCheck, store
  <2>2. ~Committed(del'[d]) /\ \A e \in Deleters \ {d} : del'[e] = del[e]
    BY <1>4, DeleteGoSteps DEF DeleteCheck, Committed
  <2> QED BY <1>0, <1>2, <2>1, <2>2, DeleteStepHolds
<1>5. CASE DeleteFail(d)
  <2>1. FailRemove(g) \/ FailMark(g)
    BY <1>5 DEF DeleteFail
  <2>2. StoreHolds /\ \A h \in GenID : Kept(h)
    BY <1>1, <2>1, FailHolds
  <2>3. ~Committed(del'[d]) /\ \A e \in Deleters \ {d} : del'[e] = del[e]
    BY <1>5, DeleteGoSteps DEF DeleteFail, Committed
  <2> QED BY <1>0, <1>2, <2>2, <2>3, DeleteStepHolds
<1>6. CASE DeleteMark(d)
  <2> DEFINE allowed == mem.active # g /\ Exists(mem, g)
  <2>1. PICK ok \in BOOLEAN :
          /\ Mutate(allowed, MarkedPending(mem, g), ok)
          /\ IF ok THEN DeleteGo(d, "rmdir") ELSE DeleteEnd(d)
    BY <1>6 DEF DeleteMark
  <2>2. Committed(del[d])
    BY <1>6 DEF DeleteMark, Committed
  <2>3. allowed => Sound(MarkedPending(mem, g))
    BY <1>1, <2>2, MarkedPendingSound DEF Removable
  <2>4. allowed \in BOOLEAN
    OBVIOUS
  <2> HIDE DEF allowed
  <2>5. StoreHolds
    BY <2>1, <2>3, <2>4, MutateHolds
  <2>6. \A h \in GenID : Kept(h)
    BY <1>1, <2>1, <2>3, <2>4, MarkedUndisturbed, MutateKept
  <2>7. Removable(mem', g)
    BY <1>1, <2>2, <2>6 DEF Kept, Undisturbed
  <2>8. /\ Committed(del'[d]) => del'[d].gen = g
        /\ \A e \in Deleters \ {d} : del'[e] = del[e]
    BY <2>1, DeleteGoSteps
  <2> QED BY <1>0, <1>1, <1>2, <2>2, <2>5, <2>6, <2>7, <2>8, DeleteStepHolds
<1>7. CASE DeleteDirectory(d)
  <2>1. StoreHolds /\ \A h \in GenID : Kept(h)
    BY <1>7, SameHolds DEF DeleteDirectory
  <2>2. Committed(del[d])
    BY <1>7 DEF DeleteDirectory, Committed
  <2>3. Removable(mem', g)
    BY <1>1, <2>1, <2>2 DEF Kept, Undisturbed
  <2>4. /\ Committed(del'[d]) => del'[d].gen = g
        /\ \A e \in Deleters \ {d} : del'[e] = del[e]
    BY <1>7, DeleteGoSteps DEF DeleteDirectory
  <2> QED BY <1>0, <1>1, <1>2, <2>1, <2>2, <2>3, <2>4, DeleteStepHolds
<1>8. CASE DeleteUnmark(d)
  <2>1. PICK ok \in BOOLEAN : Mutate(TRUE, Removed(mem, g), ok)
    BY <1>8 DEF DeleteUnmark
  <2>2. Committed(del[d])
    BY <1>8 DEF DeleteUnmark, Committed
  <2>3. Sound(Removed(mem, g))
    BY <1>1, <2>2, RemovedSound DEF Removable
  <2>4. StoreHolds
    BY <2>1, <2>3, MutateHolds
  <2>5. \A h \in GenID : Kept(h)
    BY <1>1, <2>1, <2>3, RemovedUndisturbed, MutateKept
  <2>6. ~Committed(del'[d]) /\ \A e \in Deleters \ {d} : del'[e] = del[e]
    BY <1>8, DeleteGoSteps DEF DeleteUnmark
  <2> QED BY <1>0, <1>2, <2>4, <2>5, <2>6, DeleteStepHolds
<1> QED BY <1>3, <1>4, <1>5, <1>6, <1>7, <1>8 DEF Delete

LEMMA DeleteGenerationHolds ==
  ASSUME IInv, TypeOK', NEW d \in Deleters, NEW g \in GenID, DeleteGeneration(d, g)
  PROVE  IInv'
<1>1. /\ phase = "open" /\ mem.active # g /\ Derived(mem, g) = {} /\ Exists(mem, g)
      /\ DeleteFrame /\ UNCHANGED <<mem, disk, refused>>
  BY DEF DeleteGeneration, Accepting, store
<1>2. StoreHolds /\ \A h \in GenID : Kept(h)
  BY <1>1, SameHolds
<1>3. g \in used
  BY <1>1 DEF IInv, DrawnIDs
<1>4. /\ del'[d].gen = g /\ (Committed(del'[d]) => ~IsBuilding(mem, g))
      /\ \A e \in Deleters \ {d} : del'[e] = del[e]
  <2>1. del \in [Deleters -> DeleteRequest \cup {NoDelete}]
    BY DEF IInv, TypeOK
  <2>2. del'[d] = [gen |-> g, building |-> IsBuilding(mem, g),
                   pc |-> IF job[g] # "idle" THEN "wait" ELSE AfterWait(IsBuilding(mem, g))]
    BY <2>1 DEF DeleteGeneration
  <2>3. \A e \in Deleters \ {d} : del'[e] = del[e]
    BY <2>1 DEF DeleteGeneration
  <2>4. Committed(del'[d]) => ~IsBuilding(mem, g)
    BY <2>2 DEF Committed, AfterWait
  <2> QED BY <2>2, <2>3, <2>4
<1>5. Committed(del'[d]) => Removable(mem', g)
  BY <1>1, <1>4 DEF Removable
<1> QED BY <1>1, <1>2, <1>3, <1>4, <1>5, DeleteStepHolds

LEMMA EverythingHolds ==
  ASSUME IInv, TypeOK', DeleteProvider \/ Provider
  PROVE  IInv'
<1>0. mem \in RepositoryState /\ Sound(mem)
  BY DEF IInv, TypeOK
<1>1. UNCHANGED <<used, job, del, phase, up>>
  BY DEF DeleteProvider, Provider, ProviderWait, ProviderRemove, ProviderReset, ProviderFrame,
         world
<1>2. PhasesHold'
  BY <1>1 DEF IInv, PhasesHold, NoJobs, NoUploads
<1>3. CASE UNCHANGED <<mem, disk, refused>>
  BY <1>1, <1>2, <1>3, SameHolds, FrameHolds
<1>4. ASSUME NEW ok \in BOOLEAN, Mutate(TRUE, MarkedDeleting(mem), ok) PROVE IInv'
  <2>1. Sound(MarkedDeleting(mem))
    BY <1>0, MarkedDeletingSound
  <2>2. StoreHolds
    BY <1>4, <2>1, MutateHolds
  <2>3. ASSUME NEW h \in GenID PROVE Kept(h)
    <3>1. Undisturbed(mem, MarkedDeleting(mem), h)
      BY <1>0, MarkedUndisturbed
    <3> QED BY <1>4, <2>1, <3>1, MutateKept
  <2> QED BY <1>1, <1>2, <2>2, <2>3, FrameHolds
<1>5. ASSUME NEW ok \in BOOLEAN, Mutate(TRUE, EmptyState, ok) PROVE IInv'
  <2>1. StoreHolds
    BY <1>5, EmptySound, MutateHolds
  <2>2. \A h \in GenID : Kept(h)
    BY <1>5, EmptySound, EmptyUndisturbed, MutateKept
  <2> QED BY <1>1, <1>2, <2>1, <2>2, FrameHolds
<1> QED
  BY <1>3, <1>4, <1>5
  DEF DeleteProvider, Provider, ProviderWait, ProviderRemove, ProviderReset, store

(* Opening, recovery and the end of a process. *)
LEMMA RecoverHolds ==
  ASSUME IInv, TypeOK', Recover
  PROVE  IInv'
<1>0. /\ mem \in RepositoryState /\ Sound(mem) /\ phase = "recover" /\ NoJobs /\ NoUploads
      /\ \A d \in Deleters : del[d].pc = "idle"
      /\ job \in [GenID -> JobSteps]
  BY DEF IInv, TypeOK, PhasesHold, Recover, RecoverProvider, RecoverPending, RecoverBuilding
<1>1. UNCHANGED <<used, up, del>>
  BY DEF Recover, RecoverProvider, RecoverPending, RecoverBuilding, OpenFrame, requests
<1>2. \A h \in GenID : Exists(mem, h) \/ Exists(disk, h) => h \in used
  BY DEF IInv, DrawnIDs
<1>n. PhasesHold' <=> (phase' \in {"down", "recover"} => NoJobs')
  BY <1>0, <1>1 DEF PhasesHold, NoUploads
<1>k. ASSUME StoreHolds, \A h \in GenID : Kept(h), UNCHANGED job PROVE IInv'
  BY <1>k, <1>0, <1>1, <1>n, FrameHolds DEF NoJobs
<1>d. ASSUME Down, UNCHANGED job PROVE IInv'
  <2>1. StoreHolds
    BY <1>d DEF Down, StoreHolds, IInv, NeverRefused
  <2>2. \A h \in GenID : Exists(mem', h) \/ Exists(disk', h) => h \in used
    BY <1>2, <1>d DEF Down
  <2>3. \A h \in GenID : job'[h] = "idle"
    BY <1>0, <1>d DEF NoJobs
  <2>4. PhasesHold'
    BY <1>n, <2>3 DEF NoJobs
  <2> QED BY <1>0, <1>1, <2>1, <2>2, <2>3, <2>4, ProcessHolds DEF Guarded
<1>3. CASE RecoverProvider
  <2>1. UNCHANGED job
    BY <1>3 DEF RecoverProvider
  <2>2. CASE UNCHANGED <<mem, disk, refused, phase>>
    BY <1>k, <2>1, <2>2, SameHolds
  <2>3. ASSUME NEW ok \in BOOLEAN, Mutate(TRUE, EmptyState, ok) PROVE IInv'
    BY <1>k, <2>1, <2>3, EmptySound, EmptyUndisturbed, MutateHolds, MutateKept
  <2> QED BY <1>3, <1>d, <2>1, <2>2, <2>3 DEF RecoverProvider
<1>4. ASSUME NEW g \in GenID, RecoverPending(g) PROVE IInv'
  <2>1. UNCHANGED job
    BY <1>4 DEF RecoverPending
  <2>2. CASE UNCHANGED <<mem, disk, refused, phase>>
    BY <1>k, <2>1, <2>2, SameHolds
  <2>3. ASSUME NEW ok \in BOOLEAN, Mutate(TRUE, Removed(mem, g), ok) PROVE IInv'
    <3>1. Sound(Removed(mem, g))
      BY <1>0, <1>4, RemovedSound DEF RecoverPending, Sound
    <3>2. \A h \in GenID : Undisturbed(mem, Removed(mem, g), h)
      BY <1>0, RemovedUndisturbed
    <3> QED BY <1>k, <2>1, <2>3, <3>1, <3>2, MutateHolds, MutateKept
  <2> QED BY <1>4, <1>d, <2>1, <2>2, <2>3 DEF RecoverPending
<1>5. CASE RecoverBuilding
  <2> DEFINE g == mem.building
             receiving == StateOf(mem, g) = "receiving"
  <2>1. g # None => g \in GenID /\ Exists(mem, g)
    BY <1>0 DEF RepositoryState, Sound, Consistent, ValidPointers, IsBuilding, BuildingStates, Exists
  <2>2. receiving => g # None
    BY DEF StateOf
  <2>3. g # None => g \in used
    BY <1>2, <2>1
  <2>4. \/ \E ok \in BOOLEAN :
             /\ receiving
             /\ Mutate(TRUE, Validated(mem, g), ok)
             /\ phase' = IF ok THEN "open" ELSE "down"
             /\ job' = IF ok THEN [job EXCEPT ![g] = "begin"] ELSE job
        \/ /\ phase' = "open" /\ UNCHANGED store
           /\ job' = job \/ (g # None /\ job' = [job EXCEPT ![g] = "begin"])
    BY <1>5 DEF RecoverBuilding, DeletionsRecovered
  <2> HIDE DEF g
  <2>5. ASSUME phase' = "open", UNCHANGED store,
               job' = job \/ (g # None /\ job' = [job EXCEPT ![g] = "begin"])
        PROVE  IInv'
    <3>1. StoreHolds /\ \A h \in GenID : Kept(h)
      BY <2>5, SameHolds DEF store
    <3>2. \A h \in GenID : job'[h] = job[h] \/ (job'[h] \notin Guarded /\ h \in used)
      BY <1>0, <2>3, <2>5 DEF Guarded
    <3>3. PhasesHold'
      BY <1>n, <2>5
    <3> QED BY <1>1, <3>1, <3>2, <3>3, FrameHolds
  <2>6. ASSUME receiving, NEW ok \in BOOLEAN, Mutate(TRUE, Validated(mem, g), ok),
               phase' = IF ok THEN "open" ELSE "down",
               job' = IF ok THEN [job EXCEPT ![g] = "begin"] ELSE job
        PROVE  IInv'
    <3>1. g \in GenID /\ g \in used
      BY <2>1, <2>2, <2>3, <2>6
    <3>2. Sound(Validated(mem, g))
      BY <1>0, <2>6, <3>1, StepsSound
    <3>3. \A h \in GenID : Undisturbed(mem, Validated(mem, g), h)
      BY <1>0, <2>6, <3>1, ValidatedUndisturbed
    <3>4. StoreHolds /\ \A h \in GenID : Kept(h)
      BY <2>6, <3>2, <3>3, MutateHolds, MutateKept
    <3>5. \A h \in GenID : job'[h] = job[h] \/ (job'[h] \notin Guarded /\ h \in used)
      BY <1>0, <2>6, <3>1 DEF Guarded
    <3>6. PhasesHold'
      BY <1>0, <1>n, <2>6 DEF NoJobs
    <3> QED BY <1>1, <3>4, <3>5, <3>6, FrameHolds
  <2> QED BY <2>4, <2>5, <2>6
<1> QED BY <1>3, <1>4, <1>5 DEF Recover

LEMMA DownHolds ==
  ASSUME IInv, TypeOK', Closed \/ Crash
  PROVE  IInv'
<1>1. mem' = disk /\ disk' = disk /\ refused' = refused /\ phase' = "down" /\ used' = used
  BY DEF Closed, Crash, Down
<1>2. StoreHolds
  BY <1>1 DEF IInv, StoreHolds, NeverRefused
<1>3. \A h \in GenID : Exists(mem', h) \/ Exists(disk', h) => h \in used
  BY <1>1 DEF IInv, DrawnIDs
<1>4. \A h \in GenID : job'[h] = "idle" /\ up'[h] = "idle"
  BY DEF Closed, Crash, NoJobs, NoUploads
<1>5. \A d \in Deleters : del'[d].pc = "idle"
  BY DEF Closed, Crash, requests, NoDelete, IInv, PhasesHold
<1>6. PhasesHold'
  BY <1>4, <1>5 DEF PhasesHold, NoJobs, NoUploads
<1> QED BY <1>1, <1>2, <1>3, <1>4, <1>5, <1>6, ProcessHolds DEF Guarded

(***************************************************************************)
(* The invariant is inductive: the state in memory and the state file are  *)
(* sound, and every request, job and recovery only ever hands mutate a     *)
(* state that is sound again.                                              *)
(***************************************************************************)
THEOREM Inductive == Spec => []IInv
<1>1. Init => IInv
  <2> SUFFICES ASSUME Init PROVE IInv
    OBVIOUS
  <2>1. Sound(mem) /\ Sound(disk) /\ NeverRefused
    BY EmptySound DEF Init, NeverRefused
  <2>2. \A h \in GenID : ~Exists(mem, h) /\ ~Exists(disk, h) /\ job[h] = "idle" /\ up[h] = "idle"
    BY NoneAssumption DEF Init, EmptyState, Exists, StateOf, Absent
  <2>3. \A d \in Deleters : del[d].pc = "idle"
    BY DEF Init, NoDelete
  <2>4. DrawnIDs /\ DeletersHold /\ JobsHold /\ PhasesHold
    BY <2>2, <2>3
    DEF DrawnIDs, DeletersHold, Committed, JobsHold, Prepared, PhasesHold, NoJobs, NoUploads
  <2>5. TypeOK
    BY TypeInit
  <2> QED BY <2>1, <2>4, <2>5 DEF IInv
<1>2. IInv /\ [Next]_vars => IInv'
  <2> SUFFICES ASSUME IInv, [Next]_vars PROVE IInv'
    OBVIOUS
  <2>0. TypeOK'
    BY TypeStep DEF IInv
  <2>1. CASE Request
    <3>1. CASE \E g \in GenID : SetProfileLabel(g)
      <4>1. UNCHANGED <<mem, disk, refused, used, job, del, phase, up>>
        BY <3>1 DEF SetProfileLabel, store, world, requests
      <4>2. StoreHolds /\ \A h \in GenID : Kept(h)
        BY <4>1, SameHolds
      <4>3. PhasesHold'
        BY <4>1 DEF IInv, PhasesHold, NoJobs, NoUploads
      <4> QED BY <2>0, <4>1, <4>2, <4>3, FrameHolds
    <3>2. CASE ValidateSource
      <4>1. tmdb.src \in GenID
        BY <3>2 DEF ValidateSource, IInv, TypeOK, NoCreate, CreateRequest
      <4> QED BY <2>0, <3>2, <4>1, CreateHolds
    <3>3. CASE DeleteProvider
      BY <2>0, <3>3, EverythingHolds
    <3> QED
      BY <2>0, <2>1, <3>1, <3>2, <3>3, CreateHolds, UploadHolds, DeleteGenerationHolds DEF Request
  <2>2. CASE \E g \in GenID : Upload(g) \/ Job(g)
    BY <2>0, <2>2, UploadHolds, JobHolds
  <2>3. CASE \E d \in Deleters : Delete(d)
    BY <2>0, <2>3, DeleteHolds
  <2>4. CASE Provider
    BY <2>0, <2>4, EverythingHolds
  <2>5. CASE Open
    <3>1. /\ mem' = disk /\ disk' = disk /\ refused' = refused /\ phase' = "recover"
          /\ UNCHANGED <<used, up, job, del>> /\ phase = "down"
      BY <2>5 DEF Open, OpenFrame, requests
    <3>2. StoreHolds
      BY <3>1 DEF IInv, StoreHolds, NeverRefused
    <3>3. \A h \in GenID : Exists(mem', h) \/ Exists(disk', h) => h \in used
      BY <3>1 DEF IInv, DrawnIDs
    <3>4. NoJobs /\ NoUploads /\ \A d \in Deleters : del[d].pc = "idle"
      BY <3>1 DEF IInv, PhasesHold
    <3>5. PhasesHold'
      BY <3>1, <3>4 DEF PhasesHold, NoJobs, NoUploads
    <3> QED BY <2>0, <3>1, <3>2, <3>3, <3>4, <3>5, ProcessHolds DEF Guarded, NoJobs
  <2>6. CASE Recover
    BY <2>0, <2>6, RecoverHolds
  <2>7. CASE Close
    <3>1. /\ UNCHANGED <<mem, disk, refused, used, job, del, up>> /\ phase' = "closing"
          /\ \A d \in Deleters : del[d].pc = "idle"
      BY <2>7 DEF Close, store, requests, NoRequests
    <3>2. StoreHolds /\ \A h \in GenID : Kept(h)
      BY <3>1, SameHolds
    <3>3. PhasesHold'
      BY <3>1 DEF PhasesHold
    <3> QED BY <2>0, <3>1, <3>2, <3>3, FrameHolds
  <2>8. CASE Closed \/ Crash
    BY <2>0, <2>8, DownHolds
  <2>9. CASE UNCHANGED vars
    <3>1. UNCHANGED <<mem, disk, refused, used, job, del, phase, up>>
      BY <2>9 DEF vars
    <3>2. StoreHolds /\ \A h \in GenID : Kept(h)
      BY <3>1, SameHolds
    <3>3. PhasesHold'
      BY <3>1 DEF IInv, PhasesHold, NoJobs, NoUploads
    <3> QED BY <2>0, <3>1, <3>2, <3>3, FrameHolds
  <2> QED BY <2>1, <2>2, <2>3, <2>4, <2>5, <2>6, <2>7, <2>8, <2>9 DEF Next
<1> QED BY <1>1, <1>2, PTL DEF Spec

(* repository.mutate never turns a state down as inconsistent: whatever      *)
(* requests, jobs, failures of storage, crashes and recoveries interleave,   *)
(* a mutation fails for its own check, the history bound or storage only.    *)
THEOREM MutationsConsistent == Spec => []NeverRefused
<1>1. IInv => NeverRefused
  BY DEF IInv
<1> QED BY <1>1, Inductive, PTL

-----------------------------------------------------------------------------
(***************************************************************************)
(* The files.  Where storage does not fail and no upload races a DELETE,   *)
(* the state file is memory, and the files of a generation are those its   *)
(* state and the step of its upload, job or DELETE call for.               *)
(***************************************************************************)
Calm == MaxFaults = 0 /\ ~RacingUploads

(* Nothing of a build, and nothing but a label that may come too late.      *)
Bare(f) == f.source = "none" /\ ~f.records /\ ~f.analytics /\ f.outcomes = {}

Clean(f) == Bare(f) /\ (f.label => Labelling)

Tidy(s, f, g) ==
  /\ StateOf(s, g) = "absent" => s.gens[g].level = "none" /\ Clean(f)
  /\ StateOf(s, g) = "failed" => Bare(f)
  /\ StateOf(s, g) = "ready" =>
       /\ f.source = "none" /\ f.outcomes = {}
       /\ s.deleting \/ g \in s.pending \/ (f.records /\ f.analytics)
  /\ s.gens[g].level = "tmdb" => f.source = "none"
  /\ s.gens[g].level = "local" => f.outcomes = {}

Uploads == {"stage", "copy", "commit", "failing", "failmark"}

(* An upload that can still change something has its generation to itself.  *)
Uploading(g) ==
  up[g] \in Uploads =>
    /\ mem.building = g /\ StateOf(mem, g) = "receiving" /\ ~mem.deleting
    /\ job[g] = "idle" /\ \A d \in Deleters : del[d].gen # g
    /\ up[g] = "failmark" => Bare(files[g])

Working(s, f, g, pc) ==
  /\ pc \notin {"idle", "finish"} =>
       s.building = g /\ StateOf(s, g) \in {"validating", "importing", "enriching"}
  /\ pc # "idle" => StateOf(s, g) # "receiving"
  /\ pc \in {"parse", "importing", "rmsource"} => s.gens[g].level = "local"
  /\ pc \in TMDBSteps => s.gens[g].level = "tmdb"
  /\ pc = "failmark" => Bare(f)
  /\ pc \in {"rmsource", "rmoutcomes", "clear", "activate"} => f.records /\ f.analytics
  /\ pc \in {"clear", "activate"} => f.source = "none" /\ f.outcomes = {}

Kempt(g) ==
  Tidy(mem, files[g], g) /\ Uploading(g) /\ Working(mem, files[g], g, job[g])

Failing == {"failing", "failmark"}

Removing(d) ==
  LET g == del[d].gen IN
  /\ del[d].pc # "idle" => g \in used
  /\ del[d].pc \in {"check"} \cup Failing => job[g] = "idle"
  /\ del[d].pc \in Failing => StateOf(mem, g) # "ready"
  /\ del[d].pc = "failmark" => Bare(files[g])
  /\ del[d].pc \in {"rmdir", "unmark"} => g \in mem.pending \/ ~Exists(mem, g)
  /\ del[d].pc = "unmark" => Clean(files[g])

Clearing ==
  /\ prov # "idle" => phase = "open" /\ mem.deleting /\ NoUploads
  /\ prov \in {"remove", "reset"} => NoJobs
  /\ prov = "reset" => files = NoDirectories

FInv ==
  /\ disk = mem
  /\ \A g \in GenID : Kempt(g)
  /\ \A d \in Deleters : Removing(d)
  /\ Clearing

-----------------------------------------------------------------------------
LEMMA CalmMutate ==
  ASSUME TypeOK, Calm, NEW allowed, NEW next, NEW ok, Mutate(allowed, next, ok)
  PROVE  \/ ok /\ allowed /\ ValidState(next) /\ mem' = next /\ disk' = next
         \/ ~ok /\ mem' = mem /\ disk' = disk
<1>1. ~(faults < MaxFaults)
  BY DEF TypeOK, Calm
<1> QED BY <1>1 DEF Mutate, store

LEMMA CalmRemoval ==
  ASSUME TypeOK, Calm, NEW ok
  PROVE  /\ \A g : RemoveDirectory(g, ok) => ok /\ files' = [files EXCEPT ![g] = NoFiles]
         /\ RemoveEverything(ok) => ok /\ files' = NoDirectories
<1>1. ~(faults < MaxFaults)
  BY DEF TypeOK, Calm
<1> QED BY <1>1 DEF RemoveDirectory, RemoveEverything

LEMMA NoFilesClean == Clean(NoFiles)
  BY DEF Clean, Bare, NoFiles

LEMMA CleanNoFiles ==
  ASSUME NEW f \in GenFiles
  PROVE  /\ Bare(f) <=> [f EXCEPT !.label = FALSE] = NoFiles
         /\ Clean(f) /\ ~Labelling => f = NoFiles
<1> DEFINE e == [f EXCEPT !.label = FALSE]
<1>0. \A x \in GenFiles : x = [source |-> x.source, records |-> x.records,
        analytics |-> x.analytics, outcomes |-> x.outcomes, label |-> x.label]
  BY DEF GenFiles
<1>1. f = [source |-> f.source, records |-> f.records, analytics |-> f.analytics,
           outcomes |-> f.outcomes, label |-> f.label]
  BY <1>0
<1>2. e = [source |-> f.source, records |-> f.records, analytics |-> f.analytics,
           outcomes |-> f.outcomes, label |-> FALSE]
  <2>1. /\ e \in GenFiles /\ e.source = f.source /\ e.records = f.records
        /\ e.analytics = f.analytics /\ e.outcomes = f.outcomes /\ e.label = FALSE
    BY DEF GenFiles
  <2> HIDE DEF e
  <2> QED BY <1>0, <2>1
<1> HIDE DEF e
<1>3. f.records \in BOOLEAN /\ f.analytics \in BOOLEAN /\ f.label \in BOOLEAN
  BY DEF GenFiles
<1>4. Bare(f) => e = NoFiles
  BY <1>2, <1>3 DEF Bare, NoFiles
<1>5. e = NoFiles => Bare(f)
  BY <1>2, <1>3 DEF Bare, NoFiles
<1>6. Clean(f) /\ ~Labelling => f = NoFiles
  BY <1>1, <1>3 DEF Clean, Bare, NoFiles
<1> QED BY <1>4, <1>5, <1>6 DEF e

(* A step that touches generation g alone. *)
Touches(g) ==
  /\ disk' = mem' /\ mem'.deleting = mem.deleting
  /\ \A h \in GenID \ {g} :
       /\ mem'.gens[h] = mem.gens[h] /\ files'[h] = files[h]
       /\ up'[h] = up[h] /\ job'[h] = job[h]
       /\ h \in mem'.pending <=> h \in mem.pending
       /\ mem.building = h => mem'.building = h

LEMMA OthersKempt ==
  ASSUME NEW g \in GenID, Touches(g), NEW h \in GenID \ {g}, Kempt(h),
         \A d \in Deleters : del'[d].gen = h => del[d].gen = h \/ up[h] \notin Uploads
  PROVE  Kempt(h)'
<1>1. /\ mem'.gens[h] = mem.gens[h] /\ files'[h] = files[h]
      /\ up'[h] = up[h] /\ job'[h] = job[h]
      /\ h \in mem'.pending <=> h \in mem.pending
      /\ mem.building = h => mem'.building = h
      /\ mem'.deleting = mem.deleting
  BY DEF Touches
<1>2. StateOf(mem', h) = StateOf(mem, h)
  BY <1>1 DEF StateOf
<1>3. Tidy(mem', files'[h], h)
  BY <1>1, <1>2 DEF Kempt, Tidy
<1>4. Uploading(h)'
  BY <1>1, <1>2 DEF Kempt, Uploading
<1>5. Working(mem', files'[h], h, job'[h])
  BY <1>1, <1>2 DEF Kempt, Working
<1> QED BY <1>3, <1>4, <1>5 DEF Kempt

(* What a DELETE has established survives the steps of others. *)
LEMMA RemovingKept ==
  ASSUME NEW d \in Deleters, Removing(d), del'[d] = del[d], used \subseteq used',
         LET g == del[d].gen IN
           /\ job[g] = "idle" => job'[g] = "idle"
           /\ StateOf(mem', g) = "ready" => StateOf(mem, g) = "ready"
           /\ Bare(files[g]) => Bare(files'[g])
           /\ Clean(files[g]) => Clean(files'[g])
           /\ g \in mem.pending => g \in mem'.pending \/ ~Exists(mem', g)
           /\ ~Exists(mem, g) => ~Exists(mem', g)
  PROVE  Removing(d)'
  BY DEF Removing

LEMMA OthersRemoving ==
  ASSUME TypeOK, NEW g \in GenID, Touches(g), used \subseteq used',
         NEW d \in Deleters, Removing(d), del'[d] = del[d], del[d].gen # g
  PROVE  Removing(d)'
<1> DEFINE h == del[d].gen
<1>1. CASE del[d].pc = "idle"
  BY <1>1 DEF Removing, Failing
<1>2. CASE del[d].pc # "idle"
  <2>1. h \in GenID \ {g}
    BY <1>2 DEF TypeOK, NoDelete, DeleteRequest
  <2> HIDE DEF h
  <2>2. /\ mem'.gens[h] = mem.gens[h] /\ files'[h] = files[h] /\ job'[h] = job[h]
        /\ h \in mem'.pending <=> h \in mem.pending
    BY <2>1 DEF Touches
  <2>3. StateOf(mem', h) = StateOf(mem, h)
    BY <2>2 DEF StateOf
  <2> QED BY <2>2, <2>3, RemovingKept DEF Exists, h
<1> QED BY <1>1, <1>2

LEMMA TouchKeeps ==
  ASSUME IInv, FInv, TypeOK', NEW g \in GenID, Touches(g), Kempt(g)',
         UNCHANGED <<del, prov, phase>>, used \subseteq used',
         \A d \in Deleters : del[d].gen = g => Removing(d)',
         prov # "idle" => up'[g] = "idle",
         prov \in {"remove", "reset"} => job'[g] = "idle",
         prov = "reset" => files'[g] = NoFiles
  PROVE  FInv'
<1>1. TypeOK /\ Clearing
  BY DEF IInv, FInv
<1>2. \A h \in GenID : Kempt(h)'
  <2>1. ASSUME NEW h \in GenID \ {g} PROVE Kempt(h)'
    BY OthersKempt DEF FInv
  <2> QED BY <2>1
<1>3. \A d \in Deleters : Removing(d)'
  <2>1. ASSUME NEW d \in Deleters, del[d].gen # g PROVE Removing(d)'
    BY <1>1, <2>1, OthersRemoving DEF FInv
  <2> QED BY <2>1
<1>4. prov # "idle" => NoUploads'
  BY <1>1 DEF Clearing, NoUploads, Touches
<1>5. prov \in {"remove", "reset"} => NoJobs'
  BY <1>1 DEF Clearing, NoJobs, Touches
<1>6. prov = "reset" => files' = NoDirectories
  <2>1. ASSUME prov = "reset", NEW h \in GenID PROVE files'[h] = NoFiles
    BY <1>1, <2>1 DEF Clearing, Touches, NoDirectories
  <2> QED BY <2>1 DEF TypeOK, NoDirectories
<1>7. Clearing'
  BY <1>1, <1>4, <1>5, <1>6 DEF Clearing, Touches
<1>8. disk' = mem'
  BY DEF Touches
<1> QED BY <1>2, <1>3, <1>7, <1>8 DEF FInv

LEMMA SameKeeps ==
  ASSUME FInv, UNCHANGED <<mem, disk, files, up, job, del, prov, phase>>, used \subseteq used'
  PROVE  FInv'
<1>1. \A h \in GenID : Kempt(h)'
  BY DEF FInv, Kempt, Uploading
<1>2. \A d \in Deleters : Removing(d)'
  BY DEF FInv, Removing
<1>3. Clearing'
  BY DEF FInv, Clearing, NoUploads, NoJobs
<1> QED BY <1>1, <1>2, <1>3 DEF FInv

(* Nobody has asked for the deletion of an ID that was not drawn. *)
LEMMA FreshFree ==
  ASSUME IInv, FInv, NEW g \in GenID \ used
  PROVE  /\ StateOf(mem, g) = "absent" /\ job[g] = "idle" /\ Clean(files[g])
         /\ \A d \in Deleters : del[d].gen # g
<1>1. StateOf(mem, g) = "absent" /\ job[g] = "idle"
  BY DEF IInv, DrawnIDs, Exists
<1>2. Clean(files[g])
  BY <1>1 DEF FInv, Kempt, Tidy
<1>3. ASSUME NEW d \in Deleters PROVE del[d].gen # g
  <2>1. del[d].pc # "idle" => del[d].gen \in used
    BY DEF FInv, Removing
  <2>2. del[d].pc = "idle" => del[d].gen = None
    BY DEF IInv, TypeOK, NoDelete, DeleteRequest, DeleteSteps
  <2> QED BY <2>1, <2>2, NoneAssumption
<1> QED BY <1>1, <1>2, <1>3

LEMMA FreshKeeps ==
  ASSUME IInv, FInv, TypeOK', NEW g \in GenID \ used, NEW state, NEW level,
         Accepting, mem.building = None, NoUploads,
         Changes(mem, mem', g, state, level), disk' = mem',
         Pointers(mem') = <<mem.active, g, mem.pending, mem.deleting>>,
         \/ state = "receiving" /\ level = "local" /\ job' = job
         \/ state = "enriching" /\ level = "tmdb" /\ job' = [job EXCEPT ![g] = "begin"],
         UNCHANGED <<files, up, del, prov, phase>>, used \subseteq used'
  PROVE  FInv'
<1>1. /\ mem'.building = g /\ mem'.pending = mem.pending /\ mem'.deleting = mem.deleting
      /\ StateOf(mem', g) = state /\ mem'.gens[g].level = level
  BY DEF Pointers, Changes
<1>2. /\ job[g] = "idle" /\ up[g] = "idle" /\ Clean(files[g])
      /\ \A d \in Deleters : del[d].gen # g
  BY FreshFree DEF NoUploads
<1>3. job'[g] = "idle" \/ (job'[g] = "begin" /\ state = "enriching")
  BY <1>2 DEF IInv, TypeOK
<1>4. Touches(g)
  <2>1. \A h \in GenID \ {g} : mem'.gens[h] = mem.gens[h] /\ job'[h] = job[h]
    BY DEF Changes, IInv, TypeOK
  <2> QED BY <1>1, <2>1, NoneAssumption DEF Touches
<1>5. Tidy(mem', files'[g], g)
  BY <1>1, <1>2 DEF Tidy, Clean, Bare
<1>6. Working(mem', files'[g], g, job'[g])
  BY <1>1, <1>3 DEF Working, TMDBSteps
<1>7. Kempt(g)'
  BY <1>2, <1>5, <1>6 DEF Kempt, Uploading, Uploads
<1>8. prov = "idle"
  BY DEF FInv, Clearing, Accepting
<1> QED BY <1>2, <1>4, <1>7, <1>8, TouchKeeps

LEMMA CreateKeeps ==
  ASSUME IInv, FInv, TypeOK', Calm, NEW g \in GenID,
         \/ CreateLocalGeneration(g) \/ CreateTMDBGeneration(g) \/ ValidateSource
         \/ CommitTMDBGeneration(g)
  PROVE  FInv'
<1>0. TypeOK /\ disk = mem
  BY DEF IInv, FInv
<1>1. CASE CreateTMDBGeneration(g) \/ ValidateSource
  BY <1>1, SameKeeps DEF CreateTMDBGeneration, ValidateSource, store, world
<1>2. CASE CreateLocalGeneration(g)
  <2>1. PICK ok \in BOOLEAN : Mutate(TRUE, Received(mem, g), ok)
    BY <1>2 DEF CreateLocalGeneration
  <2>2. /\ Accepting /\ mem.building = None /\ NoUploads /\ g \notin used
        /\ used \subseteq used' /\ UNCHANGED <<files, up, job, del, prov, phase>>
    BY <1>2 DEF CreateLocalGeneration, requests
  <2>3. CASE mem' = mem /\ disk' = disk
    BY <2>2, <2>3, SameKeeps
  <2>4. CASE mem' = Received(mem, g) /\ disk' = mem'
    <3>1. /\ Changes(mem, mem', g, "receiving", "local")
          /\ Pointers(mem') = <<mem.active, g, mem.pending, mem.deleting>>
      BY <2>4, <1>0, CreateChanges DEF TypeOK
    <3> QED BY <2>2, <2>4, <3>1, FreshKeeps
  <2> QED BY <1>0, <2>1, <2>3, <2>4, CalmMutate
<1>3. CASE CommitTMDBGeneration(g)
  <2>1. /\ UNCHANGED <<files, up, del, prov, phase>>
        /\ \/ \E ok \in BOOLEAN :
                /\ AcceptsSource(tmdb.src) /\ g \notin used /\ used' = used \cup {g}
                /\ Mutate(TRUE, Derive(mem, g, tmdb.src), ok)
                /\ job' = IF ok THEN [job EXCEPT ![g] = "begin"] ELSE job
           \/ UNCHANGED <<store, used, job>>
    BY <1>3 DEF CommitTMDBGeneration
  <2>2. CASE UNCHANGED <<mem, disk, job>> /\ used \subseteq used'
    BY <2>1, <2>2, SameKeeps
  <2>3. ASSUME NEW ok \in BOOLEAN, AcceptsSource(tmdb.src), g \notin used,
               used' = used \cup {g}, Mutate(TRUE, Derive(mem, g, tmdb.src), ok),
               job' = IF ok THEN [job EXCEPT ![g] = "begin"] ELSE job
        PROVE  FInv'
    <3>1. \/ ok /\ mem' = Derive(mem, g, tmdb.src) /\ disk' = mem'
          \/ ~ok /\ UNCHANGED <<mem, disk>>
      BY <1>0, <2>3, CalmMutate
    <3>2. CASE ok /\ mem' = Derive(mem, g, tmdb.src) /\ disk' = mem'
      <4>1. tmdb.src \in GenID
        BY <1>0, <1>3 DEF CommitTMDBGeneration, TypeOK, NoCreate, CreateRequest
      <4>2. /\ Changes(mem, mem', g, "enriching", "tmdb")
            /\ Pointers(mem') = <<mem.active, g, mem.pending, mem.deleting>>
        BY <1>0, <3>2, <4>1, CreateChanges DEF TypeOK
      <4>3. Accepting /\ mem.building = None /\ NoUploads
        BY <2>3 DEF AcceptsSource
      <4>4. job' = [job EXCEPT ![g] = "begin"] /\ used \subseteq used'
        BY <2>3, <3>2
      <4> QED BY <2>1, <2>3, <3>2, <4>2, <4>3, <4>4, FreshKeeps
    <3>3. CASE ~ok /\ UNCHANGED <<mem, disk>>
      BY <2>2, <2>3, <3>3
    <3> QED BY <3>1, <3>2, <3>3
  <2> QED BY <2>1, <2>2, <2>3 DEF store
<1> QED BY <1>1, <1>2, <1>3

-----------------------------------------------------------------------------
(* Uploads. *)

LEMMA UploadAlone ==
  ASSUME IInv, FInv, NEW g \in GenID, up[g] \in Uploads
  PROVE  /\ mem.building = g /\ StateOf(mem, g) = "receiving" /\ job[g] = "idle"
         /\ mem.gens[g].level = "local" /\ prov = "idle"
         /\ \A d \in Deleters : del[d].gen # g
<1>1. Uploading(g)
  BY DEF FInv, Kempt
<1>2. /\ mem.building = g /\ StateOf(mem, g) = "receiving" /\ job[g] = "idle"
      /\ ~mem.deleting /\ \A d \in Deleters : del[d].gen # g
  BY <1>1 DEF Uploading
<1>3. prov = "idle"
  BY <1>2 DEF FInv, Clearing
<1>4. ValidGeneration(mem.gens[g]) /\ mem.gens[g].state = "receiving"
  BY <1>2, NoneAssumption DEF IInv, Sound, Consistent, Exists, StateOf
<1>5. mem.gens[g].level = "local"
  BY <1>4 DEF ValidGeneration
<1> QED BY <1>2, <1>3, <1>5

(* A step of the upload of g that leaves memory as it is. *)
LEMMA UploadFileKeeps ==
  ASSUME IInv, FInv, TypeOK', NEW g \in GenID, up[g] \in Uploads, NEW pc,
         up' = [up EXCEPT ![g] = pc], pc = "failmark" => Bare(files'[g]),
         files'[g].outcomes = {}, \A h \in GenID \ {g} : files'[h] = files[h],
         UNCHANGED <<mem, disk, job, del, prov, phase, used>>
  PROVE  FInv'
<1>1. /\ mem.building = g /\ StateOf(mem, g) = "receiving" /\ job[g] = "idle"
      /\ mem.gens[g].level = "local" /\ prov = "idle"
      /\ \A d \in Deleters : del[d].gen # g
  BY UploadAlone
<1>2. disk = mem /\ TypeOK
  BY DEF FInv, IInv
<1>3. Touches(g)
  BY <1>2 DEF Touches, TypeOK
<1>4. up'[g] = pc
  BY <1>2 DEF TypeOK
<1>5. Uploading(g)
  BY DEF FInv, Kempt
<1>6. Uploading(g)'
  BY <1>4, <1>5 DEF Uploading
<1>7. Tidy(mem', files'[g], g)
  BY <1>1 DEF Tidy
<1>8. Working(mem', files'[g], g, job'[g])
  BY <1>1 DEF Working, TMDBSteps
<1>9. Kempt(g)'
  BY <1>6, <1>7, <1>8 DEF Kempt
<1> QED BY <1>1, <1>3, <1>9, TouchKeeps

(* Its last step, which moves the generation on or fails it. *)
LEMMA UploadMutateKeeps ==
  ASSUME IInv, FInv, TypeOK', NEW g \in GenID, up[g] \in Uploads, NEW state, NEW pointer,
         Changes(mem, mem', g, state, mem.gens[g].level), disk' = mem',
         Pointers(mem') = <<mem.active, pointer, mem.pending, mem.deleting>>,
         \/ state = "validating" /\ pointer = g /\ job' = [job EXCEPT ![g] = "begin"]
         \/ state = "failed" /\ Bare(files[g]) /\ job' = job,
         up' = [up EXCEPT ![g] = "finish"],
         UNCHANGED <<files, del, prov, phase, used>>
  PROVE  FInv'
<1>1. /\ mem.building = g /\ StateOf(mem, g) = "receiving" /\ job[g] = "idle"
      /\ mem.gens[g].level = "local" /\ prov = "idle"
      /\ \A d \in Deleters : del[d].gen # g
  BY UploadAlone
<1>2. TypeOK /\ Kempt(g)
  BY DEF FInv, IInv
<1>3. /\ mem'.building = pointer /\ mem'.pending = mem.pending /\ mem'.deleting = mem.deleting
      /\ StateOf(mem', g) = state /\ mem'.gens[g].level = "local"
  BY <1>1 DEF Pointers, Changes
<1>4. up'[g] = "finish" /\ (job'[g] = "idle" \/ (state = "validating" /\ job'[g] = "begin"))
  BY <1>1, <1>2 DEF TypeOK
<1>5. Touches(g)
  <2>1. \A h \in GenID \ {g} :
          mem'.gens[h] = mem.gens[h] /\ job'[h] = job[h] /\ up'[h] = up[h]
    BY <1>2 DEF Changes, TypeOK
  <2> QED BY <1>1, <1>3, <2>1 DEF Touches
<1>6. files[g].outcomes = {}
  BY <1>1, <1>2 DEF Kempt, Tidy
<1>7. Tidy(mem', files'[g], g)
  BY <1>3, <1>6 DEF Tidy
<1>8. Working(mem', files'[g], g, job'[g])
  BY <1>3, <1>4 DEF Working, TMDBSteps
<1>9. Kempt(g)'
  BY <1>4, <1>7, <1>8 DEF Kempt, Uploading, Uploads
<1> QED BY <1>1, <1>5, <1>9, TouchKeeps

(* failGeneration where storage works: the files go, then the state follows. *)
LEMMA CalmFail ==
  ASSUME TypeOK, Calm, NEW g \in GenID
  PROVE  /\ FailRemove(g) => /\ files' = [files EXCEPT ![g] = NoFiles]
                             /\ UNCHANGED <<mem, disk>>
         /\ FailMark(g) => \/ UNCHANGED <<mem, disk>>
                           \/ mem' = Failed(mem, g) /\ disk' = mem'
<1>1. ASSUME FailRemove(g)
      PROVE  files' = [files EXCEPT ![g] = NoFiles] /\ UNCHANGED <<mem, disk>>
  BY <1>1, CalmRemoval DEF FailRemove
<1>2. ASSUME FailMark(g)
      PROVE  UNCHANGED <<mem, disk>> \/ (mem' = Failed(mem, g) /\ disk' = mem')
  BY <1>2, CalmMutate DEF FailMark, store
<1> QED BY <1>1, <1>2

LEMMA UploadKeeps ==
  ASSUME IInv, FInv, TypeOK', Calm, NEW g \in GenID, Upload(g)
  PROVE  FInv'
<1>0. /\ TypeOK /\ disk = mem /\ files \in [GenID -> GenFiles]
      /\ UNCHANGED <<del, prov, phase, used>>
  BY DEF IInv, FInv, TypeOK, Upload, UploadStage, UploadCopy, UploadCommit, UploadFail,
         UploadFinish, UploadFrame, world, requests
<1>1. up[g] \in Uploads => files[g].outcomes = {}
  BY UploadAlone DEF FInv, Kempt, Tidy
<1>2. \A x : WithSource(g, x).outcomes = files[g].outcomes
  BY <1>0 DEF WithSource, GenFiles
<1>3. \A f : Update(g, f) => files'[g] = f /\ \A h \in GenID \ {g} : files'[h] = files[h]
  BY <1>0 DEF Update
<1>4. CASE UploadStage(g)
  <2>1. /\ up[g] = "stage" /\ UNCHANGED <<mem, disk, job>>
        /\ UNCHANGED files \/ Update(g, WithSource(g, "part"))
        /\ \E pc \in {"finish", "copy", "failing"} : up' = [up EXCEPT ![g] = pc]
    BY <1>4 DEF UploadStage, UploadGo, store
  <2>2. files'[g].outcomes = {} /\ \A h \in GenID \ {g} : files'[h] = files[h]
    BY <1>1, <1>2, <1>3, <2>1 DEF Uploads
  <2> QED BY <1>0, <2>1, <2>2, UploadFileKeeps DEF Uploads
<1>5. CASE UploadCopy(g)
  <2>1. /\ up[g] = "copy" /\ UNCHANGED <<mem, disk, job>>
        /\ \/ \E content \in {"good", "bad"} : Update(g, WithSource(g, content))
           \/ Unstage(g)
        /\ \E pc \in {"commit", "failing"} : up' = [up EXCEPT ![g] = pc]
    BY <1>5 DEF UploadCopy, UploadGo, store
  <2>2. UNCHANGED files \/ \E x : Update(g, WithSource(g, x))
    BY <2>1 DEF Unstage
  <2>3. files'[g].outcomes = {} /\ \A h \in GenID \ {g} : files'[h] = files[h]
    BY <1>1, <1>2, <1>3, <2>1, <2>2 DEF Uploads
  <2> QED BY <1>0, <2>1, <2>3, UploadFileKeeps DEF Uploads
<1>6. CASE UploadCommit(g)
  <2>1. up[g] = "commit" /\ UNCHANGED files
    BY <1>6 DEF UploadCommit
  <2>2. CASE /\ UNCHANGED <<mem, disk, job>>
             /\ \E pc \in {"finish", "failing"} : up' = [up EXCEPT ![g] = pc]
    BY <1>0, <1>1, <2>1, <2>2, UploadFileKeeps DEF Uploads
  <2>3. ASSUME NEW ok \in BOOLEAN, UploadGo(g, IF ok THEN "finish" ELSE "failing"),
               Mutate(mem.building = g /\ StateOf(mem, g) = "receiving", Validated(mem, g), ok),
               job' = IF ok /\ job[g] = "idle" THEN [job EXCEPT ![g] = "begin"] ELSE job
        PROVE  FInv'
    <3>1. \/ ok /\ mem' = Validated(mem, g) /\ disk' = mem'
          \/ ~ok /\ UNCHANGED <<mem, disk>>
      BY <1>0, <2>3, CalmMutate
    <3>2. CASE ok /\ mem' = Validated(mem, g) /\ disk' = mem'
      <4>1. mem.building = g /\ job[g] = "idle"
        BY <2>1, UploadAlone DEF Uploads
      <4>2. /\ Changes(mem, mem', g, "validating", mem.gens[g].level)
            /\ Pointers(mem') = <<mem.active, g, mem.pending, mem.deleting>>
        BY <1>0, <3>2, <4>1, StepChanges DEF TypeOK, Pointers
      <4>3. job' = [job EXCEPT ![g] = "begin"] /\ up' = [up EXCEPT ![g] = "finish"]
        BY <2>3, <3>2, <4>1 DEF UploadGo
      <4> QED BY <1>0, <2>1, <3>2, <4>2, <4>3, UploadMutateKeeps DEF Uploads
    <3>3. CASE ~ok /\ UNCHANGED <<mem, disk>>
      BY <2>2, <2>3, <3>3 DEF UploadGo
    <3> QED BY <3>1, <3>2, <3>3
  <2>4. \/ /\ UNCHANGED <<store, job>>
           /\ UploadGo(g, "finish") \/ UploadGo(g, "failing")
        \/ \E ok \in BOOLEAN :
             /\ Mutate(mem.building = g /\ StateOf(mem, g) = "receiving", Validated(mem, g), ok)
             /\ UploadGo(g, IF ok THEN "finish" ELSE "failing")
             /\ job' = IF ok /\ job[g] = "idle" THEN [job EXCEPT ![g] = "begin"] ELSE job
    BY <1>6 DEF UploadCommit
  <2> QED BY <2>2, <2>3, <2>4 DEF UploadGo, store
<1>7. CASE UploadFail(g)
  <2>1. CASE up[g] = "failing" /\ FailRemove(g)
    <3>1. /\ files' = [files EXCEPT ![g] = NoFiles] /\ UNCHANGED <<mem, disk, job>>
          /\ up' = [up EXCEPT ![g] = "failmark"]
      BY <1>0, <1>7, <2>1, CalmFail DEF UploadFail, UploadGo
    <3>2. /\ files'[g] = NoFiles /\ files'[g].outcomes = {} /\ Bare(files'[g])
          /\ \A h \in GenID \ {g} : files'[h] = files[h]
      BY <1>0, <3>1, NoFilesClean DEF Clean, NoFiles
    <3> QED BY <1>0, <2>1, <3>1, <3>2, UploadFileKeeps DEF Uploads
  <2>2. CASE up[g] = "failmark" /\ FailMark(g)
    <3>1. UNCHANGED <<files, job>> /\ up' = [up EXCEPT ![g] = "finish"]
      BY <1>7, <2>2 DEF UploadFail, UploadGo
    <3>2. CASE UNCHANGED <<mem, disk>>
      BY <1>0, <1>1, <2>2, <3>1, <3>2, UploadFileKeeps DEF Uploads
    <3>3. CASE mem' = Failed(mem, g) /\ disk' = mem'
      <4>1. IsBuilding(mem, g) /\ mem.building = g
        BY <2>2, UploadAlone DEF Uploads, IsBuilding, BuildingStates
      <4>2. /\ Changes(mem, mem', g, "failed", mem.gens[g].level)
            /\ Pointers(mem') = <<mem.active, None, mem.pending, mem.deleting>>
        BY <1>0, <3>3, <4>1, FailedChanges DEF TypeOK, Without
      <4>3. Bare(files[g])
        BY <2>2 DEF FInv, Kempt, Uploading, Uploads
      <4> QED BY <1>0, <2>2, <3>1, <3>3, <4>2, <4>3, UploadMutateKeeps DEF Uploads
    <3> QED BY <1>0, <2>2, <3>2, <3>3, CalmFail
  <2> QED BY <1>7, <2>1, <2>2 DEF UploadFail
<1>8. CASE UploadFinish(g)
  <2>1. /\ up[g] = "finish" /\ up' = [up EXCEPT ![g] = "idle"]
        /\ UNCHANGED <<mem, disk, files, job>>
    BY <1>8 DEF UploadFinish, UploadGo, store
  <2>2. \A h \in GenID : up'[h] \in Uploads => up'[h] = up[h]
    BY <1>0, <2>1 DEF TypeOK, Uploads
  <2>3. \A h \in GenID : Kempt(h)'
    BY <1>0, <2>1, <2>2 DEF FInv, Kempt, Uploading
  <2>4. \A d \in Deleters : Removing(d)'
    BY <1>0, <2>1 DEF FInv, Removing
  <2>5. Clearing'
    BY <1>0, <2>1 DEF FInv, Clearing, NoUploads, NoJobs
  <2> QED BY <1>0, <2>1, <2>3, <2>4, <2>5 DEF FInv
<1> QED BY <1>4, <1>5, <1>6, <1>7, <1>8 DEF Upload

LEMMA UploadStartKeeps ==
  ASSUME IInv, FInv, TypeOK', Calm, NEW g \in GenID, UploadStart(g)
  PROVE  FInv'
<1>1. /\ up[g] = "idle" /\ up' = [up EXCEPT ![g] = "stage"] /\ phase = "open" /\ ~mem.deleting
      /\ mem.building = g /\ StateOf(mem, g) = "receiving" /\ \A d \in Deleters : del[d].gen # g
      /\ UNCHANGED <<mem, disk, files, job, del, prov, phase, used>>
  BY DEF UploadStart, UploadGo, UploadFrame, Accepting, Calm, store, world, requests
<1>2. TypeOK /\ Kempt(g) /\ disk = mem /\ prov = "idle"
  BY <1>1 DEF FInv, IInv, Clearing
<1>3. up'[g] = "stage"
  BY <1>1, <1>2 DEF TypeOK
<1>4. job[g] = "idle"
  BY <1>1, <1>2 DEF Kempt, Working
<1>5. Touches(g)
  BY <1>1, <1>2 DEF Touches, TypeOK
<1>6. Kempt(g)'
  BY <1>1, <1>2, <1>3, <1>4 DEF Kempt, Uploading
<1> QED BY <1>1, <1>2, <1>5, <1>6, TouchKeeps

LEMMA LabelKeeps ==
  ASSUME IInv, FInv, TypeOK', NEW g \in GenID, SetProfileLabel(g)
  PROVE  FInv'
<1>1. /\ files' = [files EXCEPT ![g] = [files[g] EXCEPT !.label = TRUE]]
      /\ Labelling /\ ~mem.deleting /\ Exists(mem, g)
      /\ UNCHANGED <<mem, disk, up, job, del, prov, phase, used>>
  BY DEF SetProfileLabel, Accepting, Update, store, world, requests
<1>2. /\ TypeOK /\ Kempt(g) /\ disk = mem /\ prov = "idle"
      /\ files[g] \in GenFiles
  BY <1>1 DEF FInv, IInv, Clearing, TypeOK
<1>3. /\ files'[g].source = files[g].source /\ files'[g].outcomes = files[g].outcomes
      /\ files'[g].records = files[g].records /\ files'[g].analytics = files[g].analytics
      /\ \A h \in GenID \ {g} : files'[h] = files[h]
  BY <1>1, <1>2 DEF TypeOK, GenFiles
<1>4. Touches(g)
  BY <1>1, <1>2, <1>3 DEF Touches
<1>5. Bare(files'[g]) <=> Bare(files[g])
  BY <1>3 DEF Bare
<1>6. Clean(files'[g]) <=> Bare(files'[g])
  BY <1>1 DEF Clean
<1>7. Kempt(g)'
  <2>1. Tidy(mem', files'[g], g)
    BY <1>1, <1>2, <1>3, <1>5 DEF Kempt, Tidy, Exists
  <2>2. Working(mem', files'[g], g, job'[g])
    BY <1>1, <1>2, <1>3, <1>5 DEF Kempt, Working
  <2>3. Uploading(g)'
    BY <1>1, <1>2, <1>5 DEF Kempt, Uploading
  <2> QED BY <2>1, <2>2, <2>3 DEF Kempt
<1>8. ASSUME NEW d \in Deleters, del[d].gen = g PROVE Removing(d)'
  <2>1. Removing(d)
    BY DEF FInv
  <2>2. Clean(files[g]) => Bare(files[g])
    BY DEF Clean
  <2> QED BY <1>1, <1>5, <1>6, <1>8, <2>1, <2>2 DEF Removing
<1> QED BY <1>1, <1>2, <1>4, <1>7, <1>8, TouchKeeps

-----------------------------------------------------------------------------
(* Jobs. *)

(* A job that can still change something has its generation to itself. *)
LEMMA JobAlone ==
  ASSUME IInv, FInv, NEW g \in GenID, job[g] \notin {"idle", "finish"}
  PROVE  /\ mem.building = g /\ StateOf(mem, g) \in {"validating", "importing", "enriching"}
         /\ IsBuilding(mem, g) /\ g \notin mem.pending
         /\ up[g] \notin Uploads /\ prov \notin {"remove", "reset"}
         /\ \A d \in Deleters : del[d].gen = g => del[d].pc = "wait" /\ g \in used
<1>1. mem.building = g /\ StateOf(mem, g) \in {"validating", "importing", "enriching"}
  BY DEF FInv, Kempt, Working
<1>2. IsBuilding(mem, g)
  BY <1>1 DEF IsBuilding, BuildingStates
<1>3. g \notin mem.pending
  BY <1>1 DEF IInv, Sound, Consistent, ValidPending
<1>4. up[g] \notin Uploads
  BY <1>1 DEF FInv, Kempt, Uploading
<1>5. prov \notin {"remove", "reset"}
  BY DEF FInv, Clearing, NoJobs
<1>6. ASSUME NEW d \in Deleters, del[d].gen = g PROVE del[d].pc = "wait" /\ g \in used
  <2>1. del[d].pc \in DeleteSteps
    BY <1>6, NoneAssumption DEF IInv, TypeOK, NoDelete, DeleteRequest
  <2>2. del[d].pc \notin {"mark", "rmdir", "unmark"}
    BY <1>2, <1>6 DEF IInv, DeletersHold, Committed, Removable
  <2>3. del[d].pc \notin {"check", "failing", "failmark"}
    BY <1>6 DEF FInv, Removing, Failing
  <2>4. del[d].pc = "wait"
    BY <2>1, <2>2, <2>3 DEF DeleteSteps
  <2> QED BY <1>6, <2>4 DEF FInv, Removing
<1> QED BY <1>1, <1>2, <1>3, <1>4, <1>5, <1>6

LEMMA JobStepKeeps ==
  ASSUME IInv, FInv, TypeOK', NEW g \in GenID, job[g] \notin {"idle", "finish"},
         NEW pc, job' = [job EXCEPT ![g] = pc], disk' = mem',
         \A h \in GenID \ {g} : mem'.gens[h] = mem.gens[h] /\ files'[h] = files[h],
         mem'.pending = mem.pending, mem'.deleting = mem.deleting,
         Tidy(mem', files'[g], g), Working(mem', files'[g], g, pc),
         UNCHANGED <<up, del, prov, phase, used>>
  PROVE  FInv'
<1>1. TypeOK
  BY DEF IInv
<1>2. /\ mem.building = g /\ up[g] \notin Uploads /\ prov \notin {"remove", "reset"}
      /\ \A d \in Deleters : del[d].gen = g => del[d].pc = "wait" /\ g \in used
  BY JobAlone
<1>3. Touches(g)
  BY <1>1, <1>2 DEF Touches, TypeOK
<1>4. job'[g] = pc
  BY <1>1 DEF TypeOK
<1>5. Kempt(g)'
  BY <1>2, <1>4 DEF Kempt, Uploading
<1>6. \A d \in Deleters : del[d].gen = g => Removing(d)'
  BY <1>2 DEF Removing, Failing
<1>7. prov # "idle" => up'[g] = "idle"
  BY DEF FInv, Clearing, NoUploads
<1> QED BY <1>2, <1>3, <1>5, <1>6, <1>7, TouchKeeps

LEMMA ReadStepKeeps ==
  ASSUME IInv, FInv, TypeOK', NEW g \in GenID, JobFrame,
         NEW from \in JobSteps \ {"idle", "finish"}, NEW ok, NEW to, ReadStep(g, from, ok, to),
         ok => Working(mem, files[g], g, to)
  PROVE  FInv'
<1>1. /\ job[g] = from /\ UNCHANGED <<mem, disk, files, up, del, prov, phase, used>>
      /\ \E pc : job' = [job EXCEPT ![g] = pc] /\ (pc = "failing" \/ (ok /\ pc = to))
  BY DEF ReadStep, GoIf, Go, JobFrame, store, world, requests
<1>2. Kempt(g) /\ disk = mem
  BY DEF FInv
<1>3. Working(mem, files[g], g, "failing")
  BY <1>1, JobAlone DEF Working, TMDBSteps
<1>4. PICK pc : job' = [job EXCEPT ![g] = pc] /\ (pc = "failing" \/ (ok /\ pc = to))
  BY <1>1
<1>5. Working(mem, files[g], g, pc)
  BY <1>3, <1>4
<1>6. Tidy(mem, files[g], g)
  BY <1>2 DEF Kempt
<1> QED BY <1>1, <1>2, <1>4, <1>5, <1>6, JobStepKeeps

LEMMA FileStepKeeps ==
  ASSUME IInv, FInv, TypeOK', NEW g \in GenID, UNCHANGED <<mem, disk, up, del, prov, phase, used>>,
         job[g] \notin {"idle", "finish"}, NEW f, Update(g, f), NEW to, Go(g, to),
         mem.gens[g].level = "tmdb" => f.source = "none",
         mem.gens[g].level = "local" => f.outcomes = {},
         Working(mem, f, g, to)
  PROVE  FInv'
<1>1. TypeOK /\ disk = mem
  BY DEF IInv, FInv
<1>2. files'[g] = f /\ \A h \in GenID \ {g} : files'[h] = files[h]
  BY <1>1 DEF Update, TypeOK
<1>3. Tidy(mem, f, g)
  <2>1. StateOf(mem, g) \in {"validating", "importing", "enriching"}
    BY JobAlone
  <2> QED BY <2>1 DEF Tidy
<1>4. job' = [job EXCEPT ![g] = to] /\ disk' = mem' /\ mem' = mem
  BY <1>1 DEF Go
<1> QED BY <1>2, <1>3, <1>4, JobStepKeeps

(* state is the one the mutation sets. *)
LEMMA MutateStepKeeps ==
  ASSUME IInv, FInv, TypeOK', Calm, NEW g \in GenID, JobFrame,
         NEW from \in JobSteps \ {"idle", "finish"}, NEW allowed, NEW next, NEW to, NEW state,
         MutateStep(g, from, allowed, next, to),
         Changes(mem, next, g, state, mem.gens[g].level),
         \/ Pointers(next) = Pointers(mem) /\ state \in {"validating", "importing", "enriching"}
         \/ /\ \E a, b : Pointers(next) = <<a, b, mem.pending, mem.deleting>>
            /\ state = "ready" /\ to = "finish"
            /\ files[g].records /\ files[g].analytics
            /\ files[g].source = "none" /\ files[g].outcomes = {},
         \* what the next step needs, where the state does not tell
         /\ to \in {"parse", "importing", "rmsource"} => mem.gens[g].level = "local"
         /\ to \in TMDBSteps => mem.gens[g].level = "tmdb"
         /\ to \in {"rmsource", "rmoutcomes", "clear", "activate"} =>
              files[g].records /\ files[g].analytics
         /\ to \in {"clear", "activate"} => files[g].source = "none" /\ files[g].outcomes = {}
         /\ to \notin {"idle", "failmark"}
  PROVE  FInv'
<1>0. /\ job[g] = from /\ UNCHANGED <<files, up, del, prov, phase, used>>
      /\ TypeOK /\ disk = mem /\ Kempt(g)
  BY DEF MutateStep, JobFrame, world, requests, IInv, FInv
<1>1. PICK ok \in BOOLEAN : Mutate(allowed, next, ok) /\ GoIf(ok, g, to)
  BY DEF MutateStep
<1>2. mem.building = g /\ StateOf(mem, g) \in {"validating", "importing", "enriching"}
  BY <1>0, JobAlone
<1>3. \/ ok /\ mem' = next /\ disk' = next
      \/ ~ok /\ mem' = mem /\ disk' = disk
  BY <1>0, <1>1, CalmMutate
<1>4. CASE ~ok /\ mem' = mem /\ disk' = disk
  <2>1. Working(mem, files[g], g, "failing")
    BY <1>2 DEF Working, TMDBSteps
  <2>2. job' = [job EXCEPT ![g] = "failing"] /\ Tidy(mem, files[g], g)
    BY <1>0, <1>1, <1>4 DEF GoIf, Go, Kempt
  <2> QED BY <1>0, <1>4, <2>1, <2>2, JobStepKeeps
<1>5. CASE ok /\ mem' = next /\ disk' = next
  <2>1. /\ mem'.pending = mem.pending /\ mem'.deleting = mem.deleting
        /\ StateOf(mem', g) = state /\ mem'.gens[g].level = mem.gens[g].level
        /\ \A h \in GenID \ {g} : mem'.gens[h] = mem.gens[h]
        /\ mem'.building = g \/ to = "finish"
    BY <1>2, <1>5 DEF Pointers, Changes
  <2>2. Tidy(mem', files[g], g)
    BY <1>0, <2>1 DEF Kempt, Tidy
  <2>3. state \in {"validating", "importing", "enriching"} \/ to = "finish"
    OBVIOUS
  <2>4. state # "receiving"
    OBVIOUS
  <2>5. Working(mem', files[g], g, to)
    BY <2>1, <2>3, <2>4 DEF Working, TMDBSteps
  <2>6. job' = [job EXCEPT ![g] = to]
    BY <1>1, <1>5 DEF GoIf, Go
  <2> QED BY <1>0, <1>5, <2>1, <2>2, <2>5, <2>6, JobStepKeeps
<1> QED BY <1>3, <1>4, <1>5

LEMMA JobLevels ==
  ASSUME IInv, FInv, NEW g \in GenID, job[g] \notin {"idle", "finish"}
  PROVE  mem.gens[g].level \in {"local", "tmdb"}
<1>1. Exists(mem, g) /\ g # None
  BY JobAlone, NoneAssumption DEF Exists
<1>2. mem.gens[g].level # "none"
  BY <1>1 DEF IInv, Sound, Consistent, ValidGeneration
<1>3. mem.gens[g].level \in Levels
  BY GenType DEF IInv, TypeOK, Generation
<1> QED BY <1>2, <1>3 DEF Levels

LEMMA ReadsKeep ==
  ASSUME IInv, FInv, TypeOK', Calm, NEW g \in GenID, JobFrame,
         \/ JobBegin(g) \/ Revalidate(g) \/ ParseViewingActivity(g) \/ ValidateArtifacts(g)
         \/ EnrichmentSource(g) \/ FinishEnrichment(g)
  PROVE  FInv'
<1> DEFINE level == mem.gens[g].level
           W(pc) == Working(mem, files[g], g, pc)
<1>0. job[g] \in {"begin", "revalidate", "parse", "validate", "source", "enrich"}
  BY DEF JobBegin, Revalidate, ParseViewingActivity, ValidateArtifacts, EnrichmentSource,
         FinishEnrichment, ReadStep
<1>1. /\ mem.building = g /\ StateOf(mem, g) \in {"validating", "importing", "enriching"}
      /\ level \in {"local", "tmdb"} /\ W(job[g])
  BY <1>0, JobAlone, JobLevels DEF FInv, Kempt
<1> HIDE DEF level
<1>2. /\ W("revalidate") /\ W("records")
      /\ level = "local" => W("parse") /\ W("importing")
      /\ level = "tmdb" => W("source") /\ W("reconcile")
      /\ Intact(g) /\ level = "local" => W("rmsource")
      /\ Intact(g) /\ level = "tmdb" => W("rmoutcomes")
  BY <1>1 DEF Working, TMDBSteps, Intact, level
<1>w. W(job[g]) => Working(mem, files[g], g, job[g])
  OBVIOUS
<1>3. ASSUME NEW from \in JobSteps \ {"idle", "finish"}, NEW ok, NEW to,
             ReadStep(g, from, ok, to), ok => W(to)
      PROVE  FInv'
  BY <1>3, ReadStepKeeps
<1>4. {"begin", "revalidate", "parse", "validate", "source", "enrich"}
        \subseteq JobSteps \ {"idle", "finish"}
  BY DEF JobSteps, LocalSteps, TMDBSteps
<1> HIDE DEF W
<1>5. CASE JobBegin(g)
  <2> DEFINE to == IF mem.gens[g].hashes THEN "revalidate"
                   ELSE IF level = "local" THEN "parse" ELSE "source"
  <2>1. ReadStep(g, "begin", IsCurrent(g), to)
    BY <1>5 DEF JobBegin, level
  <2>2. to \in {"revalidate"} \/ (to = "parse" /\ level = "local") \/ (to = "source" /\ level = "tmdb")
    BY <1>1
  <2>3. W(to)
    BY <1>2, <2>2
  <2> HIDE DEF to
  <2> QED BY <1>3, <1>4, <2>1, <2>3
<1>6. CASE Revalidate(g)
  <2> DEFINE to == IF Intact(g) THEN "rmsource" ELSE "parse"
  <2>1. \/ level = "local" /\ ReadStep(g, "revalidate", Intact(g) \/ Staged(g), to)
        \/ level # "local" /\ ReadStep(g, "revalidate", Intact(g), "rmoutcomes")
    BY <1>6 DEF Revalidate, level
  <2>2. level = "local" => W(to)
    <3>1. (Intact(g) /\ to = "rmsource") \/ to = "parse"
      OBVIOUS
    <3> QED BY <1>2, <3>1
  <2>3. level # "local" /\ Intact(g) => W("rmoutcomes")
    BY <1>1, <1>2
  <2> HIDE DEF to
  <2> QED BY <1>3, <1>4, <2>1, <2>2, <2>3
<1>7. CASE ParseViewingActivity(g)
  <2>1. ReadStep(g, "parse", files[g].source = "good", "importing") /\ job[g] = "parse"
    BY <1>7 DEF ParseViewingActivity, ReadStep
  <2>2. level = "local"
    BY <1>1, <1>w, <2>1 DEF Working, level
  <2> QED BY <1>2, <1>3, <1>4, <2>1, <2>2
<1>8. CASE ValidateArtifacts(g)
  <2> DEFINE to == IF level = "local" THEN "rmsource" ELSE "rmoutcomes"
  <2>1. ReadStep(g, "validate", IsCurrent(g) /\ Intact(g), to)
    BY <1>8 DEF ValidateArtifacts, level
  <2>2. Intact(g) => W(to)
    BY <1>1, <1>2
  <2> HIDE DEF to
  <2> QED BY <1>3, <1>4, <2>1, <2>2
<1>9. CASE EnrichmentSource(g)
  <2>1. /\ job[g] = "source"
        /\ \E ok : ReadStep(g, "source", ok, "reconcile")
    BY <1>9 DEF EnrichmentSource, ReadStep
  <2>2. level = "tmdb"
    BY <1>1, <1>w, <2>1 DEF Working, TMDBSteps, level
  <2> QED BY <1>2, <1>3, <1>4, <2>1, <2>2
<1>10. CASE FinishEnrichment(g)
  <2>1. \E ok : ReadStep(g, "enrich", ok, "records")
    BY <1>10 DEF FinishEnrichment
  <2> QED BY <1>2, <1>3, <1>4, <2>1
<1> QED BY <1>5, <1>6, <1>7, <1>8, <1>9, <1>10

LEMMA WritesKeep ==
  ASSUME IInv, FInv, TypeOK', Calm, NEW g \in GenID, JobFrame,
         \/ WriteRecords(g) \/ WriteAnalytics(g) \/ RemoveStagedSource(g)
         \/ WriteOutcome(g) \/ RemoveOutcomes(g)
  PROVE  FInv'
<1> DEFINE f == files[g]
<1>0. job[g] \in {"records", "analytics", "rmsource", "enrich", "rmoutcomes"}
  BY DEF WriteRecords, WriteAnalytics, RemoveStagedSource, WriteOutcome, RemoveOutcomes, FileStep
<1>1. /\ mem.building = g /\ StateOf(mem, g) \in {"validating", "importing", "enriching"}
      /\ Working(mem, f, g, job[g]) /\ f \in GenFiles
      /\ mem.gens[g].level = "tmdb" => f.source = "none"
      /\ mem.gens[g].level = "local" => f.outcomes = {}
  BY <1>0, JobAlone DEF FInv, Kempt, IInv, TypeOK, Tidy
<1>2. UNCHANGED <<up, del, prov, phase, used>>
  BY DEF JobFrame, world, requests
<1> HIDE DEF f
<1>3. ASSUME NEW e, NEW from, NEW to, FileStep(g, from, e, to),
             mem.gens[g].level = "tmdb" => e.source = "none",
             mem.gens[g].level = "local" => e.outcomes = {},
             Working(mem, e, g, to)
      PROVE  FInv'
  BY <1>0, <1>2, <1>3, FileStepKeeps DEF FileStep, store
<1>4. CASE WriteRecords(g)
  <2> DEFINE e == [f EXCEPT !.records = TRUE]
  <2>1. FileStep(g, "records", e, "analytics")
    BY <1>4 DEF WriteRecords, f
  <2>2. e.source = f.source /\ e.outcomes = f.outcomes
    BY <1>1 DEF GenFiles
  <2> HIDE DEF e
  <2>3. Working(mem, e, g, "analytics")
    BY <1>1 DEF Working, TMDBSteps
  <2> QED BY <1>1, <1>3, <2>1, <2>2, <2>3
<1>5. CASE WriteAnalytics(g)
  <2> DEFINE e == [f EXCEPT !.analytics = TRUE]
  <2>1. FileStep(g, "analytics", e, "checkpoint")
    BY <1>5 DEF WriteAnalytics, f
  <2>2. e.source = f.source /\ e.outcomes = f.outcomes
    BY <1>1 DEF GenFiles
  <2> HIDE DEF e
  <2>3. Working(mem, e, g, "checkpoint")
    BY <1>1 DEF Working, TMDBSteps
  <2> QED BY <1>1, <1>3, <2>1, <2>2, <2>3
<1>6. CASE RemoveStagedSource(g)
  <2> DEFINE e == [f EXCEPT !.source = "none"]
  <2>1. FileStep(g, "rmsource", e, "activate") /\ job[g] = "rmsource"
    BY <1>6 DEF RemoveStagedSource, WithSource, FileStep, f
  <2>2. /\ e.source = "none" /\ e.outcomes = f.outcomes
        /\ e.records = f.records /\ e.analytics = f.analytics
    BY <1>1 DEF GenFiles
  <2> HIDE DEF e
  <2>3. mem.gens[g].level = "local" /\ f.records /\ f.analytics
    BY <1>1, <2>1 DEF Working
  <2>4. Working(mem, e, g, "activate")
    BY <1>1, <2>2, <2>3 DEF Working, TMDBSteps
  <2> QED BY <1>1, <1>3, <2>1, <2>2, <2>4
<1>7. CASE WriteOutcome(g)
  <2>1. PICK t : Update(g, [f EXCEPT !.outcomes = @ \cup {t}])
    BY <1>7 DEF WriteOutcome, f
  <2> DEFINE e == [f EXCEPT !.outcomes = @ \cup {t}]
  <2>2. job[g] = "enrich" /\ Go(g, "progress") /\ UNCHANGED <<mem, disk>>
    BY <1>7 DEF WriteOutcome, store
  <2>3. e.source = f.source
    BY <1>1 DEF GenFiles
  <2>4. Update(g, e)
    BY <2>1
  <2> HIDE DEF e
  <2>5. mem.gens[g].level = "tmdb"
    BY <1>1, <2>2 DEF Working, TMDBSteps
  <2>6. Working(mem, e, g, "progress")
    BY <1>1, <2>5 DEF Working, TMDBSteps
  <2> QED BY <1>0, <1>1, <1>2, <2>2, <2>3, <2>4, <2>5, <2>6, FileStepKeeps
<1>8. CASE RemoveOutcomes(g)
  <2> DEFINE e == [f EXCEPT !.outcomes = {}]
  <2>1. FileStep(g, "rmoutcomes", e, "clear") /\ job[g] = "rmoutcomes"
    BY <1>8 DEF RemoveOutcomes, FileStep, f
  <2>2. /\ e.source = f.source /\ e.outcomes = {}
        /\ e.records = f.records /\ e.analytics = f.analytics
    BY <1>1 DEF GenFiles
  <2> HIDE DEF e
  <2>3. mem.gens[g].level = "tmdb" /\ f.records /\ f.analytics
    BY <1>1, <2>1 DEF Working, TMDBSteps
  <2>4. Working(mem, e, g, "clear")
    BY <1>1, <2>2, <2>3 DEF Working, TMDBSteps
  <2> QED BY <1>1, <1>3, <2>1, <2>2, <2>4
<1> QED BY <1>4, <1>5, <1>6, <1>7, <1>8

LEMMA MutationsKeep ==
  ASSUME IInv, FInv, TypeOK', Calm, NEW g \in GenID, JobFrame,
         \/ RecordImporting(g) \/ RecordCheckpoint(g) \/ ActivateGeneration(g)
         \/ ReconcileEnrichmentProgress(g) \/ RecordEnrichmentProgress(g)
         \/ ClearCheckpointBytes(g)
  PROVE  FInv'
<1> DEFINE f == files[g]
           level == mem.gens[g].level
           state == StateOf(mem, g)
<1>0. /\ mem \in RepositoryState /\ f.outcomes \in SUBSET Titles
      /\ Working(mem, f, g, job[g])
  BY DEF IInv, TypeOK, FInv, Kempt, GenFiles
<1>1. job[g] \in {"importing", "checkpoint", "activate", "reconcile", "progress", "clear"}
  BY DEF RecordImporting, RecordCheckpoint, ActivateGeneration, ReconcileEnrichmentProgress,
         RecordEnrichmentProgress, ClearCheckpointBytes, MutateStep, ReadStep
<1>2. state \in {"validating", "importing", "enriching"}
  BY <1>1, JobAlone
<1>3. {"importing", "checkpoint", "activate", "reconcile", "progress", "clear"}
        \subseteq JobSteps \ {"idle", "finish"}
  BY DEF JobSteps, LocalSteps, TMDBSteps
<1> HIDE DEF f, level, state
\* A mutation that keeps the pointers and the files.
<1>4. ASSUME NEW from \in {"importing", "checkpoint", "reconcile", "progress", "clear"},
             NEW allowed, NEW next, NEW to \in {"records", "validate", "enrich", "activate"},
             NEW s \in {"validating", "importing", "enriching"},
             MutateStep(g, from, allowed, next, to),
             Changes(mem, next, g, s, level), Pointers(next) = Pointers(mem),
             to = "enrich" => level = "tmdb",
             to = "activate" =>
               f.records /\ f.analytics /\ f.source = "none" /\ f.outcomes = {}
      PROVE  FInv'
  BY <1>3, <1>4, MutateStepKeeps DEF f, level, TMDBSteps
<1>5. /\ Changes(mem, Imported(mem, g), g, "importing", level)
      /\ Pointers(Imported(mem, g)) = Pointers(mem)
      /\ Changes(mem, Checkpointed(mem, g), g, state, level)
      /\ Pointers(Checkpointed(mem, g)) = Pointers(mem)
      /\ Changes(mem, Progressed(mem, g, f.outcomes), g, state, level)
      /\ Pointers(Progressed(mem, g, f.outcomes)) = Pointers(mem)
      /\ Changes(mem, Cleared(mem, g), g, state, level)
      /\ Pointers(Cleared(mem, g)) = Pointers(mem)
  BY <1>0, StepChanges DEF level, state
<1>6. CASE RecordImporting(g)
  <2>1. \E allowed : MutateStep(g, "importing", allowed, Imported(mem, g), "records")
    BY <1>6 DEF RecordImporting
  <2> QED BY <1>4, <1>5, <2>1
<1>7. CASE RecordCheckpoint(g)
  <2>1. \E allowed : MutateStep(g, "checkpoint", allowed, Checkpointed(mem, g), "validate")
    BY <1>7 DEF RecordCheckpoint
  <2> QED BY <1>2, <1>4, <1>5, <2>1
<1>8. CASE ReconcileEnrichmentProgress(g)
  <2>1. job[g] = "reconcile"
    BY <1>8 DEF ReconcileEnrichmentProgress, ReadStep, MutateStep
  <2>2. level = "tmdb"
    BY <1>0, <2>1 DEF Working, TMDBSteps, level
  <2>3. \/ ReadStep(g, "reconcile", TRUE, "enrich")
        \/ \E allowed : MutateStep(g, "reconcile", allowed, Progressed(mem, g, f.outcomes), "enrich")
    BY <1>8, Zenon DEF ReconcileEnrichmentProgress, f
  <2>4. Working(mem, f, g, "enrich")
    BY <1>0, <2>1, <2>2 DEF Working, TMDBSteps, level
  <2>5. CASE ReadStep(g, "reconcile", TRUE, "enrich")
    BY <1>3, <2>4, <2>5, ReadStepKeeps DEF f
  <2> QED BY <1>2, <1>4, <1>5, <2>2, <2>3, <2>5
<1>9. CASE RecordEnrichmentProgress(g)
  <2>1. /\ \E allowed : MutateStep(g, "progress", allowed, Progressed(mem, g, f.outcomes), "enrich")
        /\ job[g] = "progress"
    BY <1>9 DEF RecordEnrichmentProgress, MutateStep, f
  <2>2. level = "tmdb"
    BY <1>0, <2>1 DEF Working, TMDBSteps, level
  <2> QED BY <1>2, <1>4, <1>5, <2>1, <2>2
<1>10. CASE ClearCheckpointBytes(g)
  <2>1. /\ \E allowed : MutateStep(g, "clear", allowed, Cleared(mem, g), "activate")
        /\ job[g] = "clear"
    BY <1>10 DEF ClearCheckpointBytes, MutateStep
  <2>2. f.records /\ f.analytics /\ f.source = "none" /\ f.outcomes = {}
    BY <1>0, <2>1 DEF Working
  <2> QED BY <1>2, <1>4, <1>5, <2>1, <2>2
<1>11. CASE ActivateGeneration(g)
  <2>1. /\ \E allowed : MutateStep(g, "activate", allowed, Activated(mem, g), "finish")
        /\ job[g] = "activate"
    BY <1>11 DEF ActivateGeneration, MutateStep
  <2>2. f.records /\ f.analytics /\ f.source = "none" /\ f.outcomes = {}
    BY <1>0, <2>1 DEF Working
  <2>3. /\ Changes(mem, Activated(mem, g), g, "ready", level)
        /\ Pointers(Activated(mem, g)) = <<g, None, mem.pending, mem.deleting>>
    BY <1>0, ActivatedChanges DEF level
  <2>4. PICK allowed : MutateStep(g, "activate", allowed, Activated(mem, g), "finish")
    BY <2>1
  <2> QED BY <1>3, <2>2, <2>3, <2>4, MutateStepKeeps DEF f, level, TMDBSteps
<1> QED BY <1>6, <1>7, <1>8, <1>9, <1>10, <1>11

LEMMA JobFailsKeep ==
  ASSUME IInv, FInv, TypeOK', Calm, NEW g \in GenID, JobFrame, JobFails(g) \/ JobFail(g)
  PROVE  FInv'
<1>0. /\ TypeOK /\ disk = mem /\ Kempt(g)
      /\ UNCHANGED <<up, del, prov, phase, used>>
  BY DEF IInv, FInv, JobFrame, world, requests
<1>1. job[g] \notin {"idle", "finish"}
  BY DEF JobFails, JobFail
<1>2. /\ mem.building = g /\ StateOf(mem, g) \in {"validating", "importing", "enriching"}
      /\ IsBuilding(mem, g)
  BY <1>1, JobAlone
<1>3. CASE JobFails(g) \/ (JobFail(g) /\ job[g] = "failing" /\ phase = "closing")
  <2>1. /\ UNCHANGED <<mem, disk, files>>
        /\ \E pc \in {"failing", "finish"} : job' = [job EXCEPT ![g] = pc]
    BY <1>3 DEF JobFails, JobFail, Go, store
  <2>2. \A pc \in {"failing", "finish"} : Working(mem, files[g], g, pc)
    BY <1>2 DEF Working, TMDBSteps
  <2>3. Tidy(mem, files[g], g)
    BY <1>0 DEF Kempt
  <2> QED BY <1>0, <1>1, <2>1, <2>2, <2>3, JobStepKeeps
<1>4. CASE job[g] = "failing" /\ FailRemove(g) /\ Go(g, "failmark")
  <2>1. files' = [files EXCEPT ![g] = NoFiles] /\ UNCHANGED <<mem, disk>>
    BY <1>0, <1>4, CalmFail
  <2>2. files'[g] = NoFiles /\ \A h \in GenID \ {g} : files'[h] = files[h]
    BY <1>0, <2>1 DEF TypeOK
  <2>3. Tidy(mem, NoFiles, g) /\ Working(mem, NoFiles, g, "failmark")
    BY <1>2 DEF Tidy, Working, TMDBSteps, NoFiles, Bare
  <2> QED BY <1>0, <1>1, <1>4, <2>1, <2>2, <2>3, JobStepKeeps DEF Go
<1>5. CASE job[g] = "failmark" /\ FailMark(g) /\ Go(g, "finish") /\ UNCHANGED files
  <2>1. CASE UNCHANGED <<mem, disk>>
    <3>1. Working(mem, files[g], g, "finish")
      BY <1>2 DEF Working, TMDBSteps
    <3>2. Tidy(mem, files[g], g)
      BY <1>0 DEF Kempt
    <3> QED BY <1>0, <1>1, <1>5, <2>1, <3>1, <3>2, JobStepKeeps DEF Go
  <2>2. CASE mem' = Failed(mem, g) /\ disk' = mem'
    <3>1. /\ Changes(mem, mem', g, "failed", mem.gens[g].level)
          /\ mem'.pending = mem.pending /\ mem'.deleting = mem.deleting
      BY <1>0, <1>2, <2>2, FailedChanges DEF TypeOK, Pointers
    <3>2. Bare(files[g])
      BY <1>0, <1>5 DEF Kempt, Working
    <3>3. Tidy(mem', files[g], g)
      BY <1>0, <3>1, <3>2 DEF Kempt, Tidy, Changes
    <3>4. Working(mem', files[g], g, "finish")
      BY <3>1 DEF Working, TMDBSteps, Changes
    <3>5. \A h \in GenID \ {g} : mem'.gens[h] = mem.gens[h]
      BY <3>1 DEF Changes
    <3> QED BY <1>0, <1>1, <1>5, <2>2, <3>1, <3>3, <3>4, <3>5, JobStepKeeps DEF Go
  <2> QED BY <1>0, <1>5, <2>1, <2>2, CalmFail
<1> QED BY <1>3, <1>4, <1>5 DEF JobFail

LEMMA JobKeeps ==
  ASSUME IInv, FInv, TypeOK', Calm, NEW g \in GenID, Job(g)
  PROVE  FInv'
<1>0. JobFrame
  BY DEF Job
<1>1. CASE JobFinish(g)
  <2>1. /\ job[g] = "finish" /\ job' = [job EXCEPT ![g] = "idle"]
        /\ UNCHANGED <<mem, disk, files, up, del, prov, phase, used>>
    BY <1>0, <1>1 DEF JobFinish, ReadStep, GoIf, Go, JobFrame, store, world, requests
  <2>2. \A h \in GenID : job'[h] = IF h = g THEN "idle" ELSE job[h]
    BY <2>1 DEF IInv, TypeOK
  <2>3. ASSUME NEW h \in GenID PROVE Kempt(h)'
    <3>1. Working(mem, files[h], h, "idle") /\ Kempt(h)
      BY DEF FInv, Working, TMDBSteps
    <3> QED BY <2>1, <2>2, <3>1 DEF Kempt, Uploading
  <2>4. ASSUME NEW d \in Deleters PROVE Removing(d)'
    <3>1. Removing(d)
      BY DEF FInv
    <3>2. del[d].pc \in {"check"} \cup Failing => del[d].gen \in GenID
      BY DEF IInv, TypeOK, NoDelete, DeleteRequest, Failing
    <3> QED BY <2>1, <2>2, <3>1, <3>2 DEF Removing
  <2>5. Clearing'
    BY <2>1, <2>2 DEF FInv, Clearing, NoUploads, NoJobs
  <2> QED BY <2>1, <2>3, <2>4, <2>5 DEF FInv
<1> QED
  BY <1>0, <1>1, ReadsKeep, WritesKeep, MutationsKeep, JobFailsKeep DEF Job, LocalJob, TMDBJob

-----------------------------------------------------------------------------
(* Deletions. *)

LEMMA DeleteGenerationKeeps ==
  ASSUME IInv, FInv, TypeOK', NEW d \in Deleters, NEW g \in GenID, DeleteGeneration(d, g)
  PROVE  FInv'
<1>1. /\ up[g] = "idle" /\ Exists(mem, g) /\ phase = "open" /\ ~mem.deleting
      /\ UNCHANGED <<mem, disk, files, up, job, prov, phase, used>>
      /\ \A e \in Deleters \ {d} : del'[e] = del[e]
      /\ del'[d].gen = g /\ del'[d].pc \in {"wait", "check", "mark"}
      /\ del'[d].pc = "check" => job[g] = "idle"
  BY DEF DeleteGeneration, DeleteFrame, Accepting, AfterWait, store, world, IInv, TypeOK
<1>2. g \in used
  BY <1>1 DEF IInv, DrawnIDs
<1>3. ASSUME NEW h \in GenID PROVE Kempt(h)'
  <2>1. Kempt(h)
    BY DEF FInv
  <2>2. \A e \in Deleters : del'[e].gen = h => del[e].gen = h \/ up[h] \notin Uploads
    BY <1>1 DEF Uploads
  <2>3. Uploading(h)'
    BY <1>1, <2>1, <2>2 DEF Kempt, Uploading
  <2> QED BY <1>1, <2>1, <2>3 DEF Kempt
<1>4. ASSUME NEW e \in Deleters PROVE Removing(e)'
  <2>1. CASE e = d
    BY <1>1, <1>2, <2>1 DEF Removing, Failing
  <2>2. CASE e # d
    <3>1. Removing(e) /\ del'[e] = del[e]
      BY <1>1, <2>2 DEF FInv
    <3> QED BY <1>1, <3>1 DEF Removing
  <2> QED BY <2>1, <2>2
<1>5. Clearing'
  BY <1>1 DEF FInv, Clearing, NoUploads, NoJobs
<1> QED BY <1>1, <1>3, <1>4, <1>5 DEF FInv

(* A step of a request for the deletion of g. *)
LEMMA DeleteStepKeeps ==
  ASSUME IInv, FInv, TypeOK', NEW d \in Deleters, NEW g \in GenID, g = del[d].gen,
         UNCHANGED <<up, job, prov, phase, used>>,
         \A e \in Deleters \ {d} : del'[e] = del[e],
         del'[d].gen \in {g, None}, Removing(d)',
         disk' = mem', mem'.deleting = mem.deleting,
         \A h \in GenID \ {g} : /\ mem'.gens[h] = mem.gens[h] /\ files'[h] = files[h]
                                /\ h \in mem'.pending <=> h \in mem.pending
                                /\ mem.building = h => mem'.building = h,
         Tidy(mem', files'[g], g), Working(mem', files'[g], g, job[g]),
         StateOf(mem', g) = "ready" => StateOf(mem, g) = "ready",
         files'[g] = files[g] \/ files'[g] = NoFiles,
         g \in mem.pending => g \in mem'.pending \/ ~Exists(mem', g),
         ~Exists(mem, g) => ~Exists(mem', g)
  PROVE  FInv'
<1>1. TypeOK /\ g # None
  BY NoneAssumption DEF IInv
<1>2. Touches(g)
  BY DEF Touches
<1>3. up[g] \notin Uploads
  BY DEF FInv, Kempt, Uploading
<1>4. Kempt(g)'
  BY <1>3 DEF Kempt, Uploading
<1>5. \A h \in GenID : Kempt(h)'
  <2>1. ASSUME NEW h \in GenID \ {g} PROVE Kempt(h)'
    <3>1. Kempt(h)
      BY DEF FInv
    <3>2. \A e \in Deleters : del'[e].gen = h => del[e].gen = h \/ up[h] \notin Uploads
      BY NoneAssumption
    <3> QED BY <1>2, <3>1, <3>2, OthersKempt
  <2> QED BY <1>4, <2>1
<1>6. ASSUME NEW e \in Deleters \ {d} PROVE Removing(e)'
  <2>1. Removing(e) /\ del'[e] = del[e]
    BY DEF FInv
  <2>2. CASE del[e].gen # g
    BY <1>1, <1>2, <2>1, <2>2, OthersRemoving
  <2>3. CASE del[e].gen = g
    <3>1. (Bare(files[g]) => Bare(files'[g])) /\ (Clean(files[g]) => Clean(files'[g]))
      BY NoFilesClean DEF Clean
    <3> QED BY <2>1, <2>3, <3>1, RemovingKept
  <2> QED BY <2>2, <2>3
<1>7. Clearing'
  <2>1. Clearing
    BY DEF FInv
  <2>2. prov = "reset" => files' = NoDirectories
    <3>1. ASSUME prov = "reset", NEW h \in GenID PROVE files'[h] = NoFiles
      BY <2>1, <3>1 DEF Clearing, NoDirectories
    <3> QED BY <3>1 DEF TypeOK, NoDirectories
  <2> QED BY <2>1, <2>2 DEF Clearing, NoUploads, NoJobs
<1> QED BY <1>5, <1>6, <1>7 DEF FInv

LEMMA DeleteKeeps ==
  ASSUME IInv, FInv, TypeOK', Calm, NEW d \in Deleters, Delete(d)
  PROVE  FInv'
<1> DEFINE g == del[d].gen
<1>0. /\ TypeOK /\ disk = mem /\ Removing(d)
      /\ UNCHANGED <<up, job, prov, phase, used>>
      /\ del[d].pc \in DeleteSteps
  BY DEF IInv, FInv, Delete, DeleteFrame, world, DeleteWait, DeleteCheck, DeleteFail,
         DeleteMark, DeleteDirectory, DeleteUnmark, DeleteSteps
<1>1. /\ g \in GenID /\ g \in used /\ Kempt(g) /\ mem \in RepositoryState
      /\ del[d] \in DeleteRequest
  BY <1>0 DEF Removing, TypeOK, NoDelete, DeleteRequest, DeleteSteps, FInv
<1>2. /\ DeleteEnd(d) => del'[d] = NoDelete /\ \A e \in Deleters \ {d} : del'[e] = del[e]
      /\ \A pc : DeleteGo(d, pc) =>
           /\ del'[d].pc = pc /\ del'[d].gen = g
           /\ \A e \in Deleters \ {d} : del'[e] = del[e]
  BY <1>0, <1>1 DEF DeleteEnd, DeleteGo, TypeOK, DeleteRequest
<1>3. del'[d] = NoDelete => Removing(d)' /\ del'[d].gen = None
  BY DEF Removing, NoDelete, Failing
\* nobody works on what a DELETE has found terminal, or waited for
<1>4. /\ del[d].pc \in {"check", "failing", "failmark"} => job[g] = "idle"
      /\ del[d].pc \in {"mark", "rmdir", "unmark"} =>
           Removable(mem, g) /\ job[g] \in {"idle", "finish"}
  <2>1. del[d].pc \in {"mark", "rmdir", "unmark"} => Removable(mem, g)
    BY DEF IInv, DeletersHold, Committed
  <2>2. Removable(mem, g) => job[g] \in {"idle", "finish"}
    BY <1>1 DEF Removable, Kempt, Working, IsBuilding, BuildingStates
  <2> QED BY <1>0, <2>1, <2>2 DEF Removing, Failing
<1> HIDE DEF g
\* where neither memory nor the files change
<1>5. ASSUME UNCHANGED <<mem, disk, files>>, del'[d].gen \in {g, None}, Removing(d)',
             \A e \in Deleters \ {d} : del'[e] = del[e]
      PROVE  FInv'
  BY <1>0, <1>1, <1>5, DeleteStepKeeps DEF g, Kempt
\* where only the files are removed
<1>6. ASSUME UNCHANGED <<mem, disk>>, files' = [files EXCEPT ![g] = NoFiles],
             del'[d].gen \in {g, None}, Removing(d)', Tidy(mem, NoFiles, g),
             job[g] \in {"idle", "finish"},
             \A e \in Deleters \ {d} : del'[e] = del[e]
      PROVE  FInv'
  <2>1. files'[g] = NoFiles /\ \A h \in GenID \ {g} : files'[h] = files[h]
    BY <1>0, <1>1, <1>6 DEF TypeOK
  <2>2. Working(mem, NoFiles, g, job[g])
    BY <1>1, <1>6 DEF Kempt, Working, TMDBSteps
  <2> QED BY <1>0, <1>1, <1>6, <2>1, <2>2, DeleteStepKeeps DEF g
\* where only memory changes, and g with it
<1>7. ASSUME NEW state, NEW level, Changes(mem, mem', g, state, level), disk' = mem',
             mem'.deleting = mem.deleting,
             \A h \in GenID \ {g} : /\ h \in mem'.pending <=> h \in mem.pending
                                    /\ mem.building = h => mem'.building = h,
             g \in mem.pending => g \in mem'.pending \/ state = "absent",
             StateOf(mem, g) = "absent" => state = "absent",
             UNCHANGED files, del'[d].gen \in {g, None}, Removing(d)',
             Tidy(mem', files[g], g), state \notin {"ready", "receiving"},
             job[g] \in {"idle", "finish"},
             \A e \in Deleters \ {d} : del'[e] = del[e]
      PROVE  FInv'
  <2>1. StateOf(mem', g) = state /\ \A h \in GenID \ {g} : mem'.gens[h] = mem.gens[h]
    BY <1>7 DEF Changes
  <2>2. Working(mem', files[g], g, job[g])
    BY <1>7, <2>1 DEF Working, TMDBSteps
  <2>3. /\ ~Exists(mem, g) => ~Exists(mem', g)
        /\ g \in mem.pending => g \in mem'.pending \/ ~Exists(mem', g)
    BY <1>7, <2>1 DEF Exists
  <2> QED BY <1>0, <1>1, <1>7, <2>1, <2>2, <2>3, DeleteStepKeeps DEF g
<1>8. CASE DeleteWait(d)
  <2>1. /\ UNCHANGED <<mem, disk, files>>
        /\ \/ job[g] = "idle" /\ DeleteGo(d, AfterWait(del[d].building))
           \/ DeleteEnd(d)
    BY <1>8 DEF DeleteWait, store, g
  <2>2. CASE DeleteEnd(d)
    BY <1>2, <1>3, <1>5, <2>1, <2>2
  <2>3. CASE job[g] = "idle" /\ DeleteGo(d, AfterWait(del[d].building))
    <3>1. /\ del'[d].pc \in {"check", "mark"} /\ del'[d].gen = g
          /\ \A e \in Deleters \ {d} : del'[e] = del[e]
      BY <1>2, <2>3 DEF AfterWait
    <3>2. Removing(d)'
      BY <1>0, <1>1, <2>3, <3>1 DEF Removing, Failing
    <3> QED BY <1>5, <2>1, <3>1, <3>2
  <2> QED BY <2>1, <2>2, <2>3
<1>9. CASE DeleteCheck(d)
  <2>1. /\ UNCHANGED <<mem, disk, files>> /\ del[d].pc = "check"
        /\ (IsBuilding(mem, g) /\ DeleteGo(d, "failing")) \/ DeleteEnd(d)
    BY <1>9 DEF DeleteCheck, store, g
  <2>2. CASE DeleteEnd(d)
    BY <1>2, <1>3, <1>5, <2>1, <2>2
  <2>3. CASE IsBuilding(mem, g) /\ DeleteGo(d, "failing")
    <3>1. StateOf(mem, g) # "ready"
      BY <2>3 DEF IsBuilding, BuildingStates
    <3>2. Removing(d)'
      BY <1>0, <1>1, <1>2, <1>4, <2>1, <2>3, <3>1 DEF Removing, Failing
    <3> QED BY <1>2, <1>5, <2>1, <2>3, <3>2
  <2> QED BY <2>1, <2>2, <2>3
<1>10. CASE del[d].pc = "failing" /\ FailRemove(g) /\ DeleteGo(d, "failmark")
  <2>1. files' = [files EXCEPT ![g] = NoFiles] /\ UNCHANGED <<mem, disk>>
    BY <1>0, <1>1, <1>10, CalmFail
  <2>2. StateOf(mem, g) # "ready" /\ job[g] = "idle"
    BY <1>0, <1>4, <1>10 DEF Removing, Failing, g
  <2>3. files'[g] = NoFiles
    BY <1>0, <1>1, <2>1 DEF TypeOK
  <2>4. Removing(d)'
    BY <1>0, <1>1, <1>2, <1>10, <2>1, <2>2, <2>3, NoFilesClean DEF Removing, Failing, Clean
  <2>5. Tidy(mem, NoFiles, g)
    BY <1>1, <2>2, NoFilesClean DEF Kempt, Tidy, Clean, Bare
  <2> QED BY <1>2, <1>6, <1>10, <2>1, <2>2, <2>4, <2>5
<1>11. CASE del[d].pc = "failmark" /\ FailMark(g) /\ DeleteEnd(d) /\ UNCHANGED files
  <2>1. CASE UNCHANGED <<mem, disk>>
    BY <1>2, <1>3, <1>5, <1>11, <2>1
  <2>2. CASE mem' = Failed(mem, g) /\ disk' = mem' /\ ~IsBuilding(mem, g)
    BY <1>0, <1>2, <1>3, <1>5, <1>11, <2>2 DEF Failed
  <2>3. CASE mem' = Failed(mem, g) /\ disk' = mem' /\ IsBuilding(mem, g)
    <3>1. /\ Changes(mem, mem', g, "failed", mem.gens[g].level)
          /\ Pointers(mem') =
               <<mem.active, Without(mem.building, g), mem.pending, mem.deleting>>
      BY <1>1, <2>3, FailedChanges
    <3>2. /\ mem'.pending = mem.pending /\ mem'.deleting = mem.deleting
          /\ \A h \in GenID \ {g} : mem.building = h => mem'.building = h
      BY <3>1 DEF Pointers, Without
    <3>3. Bare(files[g]) /\ job[g] = "idle"
      BY <1>0, <1>4, <1>11 DEF Removing, Failing, g
    <3>4. Tidy(mem', files[g], g)
      BY <1>1, <3>1, <3>2, <3>3 DEF Kempt, Tidy, Changes
    <3>5. StateOf(mem, g) # "absent"
      BY <2>3 DEF IsBuilding, BuildingStates
    <3> QED BY <1>2, <1>3, <1>7, <1>11, <2>3, <3>1, <3>2, <3>3, <3>4, <3>5
  <2> QED BY <1>0, <1>1, <1>11, <2>1, <2>2, <2>3, CalmFail
<1>12. CASE DeleteMark(d)
  <2>1. PICK ok \in BOOLEAN :
          /\ Mutate(mem.active # g /\ Exists(mem, g), MarkedPending(mem, g), ok)
          /\ IF ok THEN DeleteGo(d, "rmdir") ELSE DeleteEnd(d)
    BY <1>12 DEF DeleteMark, g
  <2>2. del[d].pc = "mark" /\ UNCHANGED files
    BY <1>12 DEF DeleteMark
  <2>3. \/ ok /\ mem' = MarkedPending(mem, g) /\ disk' = mem'
        \/ ~ok /\ UNCHANGED <<mem, disk>>
    BY <1>0, <2>1, CalmMutate
  <2>4. CASE ~ok /\ UNCHANGED <<mem, disk>>
    BY <1>2, <1>3, <1>5, <2>1, <2>2, <2>4
  <2>5. CASE ok /\ mem' = MarkedPending(mem, g) /\ disk' = mem'
    <3>1. /\ mem'.gens = mem.gens /\ mem'.pending = mem.pending \cup {g}
          /\ mem'.deleting = mem.deleting /\ mem'.building = Without(mem.building, g)
      BY <1>1, <2>5, MarkedChanges DEF Pointers
    <3>2. \A h : StateOf(mem', h) = StateOf(mem, h)
      BY <3>1 DEF StateOf
    <3>3. /\ del'[d].pc = "rmdir" /\ del'[d].gen = g
          /\ \A e \in Deleters \ {d} : del'[e] = del[e]
      BY <1>2, <2>1, <2>5
    <3>4. Removing(d)'
      BY <1>0, <1>1, <3>1, <3>3 DEF Removing, Failing
    <3>5. Tidy(mem', files[g], g)
      BY <1>1, <3>1, <3>2 DEF Kempt, Tidy
    <3>6. job[g] \in {"idle", "finish"} /\ StateOf(mem, g) # "receiving"
      BY <1>4, <2>2 DEF Removable, IsBuilding, BuildingStates
    <3>7. Working(mem', files[g], g, job[g])
      BY <3>2, <3>6 DEF Working, TMDBSteps
    <3>8. \A h \in GenID \ {g} : mem.building = h => mem'.building = h
      BY <3>1 DEF Without
    <3>9. Exists(mem', g) <=> Exists(mem, g)
      BY <3>2 DEF Exists
    <3> QED
      BY <1>0, <1>1, <2>2, <2>5, <3>1, <3>2, <3>3, <3>4, <3>5, <3>7, <3>8, <3>9,
         DeleteStepKeeps DEF g
  <2> QED BY <2>3, <2>4, <2>5
<1>13. CASE DeleteDirectory(d)
  <2>1. /\ files' = [files EXCEPT ![g] = NoFiles] /\ UNCHANGED <<mem, disk>>
        /\ del[d].pc = "rmdir" /\ DeleteGo(d, "unmark")
    BY <1>0, <1>13, CalmRemoval DEF DeleteDirectory, g
  <2>2. g \in mem.pending \/ ~Exists(mem, g)
    BY <1>0, <2>1 DEF Removing, g
  <2>3. files'[g] = NoFiles
    BY <1>0, <1>1, <2>1 DEF TypeOK
  <2>4. Removing(d)'
    BY <1>0, <1>1, <1>2, <2>1, <2>2, <2>3, NoFilesClean DEF Removing, Failing
  <2>5. Tidy(mem, NoFiles, g)
    BY <1>1, <2>2, NoFilesClean DEF Kempt, Tidy, Clean, Bare, Exists
  <2> QED BY <1>2, <1>4, <1>6, <2>1, <2>4, <2>5
<1>14. CASE DeleteUnmark(d)
  <2>1. /\ del[d].pc = "unmark" /\ UNCHANGED files /\ DeleteEnd(d)
        /\ \E ok \in BOOLEAN : Mutate(TRUE, Removed(mem, g), ok)
    BY <1>14 DEF DeleteUnmark, g
  <2>2. CASE UNCHANGED <<mem, disk>>
    BY <1>2, <1>3, <1>5, <2>1, <2>2
  <2>3. CASE mem' = Removed(mem, g) /\ disk' = mem'
    <3>1. /\ Changes(mem, mem', g, "absent", "none")
          /\ mem'.deleting = mem.deleting /\ mem'.pending = mem.pending \ {g}
          /\ \A h \in GenID \ {g} : mem.building = h => mem'.building = h
      BY <1>1, <2>3, RemovedChanges DEF Pointers, Without
    <3>2. Clean(files[g])
      BY <1>0, <2>1 DEF Removing, g
    <3>3. Tidy(mem', files[g], g)
      BY <3>1, <3>2 DEF Tidy, Changes
    <3> QED BY <1>2, <1>3, <1>4, <1>7, <2>1, <2>3, <3>1, <3>3
  <2> QED BY <1>0, <2>1, <2>2, <2>3, CalmMutate
<1> QED
  BY <1>8, <1>9, <1>10, <1>11, <1>12, <1>13, <1>14 DEF Delete, DeleteFail, g

-----------------------------------------------------------------------------
(* The provider's deletion, and the process. *)

LEMMA EmptyTidy ==
  ASSUME NEW g \in GenID
  PROVE  Tidy(EmptyState, NoFiles, g)
<1>1. StateOf(EmptyState, g) = "absent" /\ EmptyState.gens[g].level = "none"
  BY NoneAssumption DEF EmptyState, StateOf, Absent
<1> QED BY <1>1, NoFilesClean DEF Tidy

(* Everything is gone, and nobody at work but DELETEs that find nothing. *)
LEMMA EmptyKeeps ==
  ASSUME IInv, FInv, TypeOK', files = NoDirectories, NoUploads, NoJobs,
         mem' = EmptyState, disk' = mem', prov' = "idle",
         UNCHANGED <<files, up, job, del, used>>
  PROVE  FInv'
<1>1. \A g \in GenID : files[g] = NoFiles /\ up[g] = "idle" /\ job[g] = "idle"
  BY DEF NoDirectories, NoUploads, NoJobs
<1>2. \A g \in GenID : Kempt(g)'
  BY <1>1, EmptyTidy DEF Kempt, Uploading, Uploads, Working, TMDBSteps
<1>3. \A g \in GenID : StateOf(mem', g) = "absent"
  BY NoneAssumption DEF EmptyState, StateOf, Absent
<1>4. ASSUME NEW d \in Deleters PROVE Removing(d)'
  <2>1. Removing(d) /\ (del[d].pc # "idle" => del[d].gen \in GenID)
    BY DEF FInv, IInv, TypeOK, NoDelete, DeleteRequest
  <2> QED BY <1>1, <1>3, <2>1, NoFilesClean DEF Removing, Failing, Exists, Clean
<1> QED BY <1>2, <1>4 DEF FInv, Clearing

(* The files go first. *)
LEMMA ClearedKeeps ==
  ASSUME IInv, FInv, TypeOK', mem.deleting, NoUploads, NoJobs, files' = NoDirectories,
         UNCHANGED <<mem, disk, up, job, del, phase, used>>,
         prov' = prov \/ (prov = "remove" /\ prov' = "reset")
  PROVE  FInv'
<1>1. \A g \in GenID : files'[g] = NoFiles /\ up[g] = "idle" /\ job[g] = "idle"
  BY DEF NoDirectories, NoUploads, NoJobs
<1>2. ASSUME NEW g \in GenID PROVE Kempt(g)'
  <2>1. Tidy(mem, NoFiles, g)
    BY NoFilesClean DEF FInv, Kempt, Tidy, Clean, Bare
  <2> QED BY <1>1, <2>1 DEF Kempt, Uploading, Uploads, Working, TMDBSteps
<1>3. ASSUME NEW d \in Deleters PROVE Removing(d)'
  <2>1. Removing(d) /\ (del[d].pc # "idle" => del[d].gen \in GenID)
    BY DEF FInv, IInv, TypeOK, NoDelete, DeleteRequest
  <2> QED BY <1>1, <2>1, NoFilesClean DEF Removing, Failing, Clean
<1>4. Clearing'
  BY DEF FInv, Clearing, NoUploads, NoJobs
<1> QED BY <1>2, <1>3, <1>4 DEF FInv

LEMMA ProviderKeeps ==
  ASSUME IInv, FInv, TypeOK', Calm, DeleteProvider \/ Provider
  PROVE  FInv'
<1>0. TypeOK /\ disk = mem /\ UNCHANGED <<phase, used, up, job, del>>
  BY DEF IInv, FInv, DeleteProvider, Provider, ProviderWait, ProviderRemove, ProviderReset,
         ProviderFrame, world
<1>1. CASE DeleteProvider
  <2>1. PICK ok \in BOOLEAN :
          /\ Mutate(TRUE, MarkedDeleting(mem), ok)
          /\ prov' = IF ok THEN "wait" ELSE "idle"
    BY <1>1 DEF DeleteProvider
  <2>2. prov = "idle" /\ phase = "open" /\ NoUploads /\ UNCHANGED files
    BY <1>1 DEF DeleteProvider, Accepting
  <2>3. CASE ~ok /\ mem' = mem /\ disk' = disk
    BY <1>0, <2>1, <2>2, <2>3, SameKeeps
  <2>4. CASE ok /\ mem' = MarkedDeleting(mem) /\ disk' = mem'
    <3>1. /\ mem'.gens = mem.gens /\ mem'.building = mem.building
          /\ mem'.pending = mem.pending /\ mem'.deleting
      BY <1>0, <2>4 DEF MarkedDeleting, TypeOK, RepositoryState
    <3>2. \A h : StateOf(mem', h) = StateOf(mem, h)
      BY <3>1 DEF StateOf
    <3>3. ASSUME NEW h \in GenID PROVE Kempt(h)'
      <4>1. Kempt(h) /\ up[h] = "idle"
        BY <2>2 DEF FInv, NoUploads
      <4>2. Tidy(mem', files[h], h) /\ Working(mem', files[h], h, job[h])
        BY <3>1, <3>2, <4>1 DEF Kempt, Tidy, Working
      <4> QED BY <1>0, <2>2, <4>1, <4>2 DEF Kempt, Uploading, Uploads
    <3>4. ASSUME NEW d \in Deleters PROVE Removing(d)'
      <4>1. Removing(d)
        BY DEF FInv
      <4> QED BY <1>0, <2>2, <3>1, <3>2, <4>1 DEF Removing, Exists
    <3>5. Clearing'
      BY <1>0, <2>1, <2>2, <2>4, <3>1 DEF Clearing, NoUploads
    <3> QED BY <2>4, <3>3, <3>4, <3>5 DEF FInv
  <2> QED BY <1>0, <2>1, <2>3, <2>4, CalmMutate
<1>2. CASE ProviderWait
  <2>1. /\ prov = "wait" /\ NoJobs /\ prov' = "remove" /\ UNCHANGED <<mem, disk, files>>
    BY <1>2 DEF ProviderWait, store
  <2>2. \A h \in GenID : Kempt(h)'
    BY <1>0, <2>1 DEF FInv, Kempt, Uploading
  <2>3. \A d \in Deleters : Removing(d)'
    BY <1>0, <2>1 DEF FInv, Removing
  <2>4. Clearing'
    BY <1>0, <2>1 DEF FInv, Clearing, NoUploads, NoJobs
  <2> QED BY <1>0, <2>1, <2>2, <2>3, <2>4 DEF FInv
<1>3. CASE ProviderRemove
  <2>1. /\ prov = "remove" /\ prov' = "reset" /\ files' = NoDirectories
        /\ UNCHANGED <<mem, disk>>
    BY <1>0, <1>3, CalmRemoval DEF ProviderRemove
  <2>2. mem.deleting /\ NoUploads /\ NoJobs
    BY <2>1 DEF FInv, Clearing
  <2> QED BY <1>0, <2>1, <2>2, ClearedKeeps
<1>4. CASE ProviderReset
  <2>1. /\ prov = "reset" /\ prov' = "idle" /\ UNCHANGED files
        /\ \E ok \in BOOLEAN : Mutate(TRUE, EmptyState, ok)
    BY <1>4 DEF ProviderReset
  <2>2. NoUploads /\ NoJobs /\ files = NoDirectories
    BY <2>1 DEF FInv, Clearing
  <2>3. CASE mem' = EmptyState /\ disk' = mem'
    BY <1>0, <2>1, <2>2, <2>3, EmptyKeeps
  <2>4. CASE UNCHANGED <<mem, disk>>
    <3>1. \A h \in GenID : Kempt(h)'
      BY <1>0, <2>1, <2>4 DEF FInv, Kempt, Uploading
    <3>2. \A d \in Deleters : Removing(d)'
      BY <1>0, <2>1, <2>4 DEF FInv, Removing
    <3> QED BY <1>0, <2>1, <2>4, <3>1, <3>2 DEF FInv, Clearing
  <2> QED BY <1>0, <2>1, <2>3, <2>4, CalmMutate
<1> QED BY <1>1, <1>2, <1>3, <1>4 DEF Provider

(* The process comes up, or goes down, with the state it has stored. *)
LEMMA IdleKeeps ==
  ASSUME IInv, FInv, TypeOK', mem' = mem, disk' = disk, UNCHANGED <<files, used>>,
         \A g \in GenID : up'[g] = "idle" /\ job'[g] = "idle",
         \A d \in Deleters : del'[d].pc = "idle", prov' = "idle"
  PROVE  FInv'
<1>1. ASSUME NEW g \in GenID PROVE Kempt(g)'
  BY DEF FInv, Kempt, Uploading, Uploads, Working, TMDBSteps
<1>2. \A d \in Deleters : Removing(d)'
  BY DEF Removing, Failing
<1> QED BY <1>1, <1>2 DEF FInv, Clearing

(* What is at rest outside of an open workspace. *)
LEMMA Resting ==
  ASSUME IInv, FInv, phase # "open"
  PROVE  /\ prov = "idle" /\ \A d \in Deleters : del[d].pc = "idle"
         /\ phase \in {"down", "recover"} => NoJobs /\ NoUploads
  BY DEF IInv, PhasesHold, FInv, Clearing

LEMMA ProcessKeeps ==
  ASSUME IInv, FInv, TypeOK', Open \/ Close \/ Closed \/ Crash
  PROVE  FInv'
<1>0. disk = mem /\ UNCHANGED <<files, used>> /\ TypeOK
  BY DEF FInv, IInv, Open, OpenFrame, Close, Closed, Crash
<1>1. CASE Open
  <2>1. /\ mem' = mem /\ disk' = disk /\ UNCHANGED <<up, job, del, prov>> /\ phase = "down"
    BY <1>0, <1>1 DEF Open, OpenFrame, requests
  <2> QED BY <1>0, <2>1, Resting, IdleKeeps DEF NoJobs, NoUploads
<1>2. CASE Close
  <2>1. /\ UNCHANGED <<mem, disk, up, job, del, prov>> /\ prov = "idle"
    BY <1>2 DEF Close, NoRequests, store, requests
  <2>2. \A h \in GenID : Kempt(h)'
    BY <1>0, <2>1 DEF FInv, Kempt, Uploading
  <2>3. \A d \in Deleters : Removing(d)'
    BY <1>0, <2>1 DEF FInv, Removing
  <2> QED BY <1>0, <2>1, <2>2, <2>3 DEF FInv, Clearing
<1>3. CASE Closed
  <2>1. /\ mem' = mem /\ disk' = disk /\ UNCHANGED <<up, job, del, prov>>
        /\ NoJobs /\ NoUploads /\ phase = "closing"
    BY <1>0, <1>3 DEF Closed, Down, requests
  <2> QED BY <1>0, <2>1, Resting, IdleKeeps DEF NoJobs, NoUploads
<1>4. CASE Crash
  <2>1. /\ mem' = mem /\ disk' = disk /\ prov' = "idle"
        /\ \A g \in GenID : up'[g] = "idle" /\ job'[g] = "idle"
        /\ \A d \in Deleters : del'[d].pc = "idle"
    BY <1>0, <1>4 DEF Crash, Down, NoDelete
  <2> QED BY <1>0, <2>1, IdleKeeps
<1> QED BY <1>1, <1>2, <1>3, <1>4

(* A step of recovery, before there are jobs and requests. *)
LEMMA RecoveryKeeps ==
  ASSUME IInv, FInv, TypeOK', phase = "recover", NEW g \in GenID, Touches(g),
         Tidy(mem', files'[g], g), Working(mem', files'[g], g, job'[g]),
         UNCHANGED <<up, del, prov, used>>
  PROVE  FInv'
<1>1. prov = "idle" /\ NoUploads /\ \A d \in Deleters : del[d].pc = "idle"
  BY Resting
<1>2. Kempt(g)'
  BY <1>1 DEF Kempt, Uploading, Uploads, NoUploads
<1>3. ASSUME NEW h \in GenID \ {g} PROVE Kempt(h)'
  BY OthersKempt DEF FInv
<1>4. \A d \in Deleters : Removing(d)'
  BY <1>1 DEF Removing, Failing
<1>5. \A h \in GenID : Kempt(h)'
  BY <1>2, <1>3
<1> QED BY <1>1, <1>4, <1>5 DEF FInv, Clearing, Touches

LEMMA RecoverPendingKeeps ==
  ASSUME IInv, FInv, TypeOK', Calm, NEW g \in GenID, RecoverPending(g)
  PROVE  FInv'
<1>0. /\ TypeOK /\ disk = mem /\ phase = "recover" /\ ~mem.deleting /\ g \in mem.pending
      /\ UNCHANGED <<used, up, job, del, prov>>
      /\ Kempt(g) /\ NoJobs /\ NoUploads
  BY Resting DEF FInv, IInv, RecoverPending, OpenFrame, requests
<1>1. CASE files[g] = NoFiles
  <2>1. UNCHANGED files /\ \E ok \in BOOLEAN : Mutate(TRUE, Removed(mem, g), ok)
    BY <1>1, <1>0, Zenon DEF RecoverPending
  <2>2. CASE UNCHANGED <<mem, disk>>
    BY <1>0, <2>1, <2>2, IdleKeeps, Resting DEF NoJobs, NoUploads
  <2>3. CASE mem' = Removed(mem, g) /\ disk' = mem'
    <3>1. /\ Changes(mem, mem', g, "absent", "none")
          /\ mem'.deleting = mem.deleting /\ mem'.pending = mem.pending \ {g}
          /\ \A h \in GenID \ {g} : mem.building = h => mem'.building = h
      BY <1>0, <2>3, RemovedChanges DEF Pointers, Without, TypeOK
    <3>2. Touches(g)
      BY <1>0, <2>1, <2>3, <3>1 DEF Touches, Changes
    <3>3. Tidy(mem', files'[g], g)
      BY <1>1, <2>1, <3>1, NoFilesClean DEF Tidy, Changes
    <3>4. Working(mem', files'[g], g, job'[g])
      BY <1>0 DEF NoJobs, Working, TMDBSteps
    <3> QED BY <1>0, <3>2, <3>3, <3>4, RecoveryKeeps
  <2> QED BY <1>0, <2>1, <2>2, <2>3, CalmMutate
<1>2. CASE files[g] # NoFiles
  <2>1. \E ok \in BOOLEAN : RemoveDirectory(g, ok) /\ (ok => UNCHANGED <<mem, disk>>)
    BY <1>2, <1>0, Zenon DEF RecoverPending
  <2>2. files' = [files EXCEPT ![g] = NoFiles] /\ UNCHANGED <<mem, disk>>
    BY <1>0, <2>1, CalmRemoval
  <2>3. files'[g] = NoFiles /\ \A h \in GenID \ {g} : files'[h] = files[h]
    BY <1>0, <2>2 DEF TypeOK
  <2>4. Touches(g)
    BY <1>0, <2>2, <2>3 DEF Touches
  <2>5. Tidy(mem', files'[g], g)
    BY <1>0, <2>2, <2>3, NoFilesClean DEF Kempt, Tidy, Clean, Bare
  <2>6. Working(mem', files'[g], g, job'[g])
    BY <1>0 DEF NoJobs, Working, TMDBSteps
  <2> QED BY <1>0, <2>4, <2>5, <2>6, RecoveryKeeps
<1> QED BY <1>1, <1>2

LEMMA RecoverBuildingKeeps ==
  ASSUME IInv, FInv, TypeOK', Calm, RecoverBuilding
  PROVE  FInv'
<1> DEFINE g == mem.building
           receiving == StateOf(mem, g) = "receiving"
<1>0. /\ TypeOK /\ disk = mem /\ phase = "recover"
      /\ UNCHANGED <<used, up, del, prov>>
      /\ NoJobs /\ NoUploads /\ prov = "idle" /\ \A d \in Deleters : del[d].pc = "idle"
  BY Resting DEF FInv, IInv, RecoverBuilding, OpenFrame, requests
<1>1. /\ IF receiving THEN Unstage(g) ELSE UNCHANGED files
      /\ IF receiving /\ Staged(g)
           THEN \E ok \in BOOLEAN :
                  /\ Mutate(TRUE, Validated(mem, g), ok)
                  /\ job' = IF ok THEN [job EXCEPT ![g] = "begin"] ELSE job
           ELSE /\ UNCHANGED store
                /\ job' = IF g = None \/ receiving THEN job ELSE [job EXCEPT ![g] = "begin"]
  BY Zenon DEF RecoverBuilding
<1> HIDE DEF g
<1>2. CASE g = None
  <2>1. ~receiving
    BY <1>2 DEF StateOf
  <2>2. UNCHANGED <<mem, disk, files, job>>
    BY <1>1, <1>2, <2>1 DEF store
  <2> QED BY <1>0, <2>2, IdleKeeps DEF NoJobs, NoUploads
<1>3. CASE g # None
  <2>1. /\ g \in GenID /\ IsBuilding(mem, g) /\ Kempt(g) /\ mem \in RepositoryState
        /\ files[g] \in GenFiles /\ job[g] = "idle"
    BY <1>0, <1>3 DEF g, TypeOK, RepositoryState, IInv, Sound, Consistent, ValidPointers, FInv,
                      NoJobs
  <2>2. \A f : Update(g, f) => files'[g] = f /\ \A h \in GenID \ {g} : files'[h] = files[h]
    BY <1>0, <2>1 DEF Update, TypeOK
  <2>3. WithSource(g, "none").outcomes = files[g].outcomes
    BY <2>1 DEF WithSource, GenFiles
  <2>4. \A h \in GenID \ {g} : files'[h] = files[h]
    BY <1>1, <2>2 DEF Unstage
  <2>5. files'[g] = files[g] \/ (receiving /\ files'[g].outcomes = files[g].outcomes)
    BY <1>1, <2>2, <2>3 DEF Unstage
  <2>6. receiving => mem.gens[g].level = "local" /\ files'[g].outcomes = {}
    <3>1. SUFFICES ASSUME receiving
                   PROVE  mem.gens[g].level = "local" /\ files'[g].outcomes = {}
      OBVIOUS
    <3>2. ValidGeneration(mem.gens[g]) /\ mem.gens[g].state = "receiving"
      BY <1>3, <2>1, <3>1 DEF IInv, Sound, Consistent, Exists, StateOf
    <3>3. mem.gens[g].level = "local"
      BY <3>2 DEF ValidGeneration
    <3>4. files[g].outcomes = {}
      BY <2>1, <3>3 DEF Kempt, Tidy
    <3> QED BY <2>5, <3>3, <3>4
  <2>7. CASE UNCHANGED <<mem, disk>> /\ (job' = job \/ (~receiving /\ job' = [job EXCEPT ![g] = "begin"]))
    <3>1. \/ \A h \in GenID : job'[h] = job[h]
          \/ /\ ~receiving /\ job'[g] = "begin"
             /\ \A h \in GenID \ {g} : job'[h] = job[h]
      BY <1>0, <2>1, <2>7 DEF TypeOK
    <3>2. Touches(g)
      BY <1>0, <2>4, <2>7, <3>1 DEF Touches
    <3>3. Tidy(mem', files'[g], g)
      <4>1. CASE receiving
        BY <2>6, <2>7, <4>1 DEF Tidy
      <4>2. CASE ~receiving
        BY <2>1, <2>5, <2>7, <4>2 DEF Kempt, Tidy
      <4> QED BY <4>1, <4>2
    <3>4. ~receiving => StateOf(mem, g) \in {"validating", "importing", "enriching"}
      BY <2>1 DEF IsBuilding, BuildingStates
    <3>5. Working(mem', files'[g], g, job'[g])
      BY <2>1, <2>7, <3>1, <3>4 DEF Working, TMDBSteps, g
    <3> QED BY <1>0, <2>1, <3>2, <3>3, <3>5, RecoveryKeeps
  <2>8. CASE /\ receiving /\ mem' = Validated(mem, g) /\ disk' = mem'
             /\ job' = [job EXCEPT ![g] = "begin"]
    <3>1. /\ Changes(mem, mem', g, "validating", mem.gens[g].level)
          /\ Pointers(mem') = Pointers(mem)
      BY <2>1, <2>8, StepChanges
    <3>2. /\ mem'.building = g /\ mem'.deleting = mem.deleting /\ mem'.pending = mem.pending
          /\ job'[g] = "begin" /\ \A h \in GenID \ {g} : job'[h] = job[h]
      BY <1>0, <2>1, <2>8, <3>1 DEF Pointers, g, TypeOK
    <3>3. Touches(g)
      BY <1>0, <2>4, <2>8, <3>1, <3>2 DEF Touches, Changes, g
    <3>4. Tidy(mem', files'[g], g)
      BY <2>6, <2>8, <3>1 DEF Tidy, Changes
    <3>5. Working(mem', files'[g], g, job'[g])
      BY <3>1, <3>2 DEF Working, TMDBSteps, Changes
    <3> QED BY <1>0, <2>1, <3>3, <3>4, <3>5, RecoveryKeeps
  <2>9. CASE receiving /\ Staged(g)
    <3>1. PICK ok \in BOOLEAN : /\ Mutate(TRUE, Validated(mem, g), ok)
                                /\ job' = IF ok THEN [job EXCEPT ![g] = "begin"] ELSE job
      BY <1>1, <2>9
    <3>2. \/ ok /\ mem' = Validated(mem, g) /\ disk' = mem'
          \/ ~ok /\ UNCHANGED <<mem, disk>>
      BY <1>0, <3>1, CalmMutate
    <3> QED BY <2>7, <2>8, <2>9, <3>1, <3>2
  <2>10. CASE ~(receiving /\ Staged(g))
    BY <1>1, <1>3, <2>7, <2>10 DEF store
  <2> QED BY <2>9, <2>10
<1> QED BY <1>2, <1>3

LEMMA RecoverProviderKeeps ==
  ASSUME IInv, FInv, TypeOK', Calm, RecoverProvider
  PROVE  FInv'
<1>0. /\ TypeOK /\ disk = mem /\ phase = "recover" /\ mem.deleting
      /\ UNCHANGED <<used, up, job, del, prov>>
      /\ NoJobs /\ NoUploads /\ prov = "idle" /\ \A d \in Deleters : del[d].pc = "idle"
  BY Resting DEF FInv, IInv, RecoverProvider, OpenFrame, requests
<1>1. CASE files = NoDirectories /\ ~cacheFile
  <2>1. UNCHANGED files /\ \E ok \in BOOLEAN : Mutate(TRUE, EmptyState, ok)
    BY <1>1, Zenon DEF RecoverProvider
  <2>2. CASE UNCHANGED <<mem, disk>>
    BY <1>0, <2>1, <2>2, IdleKeeps DEF NoJobs, NoUploads
  <2>3. CASE mem' = EmptyState /\ disk' = mem'
    BY <1>0, <1>1, <2>1, <2>3, EmptyKeeps
  <2> QED BY <1>0, <2>1, <2>2, <2>3, CalmMutate
<1>2. CASE ~(files = NoDirectories /\ ~cacheFile)
  <2>1. \/ RemoveEverything(TRUE) /\ UNCHANGED <<mem, disk, refused, phase>>
        \/ RemoveEverything(FALSE)
    BY <1>2, Zenon DEF RecoverProvider
  <2>2. files' = NoDirectories /\ UNCHANGED <<mem, disk, phase>>
    BY <1>0, <2>1, CalmRemoval
  <2> QED BY <1>0, <2>2, ClearedKeeps
<1> QED BY <1>1, <1>2

LEMMA FilesStep == Calm /\ IInv /\ IInv' /\ FInv /\ [Next]_vars => FInv'
<1> SUFFICES ASSUME Calm, IInv, IInv', FInv, [Next]_vars PROVE FInv'
  OBVIOUS
<1>0. TypeOK'
  BY DEF IInv
<1>1. CASE UNCHANGED vars
  BY <1>1, SameKeeps DEF vars
<1>2. CASE Request
  <2>1. CASE \E g \in GenID, d \in Deleters : DeleteGeneration(d, g)
    BY <1>0, <2>1, DeleteGenerationKeeps
  <2>2. CASE \E g \in GenID : \/ CreateLocalGeneration(g) \/ CreateTMDBGeneration(g)
                             \/ CommitTMDBGeneration(g)
    BY <1>0, <2>2, CreateKeeps
  <2>3. CASE \E g \in GenID : UploadStart(g) \/ SetProfileLabel(g)
    BY <1>0, <2>3, UploadStartKeeps, LabelKeeps
  <2>4. CASE ValidateSource
    BY <2>4, SameKeeps DEF ValidateSource, store, world
  <2>5. CASE DeleteProvider
    BY <1>0, <2>5, ProviderKeeps
  <2> QED BY <1>2, <2>1, <2>2, <2>3, <2>4, <2>5 DEF Request
<1>3. CASE \E g \in GenID : Upload(g) \/ Job(g)
  BY <1>0, <1>3, UploadKeeps, JobKeeps
<1>4. CASE \E d \in Deleters : Delete(d)
  BY <1>0, <1>4, DeleteKeeps
<1>5. CASE Provider
  BY <1>0, <1>5, ProviderKeeps
<1>6. CASE Recover
  BY <1>0, <1>6, RecoverProviderKeeps, RecoverPendingKeeps, RecoverBuildingKeeps DEF Recover
<1>7. CASE Open \/ Close \/ Closed \/ Crash
  BY <1>0, <1>7, ProcessKeeps
<1> QED BY <1>1, <1>2, <1>3, <1>4, <1>5, <1>6, <1>7 DEF Next

(***************************************************************************)
(* Where storage works and no upload starts under a DELETE of its          *)
(* generation, the state file is never ahead of memory, and the files are  *)
(* those the states call for, whatever requests, jobs and crashes          *)
(* interleave.                                                             *)
(***************************************************************************)
THEOREM FilesFollow == ASSUME Calm PROVE Spec => [](IInv /\ FInv)
<1>1. Init => FInv
  <2> SUFFICES ASSUME Init PROVE FInv
    OBVIOUS
  <2>1. mem = EmptyState /\ disk = mem
    BY DEF Init
  <2>2. \A g \in GenID : files[g] = NoFiles /\ up[g] = "idle" /\ job[g] = "idle"
    BY DEF Init, NoDirectories
  <2>3. \A g \in GenID : Kempt(g)
    BY <2>1, <2>2, EmptyTidy DEF Kempt, Uploading, Uploads, Working, TMDBSteps
  <2>4. \A d \in Deleters : del[d].pc = "idle"
    BY DEF Init, NoDelete
  <2>5. \A d \in Deleters : Removing(d)
    BY <2>4 DEF Removing, Failing
  <2> QED BY <2>1, <2>3, <2>5 DEF FInv, Clearing, Init
<1>2. IInv /\ IInv' /\ FInv /\ [Next]_vars => FInv'
  BY FilesStep
<1> QED BY <1>1, <1>2, Inductive, PTL DEF Spec

LEMMA ReadyIntact ==
  ASSUME IInv, FInv, NEW g \in GenID, StateOf(mem, g) = "ready", g \notin mem.pending,
         ~mem.deleting
  PROVE  Intact(g)
  BY DEF FInv, Kempt, Tidy, Intact

(* The active generation has its records and analytics on disk at every     *)
(* moment: no job, request, recovery or crash takes them away.              *)
THEOREM ActiveStaysIntact == ASSUME Calm PROVE Spec => []ActiveIntact
<1>1. IInv /\ FInv => ActiveIntact
  <2> SUFFICES ASSUME IInv, FInv, mem.active # None, ~mem.deleting PROVE Intact(mem.active)
    BY DEF ActiveIntact, FInv
  <2>1. StateOf(mem, mem.active) = "ready" /\ mem.active \notin mem.pending
    BY DEF IInv, Sound, Consistent, ValidPointers, ValidPending
  <2>2. mem.active \in GenID
    BY DEF IInv, TypeOK, RepositoryState
  <2> QED BY <2>1, <2>2, ReadyIntact
<1> QED BY <1>1, FilesFollow, PTL

(* The source of an enriched generation stays ready and complete, though it *)
(* is not active any more and DELETE may be asked for it.                   *)
THEOREM SourcesStayIntact == ASSUME Calm PROVE Spec => []SourcesIntact
<1>1. IInv /\ FInv => SourcesIntact
  <2> SUFFICES ASSUME IInv, FInv, ~mem.deleting, NEW g \in GenID, mem.gens[g].level = "tmdb"
               PROVE  IsReadyLocal(mem, mem.gens[g].src) /\ Intact(mem.gens[g].src)
    BY DEF SourcesIntact
  <2> DEFINE source == mem.gens[g].src
  <2>1. Exists(mem, g)
    BY DEF FInv, Kempt, Tidy, Exists
  <2>2. IsReadyLocal(mem, source)
    BY <2>1 DEF IInv, Sound, Consistent, ValidSources
  <2>3. source \in GenID /\ StateOf(mem, source) = "ready"
    <3>1. source \in GenID \cup {None}
      BY GenType DEF IInv, TypeOK, Generation
    <3> QED BY <2>2, <3>1 DEF IsReadyLocal, StateOf
  <2>4. source \notin mem.pending
    <3>1. g \in Derived(mem, source)
      BY <2>1 DEF Derived
    <3> QED BY <3>1 DEF IInv, Sound
  <2> QED BY <2>2, <2>3, <2>4, ReadyIntact
<1> QED BY <1>1, FilesFollow, PTL

(* Nothing of a build outlives it, and nothing is left on disk of what the  *)
(* state has forgotten, unless a profile label is written too late.         *)
THEOREM PayloadIsRemoved == ASSUME Calm, ~Labelling PROVE Spec => []PayloadRemoved
<1>1. IInv /\ FInv => PayloadRemoved
  <2> SUFFICES ASSUME IInv, FInv, NEW g \in GenID
               PROVE  /\ StateOf(mem, g) = "ready" =>
                           files[g].source = "none" /\ files[g].outcomes = {}
                      /\ StateOf(mem, g) = "failed" => [files[g] EXCEPT !.label = FALSE] = NoFiles
                      /\ ~Exists(mem, g) => files[g] = NoFiles
    BY DEF PayloadRemoved
  <2>1. Tidy(mem, files[g], g) /\ files[g] \in GenFiles
    BY DEF FInv, Kempt, IInv, TypeOK
  <2>2. StateOf(mem, g) = "failed" => [files[g] EXCEPT !.label = FALSE] = NoFiles
    BY <2>1, CleanNoFiles DEF Tidy
  <2>3. ~Exists(mem, g) => files[g] = NoFiles
    BY <2>1, CleanNoFiles DEF Tidy, Exists
  <2> QED BY <2>1, <2>2, <2>3 DEF Tidy
<1> QED BY <1>1, FilesFollow, PTL

(* A job or an upload that still writes has the building generation to      *)
(* itself: no DELETE and no DeleteProvider removes files below it.          *)
THEOREM WritersApart == ASSUME Calm PROVE Spec => []OneWriter
<1>1. IInv /\ FInv => OneWriter
  <2> SUFFICES ASSUME IInv, FInv, NEW g \in GenID
               PROVE  /\ JobWorks(g) \/ UploadWorks(g) =>
                           mem.building = g /\ prov \notin {"remove", "reset"}
                      /\ ~(JobWorks(g) /\ UploadWorks(g))
                      /\ DeleteWorks(g) => ~JobWorks(g) /\ ~UploadWorks(g)
    BY DEF OneWriter
  <2>1. UploadWorks(g) => up[g] \in Uploads
    BY DEF UploadWorks, Uploads, UploadSteps, IInv, TypeOK
  <2>2. JobWorks(g) =>
          /\ mem.building = g /\ up[g] \notin Uploads /\ prov \notin {"remove", "reset"}
          /\ \A d \in Deleters : del[d].gen = g => del[d].pc = "wait"
    BY JobAlone DEF JobWorks
  <2>3. up[g] \in Uploads =>
          /\ mem.building = g /\ prov = "idle"
          /\ \A d \in Deleters : del[d].gen # g
    BY DEF FInv, Kempt, Uploading, Clearing, NoUploads, Uploads
  <2> QED BY <2>1, <2>2, <2>3 DEF DeleteWorks
<1> QED BY <1>1, FilesFollow, PTL
=============================================================================
