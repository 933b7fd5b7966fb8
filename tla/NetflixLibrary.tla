---------------------------- MODULE NetflixLibrary ----------------------------
(***************************************************************************)
(* One Workspace of the Netflix provider library, its files, and the       *)
(* process that opens, closes and may lose it                              *)
(* (src/internal/providers/netflix/library/workspace.go and its            *)
(* neighbours).                                                            *)
(*                                                                         *)
(* A section of code under workspace.mutex is one step; a file operation   *)
(* outside the mutex is a step of its own.  Every mutation of the state is *)
(* validated, written to a sibling, renamed over the state file, and only  *)
(* then installed in memory, so mem and disk are two variables.            *)
(***************************************************************************)
EXTENDS NetflixRepository

CONSTANTS
  Deleters,         \* concurrent DELETE requests for single generations
  Configured,       \* whether a TMDB client may be configured: a set of BOOLEANs
  MaxFaults,        \* bound: failed writes of the state and failed removals
  MaxStops,         \* bound: crashes and orderly closes
  Labelling,        \* whether requests attach profile labels
  RacingUploads     \* whether an upload may start during a DELETE of its generation

ASSUME ConfiguredAssumption == Configured \subseteq BOOLEAN /\ Configured # {}
ASSUME BoundsAssumption == MaxFaults \in Nat /\ MaxStops \in Nat
ASSUME EnvironmentAssumption == Labelling \in BOOLEAN /\ RacingUploads \in BOOLEAN

VARIABLES
  mem,         \* repository.state
  disk,        \* the contents of the state file
  files,       \* the directory of each generation
  cacheFile,   \* whether the TMDB cache file exists
  phase,       \* where the process is between Open and the end of Close
  configured,  \* workspace.tmdbConfigured
  used,        \* the IDs drawn so far: 16 random bytes are not drawn twice
  up,          \* the upload request of each generation (workspace.uploads)
  job,         \* the job goroutine of each generation (workspace.jobs)
  del,         \* the DELETE requests
  prov,        \* the DeleteProvider request
  tmdb,        \* the CreateTMDBGeneration request
  faults,      \* storage faults so far
  stops,       \* crashes and closes so far
  refused      \* whether a mutation was turned down as inconsistent

store == <<mem, disk, faults, refused>>
requests == <<del, prov, tmdb>>
world == <<phase, configured, used, stops>>
vars == <<mem, disk, files, cacheFile, phase, configured, used, up, job,
          del, prov, tmdb, faults, stops, refused>>

-----------------------------------------------------------------------------
(***************************************************************************)
(* The files of a generation: its staged CSV ("part" while it is being     *)
(* received, then readable or not as viewing history), its two artifacts,  *)
(* its title outcomes and its profile label.                               *)
(***************************************************************************)
GenFiles ==
  [source : {"none", "part", "good", "bad"}, records : BOOLEAN,
   analytics : BOOLEAN, outcomes : SUBSET Titles, label : BOOLEAN]

NoFiles ==
  [source |-> "none", records |-> FALSE, analytics |-> FALSE,
   outcomes |-> {}, label |-> FALSE]

NoDirectories == [g \in GenID |-> NoFiles]

(* A write or removal of one of the files of g. *)
Update(g, new) == files' = [files EXCEPT ![g] = new]

WithSource(g, x) == [files[g] EXCEPT !.source = x]

Staged(g) == files[g].source \in {"good", "bad"}

(* validateGenerationArtifacts finds both artifacts, and the hashes agree. *)
Intact(g) == files[g].records /\ files[g].analytics

UploadSteps == {"idle", "stage", "copy", "commit", "failing", "failmark", "finish"}

LocalSteps == {"revalidate", "parse", "importing", "rmsource"}

TMDBSteps == {"source", "reconcile", "enrich", "progress", "rmoutcomes", "clear"}

JobSteps ==
  {"idle", "begin", "records", "analytics", "checkpoint", "validate",
   "activate", "failing", "failmark", "finish"} \cup LocalSteps \cup TMDBSteps

DeleteSteps ==
  {"wait", "check", "failing", "failmark", "mark", "rmdir", "unmark"}

NoDelete == [pc |-> "idle", gen |-> None, building |-> FALSE]

DeleteRequest == [pc : DeleteSteps, gen : GenID, building : BOOLEAN]

NoCreate == [pc |-> "idle", src |-> None]

CreateRequest == [pc : {"validate", "commit"}, src : GenID]

TypeOK ==
  /\ mem \in RepositoryState
  /\ disk \in RepositoryState
  /\ files \in [GenID -> GenFiles]
  /\ cacheFile \in BOOLEAN
  /\ phase \in {"down", "recover", "open", "closing"}
  /\ configured \in BOOLEAN
  /\ used \in SUBSET GenID
  /\ up \in [GenID -> UploadSteps]
  /\ job \in [GenID -> JobSteps]
  /\ del \in [Deleters -> DeleteRequest \cup {NoDelete}]
  /\ prov \in {"idle", "wait", "remove", "reset"}
  /\ tmdb \in CreateRequest \cup {NoCreate}
  /\ faults \in 0..MaxFaults
  /\ stops \in 0..MaxStops
  /\ refused \in BOOLEAN

Init ==
  /\ mem = EmptyState /\ disk = EmptyState
  /\ files = NoDirectories /\ cacheFile = FALSE
  /\ phase = "down" /\ configured = FALSE /\ used = {}
  /\ up = [g \in GenID |-> "idle"]
  /\ job = [g \in GenID |-> "idle"]
  /\ del = [d \in Deleters |-> NoDelete]
  /\ prov = "idle" /\ tmdb = NoCreate
  /\ faults = 0 /\ stops = 0 /\ refused = FALSE

-----------------------------------------------------------------------------
(***************************************************************************)
(* repository.mutate.  allowed is the condition the mutation itself        *)
(* checks, next the state it builds, ok whether mutate returns nil.  A     *)
(* fault before the rename leaves the file alone; one after it (the sync   *)
(* of the directory) leaves the file ahead of memory.                      *)
(***************************************************************************)
Mutate(allowed, next, ok) ==
  \/ /\ ok /\ allowed /\ ValidState(next)
     /\ mem' = next /\ disk' = next
     /\ UNCHANGED <<faults, refused>>
  \/ /\ ~ok /\ ~allowed
     /\ UNCHANGED store
  \/ /\ ~ok /\ allowed /\ ~ValidState(next)
     /\ refused' = (refused \/ ~Consistent(next))
     /\ UNCHANGED <<mem, disk, faults>>
  \/ /\ ~ok /\ allowed /\ ValidState(next)
     /\ faults < MaxFaults /\ faults' = faults + 1
     /\ disk' \in {disk, next}
     /\ UNCHANGED <<mem, refused>>

(* removeGenerationDirectory.  A fault may leave the directory in place. *)
RemoveDirectory(g, ok) ==
  \/ /\ ok
     /\ files' = [files EXCEPT ![g] = NoFiles]
     /\ UNCHANGED faults
  \/ /\ ~ok
     /\ faults < MaxFaults /\ faults' = faults + 1
     /\ files' \in {files, [files EXCEPT ![g] = NoFiles]}

(* removeAllGenerationDirectories joined with removeTMDBCacheFiles. *)
RemoveEverything(ok) ==
  \/ /\ ok
     /\ files' = NoDirectories /\ cacheFile' = FALSE
     /\ UNCHANGED faults
  \/ /\ ~ok
     /\ faults < MaxFaults /\ faults' = faults + 1
     /\ files' \in {files, NoDirectories}
     /\ cacheFile' \in {cacheFile, FALSE}

NoUploads == \A g \in GenID : up[g] = "idle"

NoJobs == \A g \in GenID : job[g] = "idle"

NoRequests ==
  prov = "idle" /\ tmdb.pc = "idle" /\ \A d \in Deleters : del[d].pc = "idle"

Accepting == phase = "open" /\ ~mem.deleting

-----------------------------------------------------------------------------
(* The two halves of failGeneration: it removes the files before it locks. *)

FailRemoveMutant(g) == UNCHANGED <<store, files>>     \* mutant: nothing is removed

FailRemove(g) ==
  /\ \E ok \in BOOLEAN : RemoveDirectory(g, ok)
  /\ UNCHANGED <<mem, disk, refused>>

FailMark(g) ==
  IF phase = "closing" THEN UNCHANGED store
  ELSE \E ok \in BOOLEAN : Mutate(TRUE, Failed(mem, g), ok)

-----------------------------------------------------------------------------
(* Creating a generation. *)

CreateLocalGeneration(g) ==
  /\ Accepting /\ mem.building = None /\ NoUploads
  /\ g \notin used /\ used' = used \cup {g}
  /\ \E ok \in BOOLEAN : Mutate(TRUE, Received(mem, g), ok)
  /\ UNCHANGED <<files, cacheFile, phase, configured, up, job, requests, stops>>

(* What CreateTMDBGeneration checks under the lock, before and after it     *)
(* validates the artifacts of its source without the lock.                  *)
AcceptsSource(source) ==
  /\ Accepting /\ mem.building = None /\ NoUploads
  /\ mem.active = source /\ IsReadyLocal(mem, source)

CreateTMDBGeneration(source) ==
  /\ tmdb.pc = "idle" /\ configured /\ AcceptsSource(source)
  /\ tmdb' = [pc |-> "validate", src |-> source]
  /\ UNCHANGED <<store, files, cacheFile, world, up, job, del, prov>>

ValidateSource ==
  /\ tmdb.pc = "validate"
  /\ tmdb' = IF Intact(tmdb.src) THEN [tmdb EXCEPT !.pc = "commit"] ELSE NoCreate
  /\ UNCHANGED <<store, files, cacheFile, world, up, job, del, prov>>

(* Mutant: the source is not looked at again after its artifacts are read.  *)
CommitTMDBGenerationMutant(g) ==
  /\ tmdb.pc = "commit" /\ tmdb' = NoCreate
  /\ Accepting /\ mem.building = None /\ NoUploads
  /\ g \notin used /\ used' = used \cup {g}
  /\ \E ok \in BOOLEAN :
       /\ Mutate(TRUE, Derive(mem, g, tmdb.src), ok)
       /\ job' = IF ok THEN [job EXCEPT ![g] = "begin"] ELSE job
  /\ UNCHANGED <<files, cacheFile, phase, configured, up, del, prov, stops>>

CommitTMDBGeneration(g) ==
  /\ tmdb.pc = "commit"
  /\ tmdb' = NoCreate
  /\ \/ \E ok \in BOOLEAN :
          /\ AcceptsSource(tmdb.src)
          /\ g \notin used /\ used' = used \cup {g}
          /\ Mutate(TRUE, Derive(mem, g, tmdb.src), ok)
          /\ job' = IF ok THEN [job EXCEPT ![g] = "begin"] ELSE job
     \/ UNCHANGED <<store, used, job>>   \* the source changed, or no ID was drawn
  /\ UNCHANGED <<files, cacheFile, phase, configured, up, del, prov, stops>>

-----------------------------------------------------------------------------
(* UploadViewingActivity. *)

UploadFrame == UNCHANGED <<cacheFile, world, requests>>

UploadGo(g, pc) == up' = [up EXCEPT ![g] = pc]

UploadStart(g) ==
  /\ up[g] = "idle"
  /\ Accepting /\ mem.building = g /\ StateOf(mem, g) = "receiving"
  /\ RacingUploads \/ \A d \in Deleters : del[d].gen # g
  /\ UploadGo(g, "stage")
  /\ UploadFrame /\ UNCHANGED <<store, files, job>>

(* stageViewingActivity up to the first byte.  A CSV that is already staged *)
(* is a conflict, which leaves the generation as it is.                     *)
UploadStage(g) ==
  /\ up[g] = "stage"
  /\ \/ Staged(g) /\ UploadGo(g, "finish") /\ UNCHANGED files
     \/ ~Staged(g) /\ UploadGo(g, "copy") /\ Update(g, WithSource(g, "part"))
     \/ ~Staged(g) /\ UploadGo(g, "failing") /\ UNCHANGED files
  /\ UploadFrame /\ UNCHANGED <<store, job>>

(* removeStaleSourcePart *)
Unstage(g) ==
  IF files[g].source = "part" THEN Update(g, WithSource(g, "none")) ELSE UNCHANGED files

(* The rest of it: the copy may fail or be cancelled, the rename needs the  *)
(* part to be there still, and the sync after the rename may fail.          *)
UploadCopy(g) ==
  /\ up[g] = "copy"
  /\ \/ /\ files[g].source = "part"
        /\ \E content \in {"good", "bad"} : Update(g, WithSource(g, content))
        /\ UploadGo(g, "commit") \/ UploadGo(g, "failing")
     \/ Unstage(g) /\ UploadGo(g, "failing")
  /\ UploadFrame /\ UNCHANGED <<store, job>>

(* The second section under the lock.  A closing workspace keeps the staged *)
(* source for its next Open; a request that is gone fails the generation.   *)
UploadCommit(g) ==
  /\ up[g] = "commit"
  /\ IF phase = "closing"
       THEN UploadGo(g, "finish") /\ UNCHANGED <<store, job>>
       ELSE \/ UploadGo(g, "failing") /\ UNCHANGED <<store, job>>
            \/ \E ok \in BOOLEAN :
                 /\ Mutate(mem.building = g /\ StateOf(mem, g) = "receiving",
                           Validated(mem, g), ok)
                 /\ UploadGo(g, IF ok THEN "finish" ELSE "failing")
                 /\ job' = IF ok /\ job[g] = "idle"
                             THEN [job EXCEPT ![g] = "begin"] ELSE job
  /\ UploadFrame /\ UNCHANGED files

UploadFail(g) ==
  /\ \/ up[g] = "failing" /\ FailRemove(g) /\ UploadGo(g, "failmark")
     \/ up[g] = "failmark" /\ FailMark(g) /\ UploadGo(g, "finish") /\ UNCHANGED files
  /\ UploadFrame /\ UNCHANGED job

UploadFinish(g) ==
  /\ up[g] = "finish" /\ UploadGo(g, "idle")
  /\ UploadFrame /\ UNCHANGED <<store, files, job>>

Upload(g) ==
  UploadStage(g) \/ UploadCopy(g) \/ UploadCommit(g) \/ UploadFail(g) \/ UploadFinish(g)

-----------------------------------------------------------------------------
(***************************************************************************)
(* The job goroutine: runLocalImport or runTMDBEnrichment, then            *)
(* failGeneration when that returned an error.                             *)
(***************************************************************************)
JobFrame == UNCHANGED <<world, up, requests>>

Go(g, pc) == job' = [job EXCEPT ![g] = pc]

GoIf(ok, g, pc) == Go(g, IF ok THEN pc ELSE "failing")

ReadStep(g, from, ok, to) ==
  /\ job[g] = from /\ GoIf(ok, g, to)
  /\ UNCHANGED <<store, files, cacheFile>>

MutateStep(g, from, allowed, next, to) ==
  /\ job[g] = from
  /\ \E ok \in BOOLEAN : Mutate(allowed, next, ok) /\ GoIf(ok, g, to)
  /\ UNCHANGED <<files, cacheFile>>

FileStep(g, from, new, to) ==
  /\ job[g] = from /\ Go(g, to)
  /\ Update(g, new)
  /\ UNCHANGED <<store, cacheFile>>

(* buildingGeneration *)
IsCurrent(g) == mem.building = g /\ IsBuilding(mem, g)

(* A resumed job whose artifacts were checkpointed revalidates them. *)
JobBegin(g) ==
  LET r == mem.gens[g] IN
  ReadStep(g, "begin", IsCurrent(g),
           IF r.hashes THEN "revalidate"
           ELSE IF r.level = "local" THEN "parse" ELSE "source")

Revalidate(g) ==
  IF mem.gens[g].level = "local"
    THEN ReadStep(g, "revalidate", Intact(g) \/ Staged(g),
                  IF Intact(g) THEN "rmsource" ELSE "parse")
    ELSE ReadStep(g, "revalidate", Intact(g), "rmoutcomes")

(* Context cancelled, an I/O error, or an answer of TMDB that is an error. *)
JobFails(g) ==
  /\ job[g] \in {"revalidate", "parse", "records", "analytics", "validate", "rmsource",
                 "source", "reconcile", "enrich", "rmoutcomes"}
  /\ Go(g, "failing") /\ UNCHANGED <<store, files, cacheFile>>

ParseViewingActivity(g) == ReadStep(g, "parse", files[g].source = "good", "importing")

RecordImporting(g) ==
  MutateStep(g, "importing",
             mem.building = g /\ StateOf(mem, g) \in {"validating", "importing"},
             Imported(mem, g), "records")

WriteRecords(g) ==
  FileStep(g, "records", [files[g] EXCEPT !.records = TRUE], "analytics")

WriteAnalytics(g) ==
  FileStep(g, "analytics", [files[g] EXCEPT !.analytics = TRUE], "checkpoint")

CanFinish(g) == mem.building = g /\ StateOf(mem, g) \in {"importing", "enriching"}

(* The summary of the artifacts has to be the one recordImporting stored. *)
RecordCheckpoint(g) ==
  MutateStep(g, "checkpoint", CanFinish(g) /\ mem.gens[g].summary,
             Checkpointed(mem, g), "validate")

ValidateArtifacts(g) ==
  ReadStep(g, "validate", IsCurrent(g) /\ Intact(g),
           IF mem.gens[g].level = "local" THEN "rmsource" ELSE "rmoutcomes")

RemoveStagedSource(g) ==
  FileStep(g, "rmsource", WithSource(g, "none"), "activate")

ActivateGeneration(g) ==
  MutateStep(g, "activate", CanFinish(g) /\ mem.gens[g].hashes,
             Activated(mem, g), "finish")

(* enrichmentSource, and the validation of its artifacts: while the         *)
(* generation exists nothing removes them.                                  *)
EnrichmentSource(g) ==
  LET source == mem.gens[g].src IN
  ReadStep(g, "source",
           /\ IsReadyLocal(mem, source) /\ mem.active = source
           /\ Intact(source),
           "reconcile")

IsEnriching(g) ==
  mem.building = g /\ StateOf(mem, g) = "enriching" /\ mem.gens[g].level = "tmdb"

(* readEnrichmentCheckpoint for every title, then reconcileEnrichmentProgress. *)
ReconcileEnrichmentProgress(g) ==
  LET found == files[g].outcomes
      r == mem.gens[g]
      ahead == ~(r.done \subseteq found) \/ (r.bytes /\ found = {})
  IN IF r.done = found /\ (r.bytes <=> found # {})
       THEN ReadStep(g, "reconcile", TRUE, "enrich")
       ELSE MutateStep(g, "reconcile", IsEnriching(g) /\ ~ahead,
                       Progressed(mem, g, found), "enrich")

(* One result of the worker pool is written at a time, each to its own file. *)
WriteOutcome(g) ==
  /\ job[g] = "enrich" /\ files[g].outcomes # Titles /\ configured
  /\ \E t \in Titles \ files[g].outcomes :
       Update(g, [files[g] EXCEPT !.outcomes = @ \cup {t}])
  /\ cacheFile' = TRUE
  /\ Go(g, "progress") /\ UNCHANGED store

(* validateCompleteCoverage, or remaining titles and no TMDB client. *)
FinishEnrichment(g) ==
  /\ files[g].outcomes = Titles \/ ~configured
  /\ ReadStep(g, "enrich",
              files[g].outcomes = Titles /\ IsCurrent(g) /\ mem.gens[g].done = Titles,
              "records")

RecordEnrichmentProgress(g) ==
  MutateStep(g, "progress", IsEnriching(g) /\ mem.gens[g].done \subseteq files[g].outcomes,
             Progressed(mem, g, files[g].outcomes), "enrich")

(* Mutant: the activation does not wait for the cleared byte count. *)
RemoveOutcomesMutant(g) ==
  FileStep(g, "rmoutcomes", [files[g] EXCEPT !.outcomes = {}], "activate")

RemoveOutcomes(g) ==
  FileStep(g, "rmoutcomes", [files[g] EXCEPT !.outcomes = {}], "clear")

ClearCheckpointBytes(g) ==
  MutateStep(g, "clear", IsEnriching(g) /\ mem.gens[g].hashes, Cleared(mem, g), "activate")

(* The goroutine skips failGeneration once the workspace is closing. *)
JobFail(g) ==
  /\ \/ /\ job[g] = "failing" /\ phase = "closing"
        /\ Go(g, "finish") /\ UNCHANGED <<store, files>>
     \/ /\ job[g] = "failing" /\ phase # "closing"
        /\ FailRemove(g) /\ Go(g, "failmark")
     \/ /\ job[g] = "failmark"
        /\ FailMark(g) /\ Go(g, "finish") /\ UNCHANGED files
  /\ UNCHANGED cacheFile

JobFinish(g) == ReadStep(g, "finish", TRUE, "idle")

LocalJob(g) ==
  \/ ParseViewingActivity(g) \/ RecordImporting(g) \/ RemoveStagedSource(g)

TMDBJob(g) ==
  \/ EnrichmentSource(g) \/ ReconcileEnrichmentProgress(g) \/ WriteOutcome(g)
  \/ FinishEnrichment(g) \/ RecordEnrichmentProgress(g) \/ RemoveOutcomes(g)
  \/ ClearCheckpointBytes(g)

Job(g) ==
  /\ \/ JobBegin(g) \/ Revalidate(g) \/ JobFails(g) \/ LocalJob(g) \/ TMDBJob(g)
     \/ WriteRecords(g) \/ WriteAnalytics(g) \/ RecordCheckpoint(g)
     \/ ValidateArtifacts(g) \/ ActivateGeneration(g) \/ JobFail(g) \/ JobFinish(g)
  /\ JobFrame

-----------------------------------------------------------------------------
(* DeleteGeneration, one request per member of Deleters. *)

DeleteFrame == UNCHANGED <<cacheFile, world, up, job, prov, tmdb>>

DeleteGo(d, pc) == del' = [del EXCEPT ![d].pc = pc]

DeleteEnd(d) == del' = [del EXCEPT ![d] = NoDelete]

AfterWait(building) == IF building THEN "check" ELSE "mark"

(* Mutant: a generation others were derived from is deleted, too. *)
DeleteGenerationMutant(d, g) ==
  /\ del[d].pc = "idle"
  /\ Accepting /\ mem.active # g /\ Exists(mem, g) /\ up[g] = "idle"
  /\ del' = [del EXCEPT ![d] =
       [gen |-> g, building |-> IsBuilding(mem, g),
        pc |-> IF job[g] # "idle" THEN "wait" ELSE AfterWait(IsBuilding(mem, g))]]
  /\ DeleteFrame /\ UNCHANGED <<store, files>>

(* The checks under the lock.  The request remembers whether the generation *)
(* was building, and waits for the job it found, which it has cancelled.    *)
DeleteGeneration(d, g) ==
  /\ del[d].pc = "idle"
  /\ Accepting /\ mem.active # g /\ Derived(mem, g) = {} /\ Exists(mem, g)
  /\ up[g] = "idle"
  /\ del' = [del EXCEPT ![d] =
       [gen |-> g, building |-> IsBuilding(mem, g),
        pc |-> IF job[g] # "idle" THEN "wait" ELSE AfterWait(IsBuilding(mem, g))]]
  /\ DeleteFrame /\ UNCHANGED <<store, files>>

(* Mutant: the cancelled job is not waited for. *)
DeleteWaitMutant(d) ==
  /\ del[d].pc = "wait" /\ DeleteGo(d, AfterWait(del[d].building))
  /\ DeleteFrame /\ UNCHANGED <<store, files>>

(* <-job.done, or the request's context ends first. *)
DeleteWait(d) ==
  /\ del[d].pc = "wait"
  /\ \/ job[del[d].gen] = "idle" /\ DeleteGo(d, AfterWait(del[d].building))
     \/ job[del[d].gen] # "idle" /\ DeleteEnd(d)
  /\ DeleteFrame /\ UNCHANGED <<store, files>>

(* Mutant: what the job has done since is not looked at. *)
DeleteCheckMutant(d) ==
  /\ del[d].pc = "check" /\ DeleteGo(d, "failing")
  /\ DeleteFrame /\ UNCHANGED <<store, files>>

(* A generation that was building is failed, if its job has not done it.    *)
DeleteCheck(d) ==
  LET g == del[d].gen IN
  /\ del[d].pc = "check"
  /\ IF IsBuilding(mem, g) THEN DeleteGo(d, "failing") ELSE DeleteEnd(d)
  /\ DeleteFrame /\ UNCHANGED <<store, files>>

DeleteFail(d) ==
  LET g == del[d].gen IN
  /\ \/ del[d].pc = "failing" /\ FailRemove(g) /\ DeleteGo(d, "failmark")
     \/ del[d].pc = "failmark" /\ FailMark(g) /\ DeleteEnd(d) /\ UNCHANGED files
  /\ DeleteFrame

(* A terminal generation is marked, its directory removed, then forgotten.  *)
DeleteMark(d) ==
  LET g == del[d].gen IN
  /\ del[d].pc = "mark"
  /\ \E ok \in BOOLEAN :
       /\ Mutate(mem.active # g /\ Exists(mem, g), MarkedPending(mem, g), ok)
       /\ IF ok THEN DeleteGo(d, "rmdir") ELSE DeleteEnd(d)
  /\ DeleteFrame /\ UNCHANGED files

DeleteDirectory(d) ==
  /\ del[d].pc = "rmdir"
  /\ \E ok \in BOOLEAN :
       /\ RemoveDirectory(del[d].gen, ok)
       /\ IF ok THEN DeleteGo(d, "unmark") ELSE DeleteEnd(d)
  /\ DeleteFrame /\ UNCHANGED <<mem, disk, refused>>

DeleteUnmark(d) ==
  /\ del[d].pc = "unmark"
  /\ \E ok \in BOOLEAN : Mutate(TRUE, Removed(mem, del[d].gen), ok)
  /\ DeleteEnd(d)
  /\ DeleteFrame /\ UNCHANGED files

Delete(d) ==
  \/ DeleteWait(d) \/ DeleteCheck(d) \/ DeleteFail(d)
  \/ DeleteMark(d) \/ DeleteDirectory(d) \/ DeleteUnmark(d)

-----------------------------------------------------------------------------
(* DeleteProvider.  An error leaves Deleting set until the next Open.        *)

ProviderFrame == UNCHANGED <<world, up, job, del, tmdb>>

DeleteProvider ==
  /\ prov = "idle" /\ Accepting /\ NoUploads
  /\ \E ok \in BOOLEAN :
       /\ Mutate(TRUE, MarkedDeleting(mem), ok)
       /\ prov' = IF ok THEN "wait" ELSE "idle"
  /\ ProviderFrame /\ UNCHANGED <<files, cacheFile>>

ProviderWait ==
  /\ prov = "wait" /\ NoJobs /\ prov' = "remove"
  /\ ProviderFrame /\ UNCHANGED <<store, files, cacheFile>>

ProviderRemove ==
  /\ prov = "remove"
  /\ \E ok \in BOOLEAN :
       RemoveEverything(ok) /\ prov' = IF ok THEN "reset" ELSE "idle"
  /\ ProviderFrame /\ UNCHANGED <<mem, disk, refused>>

ProviderReset ==
  /\ prov = "reset" /\ prov' = "idle"
  /\ \E ok \in BOOLEAN : Mutate(TRUE, EmptyState, ok)
  /\ ProviderFrame /\ UNCHANGED <<files, cacheFile>>

Provider == ProviderWait \/ ProviderRemove \/ ProviderReset

(* SetProfileLabel writes beneath the generation's directory, creating it.   *)
SetProfileLabel(g) ==
  /\ Labelling /\ Accepting
  /\ Exists(mem, g) /\ mem.gens[g].level = "local" /\ ~files[g].label
  /\ Update(g, [files[g] EXCEPT !.label = TRUE])
  /\ UNCHANGED <<store, cacheFile, world, up, job, requests>>

-----------------------------------------------------------------------------
(* The process: Open with its recovery, Close, and a crash. *)

Down ==
  /\ phase' = "down" /\ mem' = disk
  /\ UNCHANGED <<disk, refused>>

OpenFrame == UNCHANGED <<used, up, requests, stops>>

(* openRepository reads the state file; memory before that is of no account. *)
Open ==
  /\ phase = "down" /\ phase' = "recover" /\ mem' = disk
  /\ configured' \in Configured
  /\ OpenFrame /\ UNCHANGED <<disk, files, cacheFile, job, faults, refused>>

(* recoverDeletionCheckpoints, the interrupted provider deletion. *)
RecoverProvider ==
  /\ phase = "recover" /\ mem.deleting
  /\ IF files = NoDirectories /\ ~cacheFile
       THEN \E ok \in BOOLEAN :
              /\ Mutate(TRUE, EmptyState, ok)
              /\ phase' = IF ok THEN "recover" ELSE "down"
              /\ UNCHANGED <<files, cacheFile>>
       ELSE \/ RemoveEverything(TRUE) /\ UNCHANGED <<mem, disk, refused, phase>>
            \/ RemoveEverything(FALSE) /\ Down
  /\ OpenFrame /\ UNCHANGED <<configured, job>>

(* Mutant: the directory is taken for removed already. *)
RecoverPendingMutant(g) ==
  /\ phase = "recover" /\ ~mem.deleting /\ g \in mem.pending
  /\ \E ok \in BOOLEAN :
       /\ Mutate(TRUE, Removed(mem, g), ok)
       /\ phase' = IF ok THEN "recover" ELSE "down"
  /\ OpenFrame /\ UNCHANGED <<configured, files, cacheFile, job>>

(* recoverDeletionCheckpoints, one pending generation. *)
RecoverPending(g) ==
  /\ phase = "recover" /\ ~mem.deleting /\ g \in mem.pending
  /\ IF files[g] = NoFiles
       THEN \E ok \in BOOLEAN :
              /\ Mutate(TRUE, Removed(mem, g), ok)
              /\ phase' = IF ok THEN "recover" ELSE "down"
              /\ UNCHANGED files
       ELSE \/ RemoveDirectory(g, TRUE) /\ UNCHANGED <<mem, disk, refused, phase>>
            \/ RemoveDirectory(g, FALSE) /\ Down
  /\ OpenFrame /\ UNCHANGED <<configured, cacheFile, job>>

(* recoverDeletionCheckpoints has nothing more to do. *)
DeletionsRecoveredMutant == ~mem.deleting     \* mutant: pending deletions are left for later
DeletionsRecovered == ~mem.deleting /\ mem.pending = {}

(* Mutant: only a staged upload is taken up again. *)
RecoverBuildingMutant ==
  LET g == mem.building
      receiving == StateOf(mem, g) = "receiving" IN
  /\ phase = "recover" /\ DeletionsRecovered
  /\ IF receiving THEN Unstage(g) ELSE UNCHANGED files
  /\ IF receiving /\ Staged(g)
       THEN \E ok \in BOOLEAN :
              /\ Mutate(TRUE, Validated(mem, g), ok)
              /\ phase' = IF ok THEN "open" ELSE "down"
              /\ job' = IF ok THEN [job EXCEPT ![g] = "begin"] ELSE job
       ELSE phase' = "open" /\ UNCHANGED <<store, job>>
  /\ OpenFrame /\ UNCHANGED <<configured, cacheFile>>

(* recoverBuildingGeneration: a receiving generation whose CSV was staged    *)
(* goes on, one without stays open for its upload.                           *)
RecoverBuilding ==
  LET g == mem.building
      receiving == StateOf(mem, g) = "receiving" IN
  /\ phase = "recover" /\ DeletionsRecovered
  /\ IF receiving THEN Unstage(g) ELSE UNCHANGED files
  /\ IF receiving /\ Staged(g)
       THEN \E ok \in BOOLEAN :
              /\ Mutate(TRUE, Validated(mem, g), ok)
              /\ phase' = IF ok THEN "open" ELSE "down"
              /\ job' = IF ok THEN [job EXCEPT ![g] = "begin"] ELSE job
       ELSE /\ phase' = "open" /\ UNCHANGED store
            /\ job' = IF g = None \/ receiving THEN job ELSE [job EXCEPT ![g] = "begin"]
  /\ OpenFrame /\ UNCHANGED <<configured, cacheFile>>

Recover == RecoverProvider \/ RecoverBuilding \/ \E g \in GenID : RecoverPending(g)

(* The workspace registry closes a workspace only when no request holds a    *)
(* reference to it, at the end of the server as well (OpenWhileUsed of       *)
(* WorkspaceRegistry); that an upload is over by then is not assumed.        *)
Close ==
  /\ phase = "open" /\ NoRequests /\ stops < MaxStops
  /\ phase' = "closing" /\ stops' = stops + 1
  /\ UNCHANGED <<store, files, cacheFile, configured, used, up, job, requests>>

(* Every job and upload has ended; the lease is released. *)
Closed ==
  /\ phase = "closing" /\ NoJobs /\ NoUploads
  /\ Down
  /\ UNCHANGED <<files, cacheFile, configured, used, up, job, requests, faults, stops>>

Crash ==
  /\ phase # "down" /\ stops < MaxStops /\ stops' = stops + 1
  /\ Down
  /\ up' = [g \in GenID |-> "idle"] /\ job' = [g \in GenID |-> "idle"]
  /\ del' = [d \in Deleters |-> NoDelete] /\ prov' = "idle" /\ tmdb' = NoCreate
  /\ UNCHANGED <<files, cacheFile, configured, used, faults>>

-----------------------------------------------------------------------------
Request ==
  \/ \E g \in GenID :
       \/ CreateLocalGeneration(g) \/ CreateTMDBGeneration(g) \/ CommitTMDBGeneration(g)
       \/ UploadStart(g) \/ SetProfileLabel(g)
       \/ \E d \in Deleters : DeleteGeneration(d, g)
  \/ ValidateSource \/ DeleteProvider

Next ==
  \/ Request
  \/ \E g \in GenID : Upload(g) \/ Job(g)
  \/ \E d \in Deleters : Delete(d)
  \/ Provider
  \/ Open \/ Recover \/ Close \/ Closed \/ Crash

Spec == Init /\ [][Next]_vars

(* Goroutines are scheduled, request handlers run on, and the server opens   *)
(* the workspace again.  No request has to arrive and nothing has to crash.  *)
Fairness ==
  /\ \A g \in GenID : WF_vars(Upload(g)) /\ WF_vars(Job(g))
  /\ \A d \in Deleters : WF_vars(Delete(d))
  /\ WF_vars(Provider)
  /\ WF_vars(Open) /\ WF_vars(Recover) /\ WF_vars(Closed)

FairSpec == Spec /\ Fairness

-----------------------------------------------------------------------------
(***************************************************************************)
(* Safety.                                                                 *)
(***************************************************************************)

(* No step of a handler, job or recovery, whatever they interleave with,    *)
(* builds a state that validateRepositoryState turns down as inconsistent:  *)
(* a mutation only ever fails for its own check, for the history bound or   *)
(* for storage.                                                             *)
NeverRefused == ~refused

(* The active generation, in memory and in the state file, has its records  *)
(* and analytics on disk at every moment, a crash included, unless the      *)
(* provider is being deleted.                                               *)
ActiveIntact ==
  \A s \in {mem, disk} : s.active # None /\ ~s.deleting => Intact(s.active)

(* The source of an enriched generation stays ready and complete for as     *)
(* long as that generation exists: DeleteGeneration and CreateTMDB-         *)
(* Generation race without breaking the chain ProfileLabel walks.           *)
SourcesIntact ==
  ~mem.deleting => \A g \in GenID : mem.gens[g].level = "tmdb" =>
    IsReadyLocal(mem, mem.gens[g].src) /\ Intact(mem.gens[g].src)

(* A ready generation keeps no source CSV and no title outcome, a failed one  *)
(* keeps nothing of its build once nobody works on it, and nothing is left on *)
(* disk of a generation the state has forgotten.                              *)
PayloadRemoved ==
  \A g \in GenID :
    /\ StateOf(mem, g) = "ready" => files[g].source = "none" /\ files[g].outcomes = {}
    /\ StateOf(mem, g) = "failed" /\ up[g] = "idle" /\ job[g] = "idle" =>
         [files[g] EXCEPT !.label = FALSE] = NoFiles
    /\ ~Exists(mem, g) /\ ~Exists(disk, g) => files[g] = NoFiles

(* No lock is held while files are written, received or removed, and still  *)
(* nobody works on the files of a generation that another goroutine         *)
(* removes: a job and an upload have the building generation, and it alone, *)
(* to themselves, until DELETE has waited for the job, or the provider for  *)
(* all of them.                                                             *)
JobWorks(g) == job[g] \notin {"idle", "finish"}

UploadWorks(g) == up[g] \notin {"idle", "finish"}

DeleteWorks(g) ==
  \E d \in Deleters : del[d].gen = g /\ del[d].pc \in {"failing", "failmark", "rmdir", "unmark"}

OneWriter ==
  \A g \in GenID :
    /\ JobWorks(g) \/ UploadWorks(g) => mem.building = g /\ prov \notin {"remove", "reset"}
    /\ ~(JobWorks(g) /\ UploadWorks(g))
    /\ DeleteWorks(g) => ~JobWorks(g) /\ ~UploadWorks(g)

(***************************************************************************)
(* The inductive invariant behind NeverRefused.                            *)
(***************************************************************************)

(* IDs are drawn before they are stored, and jobs run for drawn IDs only.    *)
DrawnIDs ==
  \A g \in GenID : Exists(mem, g) \/ Exists(disk, g) \/ job[g] # "idle" => g \in used

(* Once a DELETE has found a terminal generation, that generation stays      *)
(* inactive and nothing is derived from it.                                  *)
Committed(r) == r.pc \in {"mark", "rmdir", "unmark"} \/ (r.pc = "wait" /\ ~r.building)

DeletersHold ==
  \A d \in Deleters :
    Committed(del[d]) => del[d].gen \in used /\ Removable(mem, del[d].gen)

(* What a job at pc has established of its generation, so that the state     *)
(* accepts the hashes, and then the activation, the job will ask for.        *)
Prepared(s, g, pc) ==
  /\ pc \in {"records", "analytics", "checkpoint"} /\ StateOf(s, g) = "enriching"
       => s.gens[g].done = Titles
  /\ pc = "rmsource" /\ IsBuilding(s, g) => s.gens[g].level = "local"
  /\ pc = "activate" /\ IsBuilding(s, g) => ~s.gens[g].bytes

JobsHold == \A g \in GenID : Prepared(mem, g, job[g])

PhasesHold ==
  /\ phase # "open" => \A d \in Deleters : del[d].pc = "idle"
  /\ phase \in {"down", "recover"} => NoJobs /\ NoUploads

(* The state in memory and the state file are sound, and every request and   *)
(* job is where the mutation it will issue keeps them so.                    *)
IInv ==
  /\ TypeOK /\ NeverRefused
  /\ Sound(mem) /\ Sound(disk)
  /\ DrawnIDs /\ DeletersHold /\ JobsHold /\ PhasesHold

(***************************************************************************)
(* Progress.                                                               *)
(***************************************************************************)

(* A generation whose upload was accepted ends, over any crash and reopening *)
BuildsEnd ==
  \A g \in GenID : StateOf(mem, g) \in {"validating", "importing", "enriching"}
                     ~> StateOf(mem, g) \in {"ready", "failed", "absent"}

(* A deletion that was begun is completed, by the request or by recovery.   *)
DeletionsEnd ==
  /\ mem.deleting ~> ~mem.deleting
  /\ \A g \in GenID : g \in mem.pending ~> g \notin mem.pending
=============================================================================
