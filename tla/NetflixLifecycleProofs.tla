------------------------- MODULE NetflixLifecycleProofs -------------------------
(***************************************************************************)
(* NetflixLibrary implements GenerationLifecycle.  What makes the mapping  *)
(* inductive is that the state file, which a crash may bring up, is never  *)
(* more than one step of a life ahead of memory.                           *)
(***************************************************************************)
EXTENDS NetflixLibraryLifecycle, NetflixLibraryProofs

(* A generation is marked for deletion only once its build has ended. *)
PendingEnded(s) == \A g \in s.pending : ~IsBuilding(s, g)

NoneOpen(s) == \A h \in GenID : LifeOf(s, h) \notin {"offered", "building"}

(* From s to t, the life of g goes on to l. *)
Moves(s, t, g, l) == \A h \in GenID : LifeOf(t, h) = IF h = g THEN l ELSE LifeOf(s, h)

(* What GenerationLifecycle allows between two states of the repository. *)
LifeStep(s, t) ==
  \/ t.active = s.active /\ \A h \in GenID : LifeOf(t, h) = LifeOf(s, h)
  \/ \E g \in GenID : /\ LifeOf(s, g) = "absent" /\ NoneOpen(s) /\ t.active = s.active
                      /\ \/ Moves(s, t, g, "offered")
                         \/ s.active # None /\ Moves(s, t, g, "building")
  \/ \E g \in GenID : LifeOf(s, g) = "offered" /\ Moves(s, t, g, "building") /\ t.active = s.active
  \/ \E g \in GenID : LifeOf(s, g) = "building" /\ Moves(s, t, g, "ready") /\ t.active = g
  \/ \E g \in GenID : /\ LifeOf(s, g) \in {"offered", "building"}
                      /\ Moves(s, t, g, "failed") /\ t.active = s.active
  \/ \E g \in GenID : /\ LifeOf(s, g) \in {"ready", "failed"} /\ g # s.active
                      /\ Moves(s, t, g, "absent") /\ t.active = s.active
  \/ t.active = None /\ \A h \in GenID : LifeOf(t, h) = "absent"

(* What a mutation from s to t has to be. *)
Lively(s, t) == PendingEnded(t) /\ LifeStep(s, t)

LEMMA LifeValues ==
  ASSUME NEW s, NEW g
  PROVE  /\ StateOf(s, g) = "receiving" => LifeOf(s, g) = "offered"
         /\ StateOf(s, g) \in {"validating", "importing", "enriching"} => LifeOf(s, g) = "building"
         /\ StateOf(s, g) \in {"ready", "failed", "absent"} => LifeOf(s, g) = StateOf(s, g)
  BY DEF LifeOf

LEMMA LifeOpen ==
  ASSUME NEW s \in RepositoryState, NEW g \in GenID
  PROVE  /\ LifeOf(s, g) \in {"offered", "building"} <=> IsBuilding(s, g)
         /\ LifeOf(s, g) \in {"absent", "offered", "building", "ready", "failed"}
<1>1. StateOf(s, g) \in GenStates
  BY GenType, NoneAssumption DEF StateOf, Generation
<1> QED BY <1>1, LifeValues DEF IsBuilding, GenStates, BuildingStates

LEMMA ChangesLife ==
  ASSUME NEW s, NEW t, NEW g \in GenID, NEW state, NEW level, Changes(s, t, g, state, level)
  PROVE  Moves(s, t, g, LifeOf(t, g)) /\ \A h \in GenID \ {g} : StateOf(t, h) = StateOf(s, h)
<1>1. \A h \in GenID \ {g} : StateOf(t, h) = StateOf(s, h)
  BY NoneAssumption DEF Changes, StateOf
<1>2. \A h \in GenID \ {g} : LifeOf(t, h) = LifeOf(s, h)
  BY <1>1, Zenon DEF LifeOf
<1> QED BY <1>1, <1>2 DEF Moves

(* A change of g that neither opens it while it is pending nor sets another. *)
LEMMA ChangesPending ==
  ASSUME NEW s \in RepositoryState, NEW t, NEW g \in GenID, NEW state, NEW level,
         Changes(s, t, g, state, level), PendingEnded(s), t.pending \subseteq s.pending,
         g \notin s.pending \/ state \notin BuildingStates
  PROVE  PendingEnded(t)
<1> SUFFICES ASSUME NEW h \in t.pending, IsBuilding(t, h) PROVE FALSE
  BY DEF PendingEnded
<1>1. h \in GenID /\ h \in s.pending
  BY DEF RepositoryState
<1>2. CASE h = g
  BY <1>1, <1>2 DEF Changes, IsBuilding
<1>3. CASE h # g
  <2>1. StateOf(t, h) = StateOf(s, h)
    <3>1. \A i \in GenID \ {g} : StateOf(t, i) = StateOf(s, i)
      BY ChangesLife, Zenon
    <3> QED BY <1>1, <1>3, <3>1
  <2>2. ~IsBuilding(s, h)
    BY <1>1 DEF PendingEnded
  <2> QED BY <2>1, <2>2 DEF IsBuilding
<1> QED BY <1>2, <1>3

(* A mutation of the building generation that keeps it building. *)
LEMMA BuildLively ==
  ASSUME NEW s \in RepositoryState, NEW t, NEW g \in GenID, NEW state, NEW level,
         Sound(s), PendingEnded(s), Changes(s, t, g, state, level), Pointers(t) = Pointers(s),
         IsBuilding(s, g), state \in {"validating", "importing", "enriching"}
  PROVE  Lively(s, t)
<1>1. t.active = s.active /\ t.pending = s.pending
  BY DEF Pointers
<1>2. LifeOf(t, g) = "building"
  BY LifeValues DEF Changes
<1>3. Moves(s, t, g, "building")
  BY <1>2, ChangesLife
<1>4. g \notin s.pending
  BY DEF PendingEnded
<1>5. PendingEnded(t)
  BY <1>1, <1>4, ChangesPending
<1>6. LifeOf(s, g) \in {"offered", "building"}
  BY LifeOpen
<1>7. CASE LifeOf(s, g) = "offered"
  BY <1>1, <1>3, <1>5, <1>7 DEF Lively, LifeStep
<1>8. CASE LifeOf(s, g) = "building"
  <2>1. \A h \in GenID : LifeOf(t, h) = LifeOf(s, h)
    BY <1>3, <1>8 DEF Moves
  <2> QED BY <1>1, <1>5, <2>1 DEF Lively, LifeStep
<1> QED BY <1>6, <1>7, <1>8

LEMMA StepsLively ==
  ASSUME NEW s \in RepositoryState, NEW g \in GenID, NEW c \in SUBSET Titles, Sound(s),
         PendingEnded(s)
  PROVE  /\ StateOf(s, g) = "receiving" => Lively(s, Validated(s, g))
         /\ StateOf(s, g) \in {"validating", "importing"} => Lively(s, Imported(s, g))
         /\ StateOf(s, g) \in {"importing", "enriching"} => Lively(s, Checkpointed(s, g))
         /\ StateOf(s, g) = "enriching" => Lively(s, Progressed(s, g, c))
         /\ StateOf(s, g) = "enriching" => Lively(s, Cleared(s, g))
<1>1. StateOf(s, g) \in {"receiving", "validating", "importing", "enriching"} => IsBuilding(s, g)
  BY DEF IsBuilding, BuildingStates
<1> QED BY <1>1, StepChanges, BuildLively

(* Outside the deletion of the provider, nothing is open without a pointer. *)
LEMMA NothingOpen ==
  ASSUME NEW s \in RepositoryState, Sound(s), PendingEnded(s), ~s.deleting, s.building = None
  PROVE  NoneOpen(s)
<1> SUFFICES ASSUME NEW h \in GenID, IsBuilding(s, h) PROVE FALSE
  BY LifeOpen DEF NoneOpen
<1>1. h \notin s.pending
  BY DEF PendingEnded
<1> QED BY <1>1, NoneAssumption DEF Sound, Consistent, ValidBuilding

LEMMA CreateLively ==
  ASSUME NEW s \in RepositoryState, NEW g \in GenID, NEW source \in GenID, Sound(s),
         PendingEnded(s), ~s.deleting, s.building = None, ~Exists(s, g)
  PROVE  Lively(s, Received(s, g)) /\ (s.active # None => Lively(s, Derive(s, g, source)))
<1>1. NoneOpen(s)
  BY NothingOpen
<1>2. LifeOf(s, g) = "absent" /\ g \notin s.pending
  BY LifeValues DEF Exists, Sound, Consistent, ValidPending
<1>3. ASSUME NEW t, NEW state, NEW level, Changes(s, t, g, state, level),
             Pointers(t) = <<s.active, g, s.pending, s.deleting>>,
             state = "receiving" \/ (state = "enriching" /\ s.active # None)
      PROVE  Lively(s, t)
  <2>1. t.active = s.active /\ t.pending = s.pending
    BY <1>3 DEF Pointers
  <2>2. PendingEnded(t)
    BY <1>2, <1>3, <2>1, ChangesPending
  <2>3. Moves(s, t, g, LifeOf(t, g))
    BY <1>3, ChangesLife
  <2>4. StateOf(t, g) = state
    BY <1>3 DEF Changes
  <2>5. LifeOf(t, g) = "offered" \/ (LifeOf(t, g) = "building" /\ s.active # None)
    BY <1>3, <2>4, LifeValues
  <2>6. Moves(s, t, g, "offered") \/ (s.active # None /\ Moves(s, t, g, "building"))
    BY <2>3, <2>5
  <2>7. LifeStep(s, t)
    BY <1>1, <1>2, <2>1, <2>6 DEF LifeStep
  <2> QED BY <2>2, <2>7 DEF Lively
<1> QED BY <1>3, CreateChanges

LEMMA EndLively ==
  ASSUME NEW s \in RepositoryState, NEW g \in GenID, Sound(s), PendingEnded(s)
  PROVE  /\ StateOf(s, g) \in {"importing", "enriching"} => Lively(s, Activated(s, g))
         /\ Lively(s, Failed(s, g))
         /\ ~IsBuilding(s, g) /\ s.active # g => Lively(s, Removed(s, g))
         /\ ~IsBuilding(s, g) => Lively(s, MarkedPending(s, g))
<1>1. ASSUME StateOf(s, g) \in {"importing", "enriching"} PROVE Lively(s, Activated(s, g))
  <2> DEFINE t == Activated(s, g)
  <2>1. Changes(s, t, g, "ready", s.gens[g].level) /\ t.active = g /\ t.pending = s.pending
    BY ActivatedChanges DEF Pointers
  <2> HIDE DEF t
  <2>2. PendingEnded(t)
    BY <2>1, ChangesPending DEF BuildingStates
  <2>3. LifeOf(t, g) = "ready" /\ LifeOf(s, g) = "building"
    BY <1>1, <2>1, LifeValues DEF Changes
  <2>4. LifeStep(s, t)
    BY <2>1, <2>3, ChangesLife DEF LifeStep
  <2> QED BY <2>2, <2>4 DEF Lively, t
<1>2. Lively(s, Failed(s, g))
  <2> DEFINE t == Failed(s, g)
  <2>1. CASE ~IsBuilding(s, g)
    BY <2>1 DEF Failed, Lively, LifeStep
  <2>2. CASE IsBuilding(s, g)
    <3>1. Changes(s, t, g, "failed", s.gens[g].level) /\ t.active = s.active /\ t.pending = s.pending
      BY <2>2, FailedChanges DEF Pointers
    <3> HIDE DEF t
    <3>2. PendingEnded(t)
      BY <3>1, ChangesPending DEF BuildingStates
    <3>3. LifeOf(t, g) = "failed" /\ LifeOf(s, g) \in {"offered", "building"}
      BY <2>2, <3>1, LifeValues, LifeOpen DEF Changes
    <3>4. LifeStep(s, t)
      BY <3>1, <3>3, ChangesLife DEF LifeStep
    <3> QED BY <3>2, <3>4 DEF Lively, t
  <2> QED BY <2>1, <2>2
<1>3. ASSUME ~IsBuilding(s, g), s.active # g PROVE Lively(s, Removed(s, g))
  <2> DEFINE t == Removed(s, g)
  <2>1. /\ Changes(s, t, g, "absent", "none") /\ t.active = s.active
        /\ t.pending \subseteq s.pending
    BY <1>3, RemovedChanges DEF Pointers, Without
  <2> HIDE DEF t
  <2>2. PendingEnded(t)
    BY <2>1, ChangesPending DEF BuildingStates
  <2>3. LifeOf(t, g) = "absent" /\ LifeOf(s, g) \in {"absent", "ready", "failed"}
    BY <1>3, <2>1, LifeValues, LifeOpen DEF Changes
  <2>4. Moves(s, t, g, "absent")
    BY <2>1, <2>3, ChangesLife
  <2>5. CASE LifeOf(s, g) = "absent"
    <3>1. \A h \in GenID : LifeOf(t, h) = LifeOf(s, h)
      BY <2>4, <2>5 DEF Moves
    <3> QED BY <2>1, <2>2, <3>1 DEF Lively, LifeStep, t
  <2>6. CASE LifeOf(s, g) \in {"ready", "failed"}
    <3>1. LifeStep(s, t)
      BY <1>3, <2>1, <2>4, <2>6 DEF LifeStep
    <3> QED BY <2>2, <3>1 DEF Lively, t
  <2> QED BY <2>3, <2>5, <2>6
<1>4. ASSUME ~IsBuilding(s, g) PROVE Lively(s, MarkedPending(s, g))
  <2> DEFINE t == MarkedPending(s, g)
  <2>1. t.gens = s.gens /\ t.active = s.active /\ t.pending = s.pending \cup {g}
    BY MarkedChanges DEF Pointers
  <2> HIDE DEF t
  <2>2. \A h : StateOf(t, h) = StateOf(s, h)
    BY <2>1 DEF StateOf
  <2>3. \A h \in GenID : LifeOf(t, h) = LifeOf(s, h)
    BY <2>2, Zenon DEF LifeOf
  <2>4. PendingEnded(t)
    BY <1>4, <2>1, <2>2 DEF PendingEnded, IsBuilding
  <2> QED BY <2>1, <2>3, <2>4 DEF Lively, LifeStep, t
<1> QED BY <1>1, <1>2, <1>3, <1>4

-----------------------------------------------------------------------------
(* A crash may bring up a state file that is one step ahead of memory. *)
LifeInv == PendingEnded(mem) /\ PendingEnded(disk) /\ LifeStep(mem, disk)

Advances == LifeStep(mem, mem') /\ LifeInv'

LEMMA SameLife == ASSUME NEW s PROVE LifeStep(s, s)
  BY DEF LifeStep

LEMMA MutateAdvances ==
  ASSUME LifeInv, NEW allowed \in BOOLEAN, NEW next, NEW ok \in BOOLEAN,
         allowed => Lively(mem, next), Mutate(allowed, next, ok)
  PROVE  Advances
<1>1. \/ mem' = next /\ disk' = next /\ allowed
      \/ mem' = mem /\ disk' = disk
      \/ mem' = mem /\ disk' = next /\ allowed
  BY DEF Mutate, store
<1>2. LifeStep(mem, mem) /\ LifeStep(next, next)
  BY SameLife
<1> QED BY <1>1, <1>2 DEF Advances, LifeInv, Lively

LEMMA SameAdvances ==
  ASSUME LifeInv, disk' = disk, mem' = mem \/ mem' = disk
  PROVE  Advances
<1>1. LifeStep(mem, mem) /\ LifeStep(disk, disk)
  BY SameLife
<1> QED BY <1>1 DEF Advances, LifeInv

LEMMA FailAdvances ==
  ASSUME IInv, LifeInv, NEW g \in GenID, FailRemove(g) \/ FailMark(g)
  PROVE  Advances
<1>1. CASE UNCHANGED <<mem, disk>>
  BY <1>1, SameAdvances
<1>2. ASSUME NEW ok \in BOOLEAN, Mutate(TRUE, Failed(mem, g), ok) PROVE Advances
  <2>1. Lively(mem, Failed(mem, g))
    BY EndLively DEF IInv, TypeOK, LifeInv
  <2> QED BY <1>2, <2>1, MutateAdvances
<1> QED BY <1>1, <1>2 DEF FailRemove, FailMark, store

LEMMA CreateAdvances ==
  ASSUME IInv, LifeInv, NEW g \in GenID,
         \/ CreateLocalGeneration(g) \/ CreateTMDBGeneration(g) \/ ValidateSource
         \/ CommitTMDBGeneration(g)
  PROVE  Advances
<1>0. mem \in RepositoryState /\ Sound(mem) /\ PendingEnded(mem)
  BY DEF IInv, TypeOK, LifeInv
<1>1. CASE UNCHANGED <<mem, disk>>
  BY <1>1, SameAdvances
<1>2. CASE CreateLocalGeneration(g)
  <2>1. PICK ok \in BOOLEAN : Mutate(TRUE, Received(mem, g), ok)
    BY <1>2 DEF CreateLocalGeneration
  <2>2. ~mem.deleting /\ mem.building = None /\ ~Exists(mem, g)
    BY <1>2 DEF CreateLocalGeneration, Accepting, IInv, DrawnIDs
  <2>3. Lively(mem, Received(mem, g))
    BY <1>0, <2>2, CreateLively
  <2> QED BY <2>1, <2>3, MutateAdvances
<1>3. CASE CommitTMDBGeneration(g) /\ ~UNCHANGED <<mem, disk>>
  <2>1. PICK ok \in BOOLEAN :
          /\ AcceptsSource(tmdb.src) /\ g \notin used
          /\ Mutate(TRUE, Derive(mem, g, tmdb.src), ok)
    BY <1>3 DEF CommitTMDBGeneration, store
  <2>2. tmdb.src \in GenID
    BY <1>3 DEF CommitTMDBGeneration, NoCreate, CreateRequest, IInv, TypeOK
  <2>3. /\ ~mem.deleting /\ mem.building = None /\ ~Exists(mem, g)
        /\ mem.active # None
    BY <2>1, <2>2, NoneAssumption DEF AcceptsSource, Accepting, IInv, DrawnIDs
  <2>4. Lively(mem, Derive(mem, g, tmdb.src))
    BY <1>0, <2>2, <2>3, CreateLively
  <2> QED BY <2>1, <2>4, MutateAdvances
<1> QED BY <1>1, <1>2, <1>3 DEF CreateTMDBGeneration, ValidateSource, store

LEMMA UploadAdvances ==
  ASSUME IInv, LifeInv, NEW g \in GenID, UploadStart(g) \/ Upload(g)
  PROVE  Advances
<1>0. mem \in RepositoryState /\ Sound(mem) /\ PendingEnded(mem)
  BY DEF IInv, TypeOK, LifeInv
<1>1. CASE UNCHANGED <<mem, disk>>
  BY <1>1, SameAdvances
<1>2. CASE UploadFail(g)
  <2>1. FailRemove(g) \/ FailMark(g)
    BY <1>2 DEF UploadFail
  <2> QED BY <2>1, FailAdvances
<1>3. CASE UploadCommit(g) /\ ~UNCHANGED <<mem, disk>>
  <2> DEFINE allowed == mem.building = g /\ StateOf(mem, g) = "receiving"
  <2>1. PICK ok \in BOOLEAN : Mutate(allowed, Validated(mem, g), ok)
    BY <1>3 DEF UploadCommit, store
  <2>2. allowed => Lively(mem, Validated(mem, g))
    BY <1>0, StepsLively
  <2>3. allowed \in BOOLEAN
    OBVIOUS
  <2> HIDE DEF allowed
  <2> QED BY <2>1, <2>2, <2>3, MutateAdvances
<1> QED
  BY <1>1, <1>2, <1>3 DEF UploadStart, Upload, UploadStage, UploadCopy, UploadFinish, store

LEMMA MutateStepAdvances ==
  ASSUME LifeInv, NEW g, NEW from, NEW allowed \in BOOLEAN, NEW next, NEW to,
         allowed => Lively(mem, next), MutateStep(g, from, allowed, next, to)
  PROVE  Advances
  BY MutateAdvances DEF MutateStep

LEMMA JobAdvances ==
  ASSUME IInv, LifeInv, NEW g \in GenID, Job(g)
  PROVE  Advances
<1>0. /\ mem \in RepositoryState /\ Sound(mem) /\ PendingEnded(mem)
      /\ files[g].outcomes \in SUBSET Titles
  BY DEF IInv, TypeOK, LifeInv, GenFiles
<1>b. mem.gens[g].summary \in BOOLEAN /\ mem.gens[g].hashes \in BOOLEAN
  BY <1>0, GenType DEF Generation
<1>1. CASE UNCHANGED <<mem, disk>>
  BY <1>1, SameAdvances
<1>2. CASE RecordImporting(g)
  <2> DEFINE allowed == mem.building = g /\ StateOf(mem, g) \in {"validating", "importing"}
  <2>1. allowed => Lively(mem, Imported(mem, g))
    BY <1>0, StepsLively
  <2>2. allowed \in BOOLEAN /\ MutateStep(g, "importing", allowed, Imported(mem, g), "records")
    BY <1>2 DEF RecordImporting
  <2> HIDE DEF allowed
  <2> QED BY <2>1, <2>2, MutateStepAdvances
<1>3. CASE RecordCheckpoint(g)
  <2> DEFINE allowed == CanFinish(g) /\ mem.gens[g].summary
  <2>1. allowed => Lively(mem, Checkpointed(mem, g))
    BY <1>0, StepsLively DEF CanFinish
  <2>2. /\ allowed \in BOOLEAN
        /\ MutateStep(g, "checkpoint", allowed, Checkpointed(mem, g), "validate")
    BY <1>3, <1>b DEF RecordCheckpoint, CanFinish
  <2> HIDE DEF allowed
  <2> QED BY <2>1, <2>2, MutateStepAdvances
<1>4. CASE ActivateGeneration(g)
  <2> DEFINE allowed == CanFinish(g) /\ mem.gens[g].hashes
  <2>1. allowed => Lively(mem, Activated(mem, g))
    BY <1>0, EndLively DEF CanFinish
  <2>2. /\ allowed \in BOOLEAN
        /\ MutateStep(g, "activate", allowed, Activated(mem, g), "finish")
    BY <1>4, <1>b DEF ActivateGeneration, CanFinish
  <2> HIDE DEF allowed
  <2> QED BY <2>1, <2>2, MutateStepAdvances
<1>5. ASSUME NEW from, NEW allowed \in BOOLEAN, allowed => IsEnriching(g),
             MutateStep(g, from, allowed, Progressed(mem, g, files[g].outcomes), "enrich")
      PROVE  Advances
  <2>1. allowed => Lively(mem, Progressed(mem, g, files[g].outcomes))
    BY <1>0, <1>5, StepsLively DEF IsEnriching
  <2> QED BY <1>5, <2>1, MutateStepAdvances
<1>6. CASE ReconcileEnrichmentProgress(g)
  <2> DEFINE found == files[g].outcomes
             r == mem.gens[g]
             ahead == ~(r.done \subseteq found) \/ (r.bytes /\ found = {})
             allowed == IsEnriching(g) /\ ~ahead
  <2>1. \/ UNCHANGED <<mem, disk>>
        \/ MutateStep(g, "reconcile", allowed, Progressed(mem, g, found), "enrich")
    BY <1>6, Zenon DEF ReconcileEnrichmentProgress, ReadStep, store
  <2>2. allowed \in BOOLEAN /\ (allowed => IsEnriching(g))
    OBVIOUS
  <2> HIDE DEF allowed
  <2> QED BY <1>1, <1>5, <2>1, <2>2
<1>7. CASE RecordEnrichmentProgress(g)
  <2> DEFINE allowed == IsEnriching(g) /\ mem.gens[g].done \subseteq files[g].outcomes
  <2>1. /\ allowed \in BOOLEAN /\ (allowed => IsEnriching(g))
        /\ MutateStep(g, "progress", allowed, Progressed(mem, g, files[g].outcomes), "enrich")
    BY <1>7 DEF RecordEnrichmentProgress
  <2> HIDE DEF allowed
  <2> QED BY <1>5, <2>1
<1>8. CASE ClearCheckpointBytes(g)
  <2> DEFINE allowed == IsEnriching(g) /\ mem.gens[g].hashes
  <2>1. allowed => Lively(mem, Cleared(mem, g))
    BY <1>0, StepsLively DEF IsEnriching
  <2>2. allowed \in BOOLEAN /\ MutateStep(g, "clear", allowed, Cleared(mem, g), "activate")
    BY <1>8, <1>b DEF ClearCheckpointBytes, IsEnriching
  <2> HIDE DEF allowed
  <2> QED BY <2>1, <2>2, MutateStepAdvances
<1>9. CASE JobFail(g)
  <2>1. UNCHANGED <<mem, disk>> \/ FailRemove(g) \/ FailMark(g)
    BY <1>9 DEF JobFail, store
  <2> QED BY <1>1, <2>1, FailAdvances
<1> QED
  BY <1>1, <1>2, <1>3, <1>4, <1>6, <1>7, <1>8, <1>9
  DEF Job, JobBegin, Revalidate, JobFails, LocalJob, TMDBJob, WriteRecords, WriteAnalytics,
      ValidateArtifacts, JobFinish, ParseViewingActivity, RemoveStagedSource, EnrichmentSource,
      WriteOutcome, FinishEnrichment, RemoveOutcomes, ReadStep, FileStep, store

LEMMA DeleteAdvances ==
  ASSUME IInv, LifeInv, NEW d \in Deleters, Delete(d)
  PROVE  Advances
<1> DEFINE g == del[d].gen
<1>0. mem \in RepositoryState /\ Sound(mem) /\ PendingEnded(mem)
  BY DEF IInv, TypeOK, LifeInv
<1>1. CASE UNCHANGED <<mem, disk>>
  BY <1>1, SameAdvances
<1>2. g \in GenID
  <2>1. del[d].pc # "idle"
    BY DEF Delete, DeleteWait, DeleteCheck, DeleteFail, DeleteMark, DeleteDirectory, DeleteUnmark
  <2> QED BY <2>1 DEF IInv, TypeOK, NoDelete, DeleteRequest
<1>3. CASE DeleteFail(d)
  <2>1. FailRemove(g) \/ FailMark(g)
    BY <1>3 DEF DeleteFail
  <2> QED BY <1>2, <2>1, FailAdvances
<1>4. CASE DeleteMark(d)
  <2> DEFINE allowed == mem.active # g /\ Exists(mem, g)
  <2>1. Removable(mem, g)
    BY <1>4 DEF DeleteMark, IInv, DeletersHold, Committed
  <2>2. Lively(mem, MarkedPending(mem, g))
    BY <1>0, <1>2, <2>1, EndLively DEF Removable
  <2>3. PICK ok \in BOOLEAN : Mutate(allowed, MarkedPending(mem, g), ok)
    BY <1>4 DEF DeleteMark
  <2>4. allowed \in BOOLEAN
    OBVIOUS
  <2> HIDE DEF allowed
  <2> QED BY <2>2, <2>3, <2>4, MutateAdvances
<1>5. CASE DeleteUnmark(d)
  <2>1. Removable(mem, g)
    BY <1>5 DEF DeleteUnmark, IInv, DeletersHold, Committed
  <2>2. Lively(mem, Removed(mem, g))
    BY <1>0, <1>2, <2>1, EndLively DEF Removable
  <2>3. PICK ok \in BOOLEAN : Mutate(TRUE, Removed(mem, g), ok)
    BY <1>5 DEF DeleteUnmark
  <2> QED BY <2>2, <2>3, MutateAdvances
<1> QED
  BY <1>1, <1>3, <1>4, <1>5 DEF Delete, DeleteWait, DeleteCheck, DeleteDirectory, store

LEMMA EmptyLively ==
  ASSUME NEW s \in RepositoryState
  PROVE  Lively(s, EmptyState)
<1>1. \A h \in GenID : StateOf(EmptyState, h) = "absent"
  BY NoneAssumption DEF EmptyState, StateOf, Absent
<1>2. \A h \in GenID : LifeOf(EmptyState, h) = "absent"
  BY <1>1, LifeValues
<1> QED BY <1>2 DEF Lively, LifeStep, PendingEnded, EmptyState

LEMMA DeletingLively ==
  ASSUME NEW s \in RepositoryState, PendingEnded(s)
  PROVE  Lively(s, MarkedDeleting(s))
<1> DEFINE t == MarkedDeleting(s)
<1>1. t.gens = s.gens /\ t.active = s.active /\ t.pending = s.pending
  BY DEF MarkedDeleting, RepositoryState
<1> HIDE DEF t
<1>2. \A h : StateOf(t, h) = StateOf(s, h)
  BY <1>1 DEF StateOf
<1>3. \A h \in GenID : LifeOf(t, h) = LifeOf(s, h)
  BY <1>2, Zenon DEF LifeOf
<1>4. PendingEnded(t)
  BY <1>1, <1>2 DEF PendingEnded, IsBuilding
<1> QED BY <1>1, <1>3, <1>4 DEF Lively, LifeStep, t

LEMMA ProcessAdvances ==
  ASSUME IInv, LifeInv, DeleteProvider \/ Provider \/ Recover \/ Open \/ Closed \/ Crash
  PROVE  Advances
<1>0. mem \in RepositoryState /\ Sound(mem) /\ PendingEnded(mem)
  BY DEF IInv, TypeOK, LifeInv
<1>1. CASE disk' = disk /\ (mem' = mem \/ mem' = disk)
  BY <1>1, SameAdvances
<1>2. ASSUME NEW ok \in BOOLEAN, Mutate(TRUE, EmptyState, ok) PROVE Advances
  BY <1>0, <1>2, EmptyLively, MutateAdvances
<1>3. CASE DeleteProvider
  <2>1. PICK ok \in BOOLEAN : Mutate(TRUE, MarkedDeleting(mem), ok)
    BY <1>3 DEF DeleteProvider
  <2> QED BY <1>0, <2>1, DeletingLively, MutateAdvances
<1>4. CASE Provider
  BY <1>1, <1>2, <1>4 DEF Provider, ProviderWait, ProviderRemove, ProviderReset, store
<1>5. CASE Recover
  <2>1. CASE RecoverProvider
    BY <1>1, <1>2, <2>1 DEF RecoverProvider, Down
  <2>2. ASSUME NEW g \in GenID, RecoverPending(g) PROVE Advances
    <3>1. Lively(mem, Removed(mem, g))
      BY <1>0, <2>2, EndLively
      DEF RecoverPending, PendingEnded, Sound, Consistent, ValidPending
    <3> QED BY <1>1, <2>2, <3>1, MutateAdvances DEF RecoverPending, Down
  <2>3. CASE RecoverBuilding
    <3>1. CASE UNCHANGED store
      BY <1>1, <3>1 DEF store
    <3>2. CASE ~UNCHANGED store
      <4>1. PICK ok \in BOOLEAN : /\ StateOf(mem, mem.building) = "receiving"
                                  /\ Mutate(TRUE, Validated(mem, mem.building), ok)
        BY <2>3, <3>2, Zenon DEF RecoverBuilding
      <4>2. mem.building \in GenID
        BY <1>0, <4>1 DEF RepositoryState, StateOf
      <4>3. Lively(mem, Validated(mem, mem.building))
        BY <1>0, <4>1, <4>2, StepsLively
      <4> QED BY <4>1, <4>3, MutateAdvances
    <3> QED BY <3>1, <3>2
  <2> QED BY <1>5, <2>1, <2>2, <2>3 DEF Recover
<1>6. CASE Open \/ Closed \/ Crash
  BY <1>1, <1>6 DEF Open, Closed, Crash, Down
<1> QED BY <1>3, <1>4, <1>5, <1>6

LEMMA StepAdvances ==
  ASSUME IInv, LifeInv, [Next]_vars
  PROVE  Advances
<1>1. CASE UNCHANGED <<mem, disk>>
  BY <1>1, SameAdvances
<1>2. CASE Request
  <2>1. CASE ValidateSource \/ \E g \in GenID : SetProfileLabel(g)
    BY <1>1, <2>1 DEF ValidateSource, SetProfileLabel, store
  <2>2. CASE \E d \in Deleters, g \in GenID : DeleteGeneration(d, g)
    BY <1>1, <2>2 DEF DeleteGeneration, store
  <2>3. CASE DeleteProvider
    BY <2>3, ProcessAdvances
  <2> QED BY <1>2, <2>1, <2>2, <2>3, CreateAdvances, UploadAdvances DEF Request
<1>3. CASE \E g \in GenID : Upload(g) \/ Job(g)
  BY <1>3, UploadAdvances, JobAdvances
<1>4. CASE \E d \in Deleters : Delete(d)
  BY <1>4, DeleteAdvances
<1>5. CASE Provider \/ Recover \/ Open \/ Closed \/ Crash
  BY <1>5, ProcessAdvances
<1>6. CASE Close \/ UNCHANGED vars
  BY <1>1, <1>6 DEF Close, vars, store
<1> QED BY <1>2, <1>3, <1>4, <1>5, <1>6 DEF Next

(* Between two states of memory, GenerationLifecycle takes a step or none. *)
LEMMA LifeMaps ==
  ASSUME LifeStep(mem, mem')
  PROVE  [Lifecycle!Next]_(Lifecycle!vars)
<1> DEFINE old == LivesOf(mem)
           new == LivesOf(mem')
           a == mem.active
           b == mem'.active
<1>1. /\ \A h \in GenID : old[h] = LifeOf(mem, h) /\ new[h] = LifeOf(mem', h)
      /\ DOMAIN old = GenID /\ old = [h \in GenID |-> old[h]]
      /\ DOMAIN new = GenID /\ new = [h \in GenID |-> new[h]]
  BY DEF LivesOf
<1>2. LivesOf(mem)' = new /\ (mem.active)' = b
  OBVIOUS
<1> HIDE DEF old, new, a, b
<1>3. \A g \in GenID : \A l : Moves(mem, mem', g, l) => new = [old EXCEPT ![g] = l]
  BY <1>1 DEF Moves
<1>4. CASE b = a /\ \A h \in GenID : LifeOf(mem', h) = LifeOf(mem, h)
  BY <1>1, <1>2, <1>4 DEF Lifecycle!vars, old, a
<1>5. CASE b = None /\ \A h \in GenID : LifeOf(mem', h) = "absent"
  <2>1. new = [h \in GenID |-> "absent"]
    BY <1>1, <1>5
  <2> QED BY <1>2, <1>5, <2>1 DEF Lifecycle!Next, Lifecycle!Clear
<1>6. ASSUME NEW g \in GenID, old[g] = "absent",
             \A h \in GenID : old[h] \notin {"offered", "building"}, b = a,
             \/ new = [old EXCEPT ![g] = "offered"]
             \/ a # None /\ new = [old EXCEPT ![g] = "building"]
      PROVE  Lifecycle!Begin(g)
  BY <1>2, <1>6 DEF Lifecycle!Begin, Lifecycle!IsOpen, Lifecycle!Becomes, old, a
<1>7. ASSUME NEW g \in GenID, old[g] = "offered", new = [old EXCEPT ![g] = "building"], b = a
      PROVE  Lifecycle!Accept(g)
  BY <1>2, <1>7 DEF Lifecycle!Accept, Lifecycle!Becomes, old, a
<1>8. ASSUME NEW g \in GenID, old[g] = "building", new = [old EXCEPT ![g] = "ready"], b = g
      PROVE  Lifecycle!Publish(g)
  BY <1>2, <1>8 DEF Lifecycle!Publish, Lifecycle!Becomes, old, a
<1>9. ASSUME NEW g \in GenID, old[g] \in {"offered", "building"},
             new = [old EXCEPT ![g] = "failed"], b = a
      PROVE  Lifecycle!Discard(g)
  BY <1>2, <1>9 DEF Lifecycle!Discard, Lifecycle!IsOpen, Lifecycle!Becomes, old, a
<1>10. ASSUME NEW g \in GenID, old[g] \in {"ready", "failed"}, g # a,
              new = [old EXCEPT ![g] = "absent"], b = a
       PROVE  Lifecycle!Forget(g)
  BY <1>2, <1>10 DEF Lifecycle!Forget, Lifecycle!Becomes, old, a
<1>11. CASE \E g \in GenID : \/ Lifecycle!Begin(g) \/ Lifecycle!Accept(g) \/ Lifecycle!Publish(g)
                             \/ Lifecycle!Discard(g) \/ Lifecycle!Forget(g)
  BY <1>11 DEF Lifecycle!Next
<1>12. CASE \E g \in GenID :
             LifeOf(mem, g) = "absent" /\ NoneOpen(mem) /\ b = a
               /\ (Moves(mem, mem', g, "offered") \/ (a # None /\ Moves(mem, mem', g, "building")))
  BY <1>1, <1>3, <1>6, <1>11, <1>12 DEF NoneOpen
<1>13. CASE \E g \in GenID :
             LifeOf(mem, g) = "offered" /\ Moves(mem, mem', g, "building") /\ b = a
  BY <1>1, <1>3, <1>7, <1>11, <1>13
<1>14. CASE \E g \in GenID :
             LifeOf(mem, g) = "building" /\ Moves(mem, mem', g, "ready") /\ b = g
  BY <1>1, <1>3, <1>8, <1>11, <1>14
<1>15. CASE \E g \in GenID :
             /\ LifeOf(mem, g) \in {"offered", "building"}
             /\ Moves(mem, mem', g, "failed") /\ b = a
  BY <1>1, <1>3, <1>9, <1>11, <1>15
<1>16. CASE \E g \in GenID :
             /\ LifeOf(mem, g) \in {"ready", "failed"} /\ g # a
             /\ Moves(mem, mem', g, "absent") /\ b = a
  BY <1>1, <1>3, <1>10, <1>11, <1>16
<1> QED
  BY <1>4, <1>5, <1>12, <1>13, <1>14, <1>15, <1>16, Zenon DEF LifeStep, a, b

LEMMA LifeInductive == Spec => [](IInv /\ LifeInv)
<1>1. Init => LifeInv
  <2> SUFFICES ASSUME Init PROVE LifeInv
    OBVIOUS
  <2>1. mem = EmptyState /\ disk = EmptyState /\ EmptyState.pending = {}
    BY DEF Init, EmptyState
  <2> QED BY <2>1, SameLife DEF LifeInv, PendingEnded
<1>2. IInv /\ LifeInv /\ [Next]_vars => LifeInv'
  BY StepAdvances DEF Advances
<1> QED BY <1>1, <1>2, Inductive, PTL DEF Spec

(***************************************************************************)
(* A NetflixLibrary implements GenerationLifecycle: whatever requests,     *)
(* jobs, failures of storage, crashes and recoveries interleave, at most   *)
(* one generation is open, each ends once, the active pointer moves only   *)
(* to what has just become ready, and only an inactive one is forgotten.   *)
(***************************************************************************)
THEOREM LifecycleImplemented == Spec => LifecycleFollowed
<1>1. Init => Lifecycle!Init
  <2> SUFFICES ASSUME Init PROVE Lifecycle!Init
    OBVIOUS
  <2>1. \A h \in GenID : StateOf(mem, h) = "absent"
    BY NoneAssumption DEF Init, EmptyState, StateOf, Absent
  <2>2. \A h \in GenID : LifeOf(mem, h) = "absent"
    BY <2>1, LifeValues
  <2> QED BY <2>2 DEF Lifecycle!Init, LivesOf, Init, EmptyState
<1>2. IInv /\ LifeInv /\ [Next]_vars => [Lifecycle!Next]_(Lifecycle!vars)
  BY StepAdvances, LifeMaps DEF Advances
<1> QED BY <1>1, <1>2, LifeInductive, PTL DEF Spec, LifecycleFollowed, Lifecycle!Spec
=============================================================================
