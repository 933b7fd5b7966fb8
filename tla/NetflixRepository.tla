--------------------------- MODULE NetflixRepository ---------------------------
(***************************************************************************)
(* The persisted state of the Netflix provider library, one value of the   *)
(* repositoryState type, what validateRepositoryState accepts, and the     *)
(* state each mutation hands to repository.mutate                          *)
(* (src/internal/providers/netflix/library/).  There are no variables      *)
(* here: NetflixLibrary applies these operators to the state in memory.    *)
(*                                                                         *)
(* A generation is one import of a viewing history (level "local") or one  *)
(* TMDB-enriched replacement of an import (level "tmdb").  The contents of *)
(* one generation are determined by its upload, so a hash, a summary or a  *)
(* count of bytes is only there or not there.                              *)
(***************************************************************************)
EXTENDS FiniteSets, Naturals

CONSTANTS
  GenID,        \* the opaque generation IDs that may be drawn
  None,         \* the empty ID string
  Titles,       \* the unique titles of a viewing history
  MaxHistory    \* product.MaxNetflixGenerationHistory

ASSUME NoneAssumption == None \notin GenID
ASSUME GenIDAssumption == IsFiniteSet(GenID)
ASSUME TitlesAssumption == IsFiniteSet(Titles) /\ Titles # {}
ASSUME HistoryAssumption == MaxHistory \in Nat \ {0}

Levels == {"none", "local", "tmdb"}

BuildingStates == {"receiving", "validating", "importing", "enriching"}

GenStates == BuildingStates \cup {"ready", "failed", "absent"}

(***************************************************************************)
(* One generationState.  "absent" stands for an ID that is not in          *)
(* state.Generations: a total function over the IDs replaces the slice.    *)
(* done is the set of titles counted by CompletedTitleCount and bytes says *)
(* whether EnrichmentCheckpointBytes is not 0.                             *)
(***************************************************************************)
Generation ==
  [level : Levels, src : GenID \cup {None}, state : GenStates,
   summary : BOOLEAN, hashes : BOOLEAN, done : SUBSET Titles, bytes : BOOLEAN]

Absent ==
  [level |-> "none", src |-> None, state |-> "absent",
   summary |-> FALSE, hashes |-> FALSE, done |-> {}, bytes |-> FALSE]

RepositoryState ==
  [active : GenID \cup {None}, building : GenID \cup {None},
   pending : SUBSET GenID, deleting : BOOLEAN, gens : [GenID -> Generation]]

EmptyState ==
  [active |-> None, building |-> None, pending |-> {}, deleting |-> FALSE,
   gens |-> [g \in GenID |-> Absent]]

-----------------------------------------------------------------------------
(* Lookups. *)

StateOf(s, g) == IF g = None THEN "absent" ELSE s.gens[g].state

Exists(s, g) == StateOf(s, g) # "absent"

IsBuilding(s, g) == StateOf(s, g) \in BuildingStates

IsReadyLocal(s, g) == StateOf(s, g) = "ready" /\ s.gens[g].level = "local"

(* The candidates that keep g: DeleteGeneration's scan of SourceGenerationID. *)
Derived(s, g) == {h \in GenID : Exists(s, h) /\ s.gens[h].src = g}

-----------------------------------------------------------------------------
(* validateGenerationState with validateGenerationEnrichmentFields. *)

ValidEnrichment(r) ==
  IF r.level = "local"
    THEN r.src = None /\ r.done = {} /\ ~r.bytes
    ELSE /\ r.src # None
         /\ (r.state = "ready" \/ (r.state = "enriching" /\ r.hashes)) => r.done = Titles
         /\ r.state = "ready" => ~r.bytes

ValidGeneration(r) ==
  /\ r.level # "none"
  /\ ValidEnrichment(r)
  /\ IF r.level = "local"
       THEN r.state # "enriching"
       ELSE r.state \in {"enriching", "ready", "failed"}
  /\ r.state \in {"receiving", "validating"} => ~r.summary /\ ~r.hashes
  /\ r.state = "importing" => (r.hashes => r.summary)
  /\ r.state = "enriching" => r.summary
  /\ r.state = "ready" => r.summary /\ r.hashes
  /\ r.state = "failed" => ~r.hashes /\ ~r.bytes

(* validateRepositoryState: the bound on the history, and the rest. *)

WithinHistory(s) == Cardinality({g \in GenID : Exists(s, g)}) <= MaxHistory

ValidPointers(s) ==
  /\ s.active # None => StateOf(s, s.active) = "ready"
  /\ s.building # None => IsBuilding(s, s.building)
  /\ s.active # None => s.active # s.building

ValidSources(s) ==
  \A g \in GenID : Exists(s, g) /\ s.gens[g].level = "tmdb" =>
    s.gens[g].src # g /\ IsReadyLocal(s, s.gens[g].src)

ValidPending(s) ==
  \A g \in s.pending : Exists(s, g) /\ g # s.active /\ g # s.building

(* Outside a provider deletion the pointer names the one building generation. *)
ValidBuilding(s) ==
  ~s.deleting => \A g \in GenID \ s.pending : IsBuilding(s, g) <=> s.building = g

Consistent(s) ==
  /\ \A g \in GenID : Exists(s, g) => ValidGeneration(s.gens[g])
  /\ ValidSources(s)
  /\ ValidPointers(s)
  /\ ValidPending(s)
  /\ ValidBuilding(s)

ValidState(s) == WithinHistory(s) /\ Consistent(s)

(* Beyond validation: no generation about to be removed has a derived one.  *)
Sound(s) == Consistent(s) /\ \A g \in s.pending : Derived(s, g) = {}

(* A generation that nothing can bring back: terminal, inactive, underived.  *)
Removable(s, g) == ~IsBuilding(s, g) /\ s.active # g /\ Derived(s, g) = {}

-----------------------------------------------------------------------------
(* The states the mutations build. *)

With(s, g, r) == [s EXCEPT !.gens[g] = r]

(* CreateLocalGeneration *)
NewLocal == [Absent EXCEPT !.level = "local", !.state = "receiving"]
Received(s, g) == [With(s, g, NewLocal) EXCEPT !.building = g]

(* CreateTMDBGeneration *)
NewTMDB(source) ==
  [Absent EXCEPT !.level = "tmdb", !.src = source, !.state = "enriching", !.summary = TRUE]
Derive(s, g, source) == [With(s, g, NewTMDB(source)) EXCEPT !.building = g]

(* the upload's commit, and recoverBuildingGeneration on a staged source *)
Validated(s, g) == With(s, g, [s.gens[g] EXCEPT !.state = "validating"])

(* recordImporting *)
Imported(s, g) ==
  With(s, g, [s.gens[g] EXCEPT !.state = "importing", !.summary = TRUE, !.hashes = FALSE])

(* recordCheckpoint *)
Checkpointed(s, g) == With(s, g, [s.gens[g] EXCEPT !.hashes = TRUE])

(* mutateEnrichmentProgressLocked with the outcomes c on disk *)
Progressed(s, g, c) == With(s, g, [s.gens[g] EXCEPT !.done = c, !.bytes = (c # {})])

(* clearEnrichmentCheckpointBytes *)
Cleared(s, g) == With(s, g, [s.gens[g] EXCEPT !.bytes = FALSE])

(* Mutant: the pointer still names what was active before. *)
ActivatedMutant(s, g) ==
  [With(s, g, [s.gens[g] EXCEPT !.state = "ready"]) EXCEPT !.building = None]

(* activateGeneration *)
Activated(s, g) ==
  [With(s, g, [s.gens[g] EXCEPT !.state = "ready"]) EXCEPT !.active = g, !.building = None]

Without(pointer, g) == IF pointer = g THEN None ELSE pointer

(* Mutant: a failed build takes the active pointer with it. *)
FailedMutant(s, g) ==
  IF ~IsBuilding(s, g) THEN s
  ELSE [With(s, g, [s.gens[g] EXCEPT !.state = "failed", !.hashes = FALSE, !.bytes = FALSE])
          EXCEPT !.building = Without(s.building, g), !.active = None]

(* failGeneration: it leaves a missing or terminal generation as it is. *)
Failed(s, g) ==
  IF ~IsBuilding(s, g) THEN s
  ELSE [With(s, g, [s.gens[g] EXCEPT !.state = "failed", !.hashes = FALSE, !.bytes = FALSE])
          EXCEPT !.building = Without(s.building, g)]

(* DeleteGeneration's first mutation *)
MarkedPending(s, g) ==
  [s EXCEPT !.pending = @ \cup {g}, !.building = Without(s.building, g)]

(* removeGenerationState with removeString *)
Removed(s, g) ==
  [With(s, g, Absent) EXCEPT !.pending = @ \ {g}, !.active = Without(s.active, g),
                             !.building = Without(s.building, g)]

(* DeleteProvider's first mutation *)
MarkedDeleting(s) == [s EXCEPT !.deleting = TRUE]
=============================================================================
