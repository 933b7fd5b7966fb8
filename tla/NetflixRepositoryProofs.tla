------------------------ MODULE NetflixRepositoryProofs ------------------------
(***************************************************************************)
(* What each mutation of the repository keeps: its type, and the facts     *)
(* validateRepositoryState requires, under the conditions its caller has   *)
(* established.  The module holds no temporal formula.                     *)
(***************************************************************************)
EXTENDS NetflixRepository, TLAPS

LEMMA AbsentType == Absent \in Generation
  BY DEF Absent, Generation, Levels, GenStates

LEMMA EmptyType == EmptyState \in RepositoryState
  BY AbsentType DEF EmptyState, RepositoryState

(* With changes one generation, and nothing else of the state. *)
LEMMA WithType ==
  ASSUME NEW s \in RepositoryState, NEW g \in GenID, NEW r \in Generation
  PROVE  With(s, g, r) \in RepositoryState
<1>1. [s.gens EXCEPT ![g] = r] \in [GenID -> Generation]
  BY DEF RepositoryState
<1> QED BY <1>1 DEF With, RepositoryState

LEMMA GenType ==
  ASSUME NEW s \in RepositoryState, NEW g \in GenID
  PROVE  s.gens[g] \in Generation
  BY DEF RepositoryState

(* The types of the single fields a mutation sets. *)
LEMMA FieldTypes ==
  ASSUME NEW r \in Generation
  PROVE  /\ [r EXCEPT !.state = "validating"] \in Generation
         /\ [r EXCEPT !.state = "importing", !.summary = TRUE, !.hashes = FALSE] \in Generation
         /\ [r EXCEPT !.hashes = TRUE] \in Generation
         /\ [r EXCEPT !.bytes = FALSE] \in Generation
         /\ [r EXCEPT !.state = "ready"] \in Generation
         /\ [r EXCEPT !.state = "failed", !.hashes = FALSE, !.bytes = FALSE] \in Generation
  BY DEF Generation, GenStates, BuildingStates

LEMMA ProgressType ==
  ASSUME NEW r \in Generation, NEW c \in SUBSET Titles
  PROVE  [r EXCEPT !.done = c, !.bytes = (c # {})] \in Generation
  BY DEF Generation

LEMMA NewTypes ==
  ASSUME NEW source \in GenID
  PROVE  NewLocal \in Generation /\ NewTMDB(source) \in Generation
  BY DEF NewLocal, NewTMDB, Absent, Generation, Levels, GenStates, BuildingStates

LEMMA PointerTypes ==
  ASSUME NEW s \in RepositoryState, NEW a \in GenID \cup {None}, NEW b \in GenID \cup {None},
         NEW p \in SUBSET GenID
  PROVE  /\ [s EXCEPT !.building = b] \in RepositoryState
         /\ [s EXCEPT !.active = a, !.building = b] \in RepositoryState
         /\ [s EXCEPT !.pending = p, !.building = b] \in RepositoryState
         /\ [s EXCEPT !.pending = p, !.active = a, !.building = b] \in RepositoryState
         /\ [s EXCEPT !.deleting = TRUE] \in RepositoryState
  BY DEF RepositoryState

LEMMA WithoutType ==
  ASSUME NEW p \in GenID \cup {None}, NEW g \in GenID
  PROVE  Without(p, g) \in GenID \cup {None}
  BY DEF Without

LEMMA StepTypes ==
  ASSUME NEW s \in RepositoryState, NEW g \in GenID, NEW c \in SUBSET Titles
  PROVE  /\ Validated(s, g) \in RepositoryState
         /\ Imported(s, g) \in RepositoryState
         /\ Checkpointed(s, g) \in RepositoryState
         /\ Progressed(s, g, c) \in RepositoryState
         /\ Cleared(s, g) \in RepositoryState
  BY GenType, FieldTypes, ProgressType, WithType
  DEF Validated, Imported, Checkpointed, Progressed, Cleared

LEMMA CreateTypes ==
  ASSUME NEW s \in RepositoryState, NEW g \in GenID, NEW source \in GenID
  PROVE  Received(s, g) \in RepositoryState /\ Derive(s, g, source) \in RepositoryState
  BY NewTypes, WithType, PointerTypes DEF Received, Derive

LEMMA EndTypes ==
  ASSUME NEW s \in RepositoryState, NEW g \in GenID
  PROVE  /\ Activated(s, g) \in RepositoryState
         /\ Failed(s, g) \in RepositoryState
         /\ MarkedPending(s, g) \in RepositoryState
         /\ Removed(s, g) \in RepositoryState
         /\ MarkedDeleting(s) \in RepositoryState
<1>1. s.active \in GenID \cup {None} /\ s.building \in GenID \cup {None}
  BY DEF RepositoryState
<1>2. Without(s.active, g) \in GenID \cup {None} /\ Without(s.building, g) \in GenID \cup {None}
  BY <1>1, WithoutType
<1>3. Activated(s, g) \in RepositoryState
  BY GenType, FieldTypes, WithType, PointerTypes DEF Activated
<1>4. Failed(s, g) \in RepositoryState
  BY <1>2, GenType, FieldTypes, WithType, PointerTypes DEF Failed
<1>5. MarkedPending(s, g) \in RepositoryState
  <2>1. s.pending \cup {g} \in SUBSET GenID
    BY DEF RepositoryState
  <2> QED BY <1>2, <2>1, PointerTypes DEF MarkedPending
<1>6. Removed(s, g) \in RepositoryState
  <2>1. With(s, g, Absent) \in RepositoryState
    BY AbsentType, WithType
  <2>2. With(s, g, Absent).pending = s.pending
    BY DEF With, RepositoryState
  <2>3. s.pending \ {g} \in SUBSET GenID
    BY DEF RepositoryState
  <2> QED BY <1>2, <2>1, <2>2, <2>3, PointerTypes DEF Removed
<1>7. MarkedDeleting(s) \in RepositoryState
  BY PointerTypes DEF MarkedDeleting
<1> QED BY <1>3, <1>4, <1>5, <1>6, <1>7

-----------------------------------------------------------------------------
(* The fields of the states the mutations build. *)

LEMMA WithFields ==
  ASSUME NEW s \in RepositoryState, NEW g \in GenID, NEW r \in Generation
  PROVE  /\ With(s, g, r).active = s.active
         /\ With(s, g, r).building = s.building
         /\ With(s, g, r).pending = s.pending
         /\ With(s, g, r).deleting = s.deleting
         /\ \A h \in GenID : With(s, g, r).gens[h] = IF h = g THEN r ELSE s.gens[h]
  BY DEF With, RepositoryState

LEMMA EmptySound == Sound(EmptyState)
  BY NoneAssumption
  DEF Sound, Consistent, ValidSources, ValidPointers, ValidPending, ValidBuilding, EmptyState,
      Exists, StateOf, Absent, IsBuilding, BuildingStates

(* A building generation that stays one, valid, of the same source, keeps   *)
(* the whole state sound.                                                   *)
LEMMA BuildStepSound ==
  ASSUME NEW s \in RepositoryState, NEW g \in GenID, NEW r \in Generation,
         Sound(s), IsBuilding(s, g),
         r.state \in BuildingStates, ValidGeneration(r),
         r.level = s.gens[g].level, r.src = s.gens[g].src
  PROVE  Sound(With(s, g, r))
<1> DEFINE t == With(s, g, r)
<1>f. /\ t.active = s.active /\ t.building = s.building
      /\ t.pending = s.pending /\ t.deleting = s.deleting
      /\ \A h \in GenID : t.gens[h] = IF h = g THEN r ELSE s.gens[h]
  BY WithFields
<1> HIDE DEF t
<1>n. \A h \in GenID : h # None
  BY NoneAssumption
<1>0. /\ \A h \in GenID : Exists(t, h) <=> Exists(s, h)
      /\ \A h \in GenID : IsBuilding(t, h) <=> IsBuilding(s, h)
      /\ \A h \in GenID : IsReadyLocal(t, h) <=> IsReadyLocal(s, h)
      /\ \A h \in GenID : StateOf(s, h) = "ready" => StateOf(t, h) = "ready"
  BY <1>f, <1>n DEF Exists, StateOf, IsBuilding, IsReadyLocal, BuildingStates
<1>1. \A h \in GenID : Exists(t, h) => ValidGeneration(t.gens[h])
  BY <1>f, <1>0 DEF Sound, Consistent
<1>2. ValidSources(t)
  <2> SUFFICES ASSUME NEW h \in GenID, Exists(t, h), t.gens[h].level = "tmdb"
               PROVE  t.gens[h].src # h /\ IsReadyLocal(t, t.gens[h].src)
    BY DEF ValidSources
  <2>1. s.gens[h].level = "tmdb" /\ t.gens[h].src = s.gens[h].src /\ Exists(s, h)
    BY <1>f, <1>0
  <2>2. s.gens[h].src # h /\ IsReadyLocal(s, s.gens[h].src)
    BY <2>1 DEF Sound, Consistent, ValidSources
  <2>3. s.gens[h].src \in GenID
    BY <2>2, GenType DEF IsReadyLocal, StateOf, Generation
  <2> QED BY <1>0, <2>1, <2>2, <2>3
<1>3. ValidPointers(t)
  BY <1>f, <1>0 DEF Sound, Consistent, ValidPointers, RepositoryState
<1>4. ValidPending(t)
  BY <1>f, <1>0 DEF Sound, Consistent, ValidPending, RepositoryState
<1>5. ValidBuilding(t)
  BY <1>f, <1>0 DEF Sound, Consistent, ValidBuilding
<1>6. \A h \in t.pending : Derived(t, h) = {}
  <2>1. \A h \in GenID : t.gens[h].src = s.gens[h].src
    BY <1>f
  <2>2. \A h \in GenID : Derived(t, h) = Derived(s, h)
    BY <1>0, <2>1 DEF Derived
  <2> QED BY <1>f, <2>2 DEF Sound, RepositoryState
<1>7. Sound(t)
  BY <1>1, <1>2, <1>3, <1>4, <1>5, <1>6 DEF Sound, Consistent
<1> QED BY <1>7 DEF t

(* The steps of an upload, an import and an enrichment. *)
LEMMA StepsSound ==
  ASSUME NEW s \in RepositoryState, NEW g \in GenID, NEW c \in SUBSET Titles,
         Sound(s)
  PROVE  /\ StateOf(s, g) = "receiving" => Sound(Validated(s, g))
         /\ StateOf(s, g) \in {"validating", "importing"} => Sound(Imported(s, g))
         /\ /\ StateOf(s, g) \in {"importing", "enriching"} /\ s.gens[g].summary
            /\ StateOf(s, g) = "enriching" => s.gens[g].done = Titles
            => Sound(Checkpointed(s, g))
         /\ /\ StateOf(s, g) = "enriching" /\ s.gens[g].done \subseteq c
            => Sound(Progressed(s, g, c))
         /\ StateOf(s, g) = "enriching" => Sound(Cleared(s, g))
<1> DEFINE r == s.gens[g]
<1>1. r \in Generation
  BY GenType
<1>2. StateOf(s, g) = r.state
  BY NoneAssumption DEF StateOf
<1>3. r.state # "absent" => ValidGeneration(r)
  BY <1>2 DEF Sound, Consistent, Exists
<1>4. r.state \in BuildingStates => IsBuilding(s, g)
  BY <1>2 DEF IsBuilding
<1>5. /\ r.level \in Levels /\ r.done \in SUBSET Titles
      /\ r.summary \in BOOLEAN /\ r.hashes \in BOOLEAN /\ r.bytes \in BOOLEAN
  BY <1>1 DEF Generation
<1> HIDE DEF r
<1>6. ASSUME StateOf(s, g) = "receiving" PROVE Sound(Validated(s, g))
  <2> DEFINE q == [r EXCEPT !.state = "validating"]
  <2>1. q \in Generation /\ q.state = "validating" /\ q.level = r.level /\ q.src = r.src
    BY <1>1, FieldTypes DEF Generation
  <2>2. ValidGeneration(q)
    BY <1>1, <1>2, <1>3, <1>6 DEF ValidGeneration, ValidEnrichment, Generation
  <2>3. Sound(With(s, g, q))
    BY <1>2, <1>4, <1>6, <2>1, <2>2, BuildStepSound DEF BuildingStates, r
  <2> QED BY <2>3 DEF Validated, r
<1>7. ASSUME StateOf(s, g) \in {"validating", "importing"} PROVE Sound(Imported(s, g))
  <2> DEFINE q == [r EXCEPT !.state = "importing", !.summary = TRUE, !.hashes = FALSE]
  <2>1. q \in Generation /\ q.state = "importing" /\ q.level = r.level /\ q.src = r.src
    BY <1>1, FieldTypes DEF Generation
  <2>2. ValidGeneration(q)
    BY <1>1, <1>2, <1>3, <1>7 DEF ValidGeneration, ValidEnrichment, Generation
  <2>3. Sound(With(s, g, q))
    BY <1>2, <1>4, <1>7, <2>1, <2>2, BuildStepSound DEF BuildingStates, r
  <2> QED BY <2>3 DEF Imported, r
<1>8. ASSUME StateOf(s, g) \in {"importing", "enriching"}, s.gens[g].summary,
             StateOf(s, g) = "enriching" => s.gens[g].done = Titles
      PROVE  Sound(Checkpointed(s, g))
  <2> DEFINE q == [r EXCEPT !.hashes = TRUE]
  <2>1. q \in Generation /\ q.state = r.state /\ q.level = r.level /\ q.src = r.src
    BY <1>1, FieldTypes DEF Generation
  <2>0. r.summary /\ (r.state = "enriching" => r.done = Titles)
    BY <1>2, <1>8 DEF r
  <2>2. ValidGeneration(q)
    BY <1>1, <1>2, <1>3, <1>8, <2>0 DEF ValidGeneration, ValidEnrichment, Generation
  <2>3. Sound(With(s, g, q))
    BY <1>2, <1>4, <1>8, <2>1, <2>2, BuildStepSound DEF BuildingStates, r
  <2> QED BY <2>3 DEF Checkpointed, r
<1>9. ASSUME StateOf(s, g) = "enriching", s.gens[g].done \subseteq c
      PROVE  Sound(Progressed(s, g, c))
  <2> DEFINE q == [r EXCEPT !.done = c, !.bytes = (c # {})]
  <2>1. q \in Generation /\ q.state = r.state /\ q.level = r.level /\ q.src = r.src
        /\ q.done = c /\ q.hashes = r.hashes /\ q.summary = r.summary
    BY <1>1, ProgressType DEF Generation
  <2>0. r.done \subseteq c
    BY <1>9 DEF r
  <2>2. ValidGeneration(r) /\ r.state = "enriching"
    BY <1>2, <1>3, <1>9
  <2>4. r.hashes => c = Titles
    <3>1. r.level # "local"
      BY <2>2 DEF ValidGeneration
    <3> QED BY <2>2, <2>0, <3>1 DEF ValidGeneration, ValidEnrichment
  <2>5. ValidGeneration(q)
    BY <2>1, <2>2, <2>4 DEF ValidGeneration, ValidEnrichment
  <2>3. Sound(With(s, g, q))
    BY <1>2, <1>4, <1>9, <2>1, <2>5, BuildStepSound DEF BuildingStates, r
  <2> QED BY <2>3 DEF Progressed, r
<1>10. ASSUME StateOf(s, g) = "enriching" PROVE Sound(Cleared(s, g))
  <2> DEFINE q == [r EXCEPT !.bytes = FALSE]
  <2>1. q \in Generation /\ q.state = r.state /\ q.level = r.level /\ q.src = r.src
    BY <1>1, FieldTypes DEF Generation
  <2>2. ValidGeneration(q)
    BY <1>1, <1>2, <1>3, <1>10 DEF ValidGeneration, ValidEnrichment, Generation
  <2>3. Sound(With(s, g, q))
    BY <1>2, <1>4, <1>10, <2>1, <2>2, BuildStepSound DEF BuildingStates, r
  <2> QED BY <2>3 DEF Cleared, r
<1> QED BY <1>6, <1>7, <1>8, <1>9, <1>10

LEMMA ActivatedSound ==
  ASSUME NEW s \in RepositoryState, NEW g \in GenID, Sound(s),
         s.building = g, StateOf(s, g) \in {"importing", "enriching"},
         s.gens[g].hashes, ~s.gens[g].bytes
  PROVE  Sound(Activated(s, g))
<1> DEFINE q == [s.gens[g] EXCEPT !.state = "ready"]
           t == Activated(s, g)
<1>1. /\ q \in Generation /\ q.state = "ready" /\ q.level = s.gens[g].level
      /\ q.src = s.gens[g].src /\ q.done = s.gens[g].done /\ q.hashes = s.gens[g].hashes
      /\ q.bytes = s.gens[g].bytes /\ q.summary = s.gens[g].summary
  BY GenType, FieldTypes, ZenonT(60) DEF Generation
<1>2. With(s, g, q) \in RepositoryState
  BY <1>1, WithType
<1> HIDE DEF q
<1>f. /\ t.active = g /\ t.building = None /\ t.pending = s.pending
      /\ t.deleting = s.deleting
      /\ \A h \in GenID : t.gens[h] = IF h = g THEN q ELSE s.gens[h]
  <2>1. t = [With(s, g, q) EXCEPT !.active = g, !.building = None]
    BY DEF Activated, q
  <2> QED BY <1>1, <1>2, <2>1, WithFields DEF RepositoryState
<1> HIDE DEF t
<1>n. \A h \in GenID : h # None
  BY NoneAssumption
<1>3. IsBuilding(s, g) /\ Exists(s, g) /\ StateOf(s, g) = s.gens[g].state
  BY <1>n DEF IsBuilding, BuildingStates, Exists, StateOf
<1>4. /\ \A h \in GenID : Exists(t, h) <=> Exists(s, h)
      /\ \A h \in GenID : IsBuilding(t, h) <=> IsBuilding(s, h) /\ h # g
      /\ \A h \in GenID : IsReadyLocal(s, h) => IsReadyLocal(t, h)
      /\ StateOf(t, g) = "ready"
  BY <1>f, <1>1, <1>n, <1>3 DEF Exists, StateOf, IsBuilding, IsReadyLocal, BuildingStates
<1>5. ValidGeneration(q)
  <2>1. ValidGeneration(s.gens[g]) /\ s.gens[g].state \in {"importing", "enriching"}
    BY <1>3 DEF Sound, Consistent
  <2>2. s.gens[g].level = "tmdb" => s.gens[g].state = "enriching"
    BY <2>1 DEF ValidGeneration
  <2>3. q.level \in {"local", "tmdb"}
    BY <1>1, <2>1, GenType DEF ValidGeneration, Generation, Levels
  <2> QED BY <1>1, <2>1, <2>2, <2>3 DEF ValidGeneration, ValidEnrichment
<1>6. \A h \in GenID : Exists(t, h) => ValidGeneration(t.gens[h])
  BY <1>f, <1>4, <1>5 DEF Sound, Consistent
<1>7. ValidSources(t)
  <2> SUFFICES ASSUME NEW h \in GenID, Exists(t, h), t.gens[h].level = "tmdb"
               PROVE  t.gens[h].src # h /\ IsReadyLocal(t, t.gens[h].src)
    BY DEF ValidSources
  <2>1. s.gens[h].level = "tmdb" /\ t.gens[h].src = s.gens[h].src /\ Exists(s, h)
    BY <1>f, <1>1, <1>4
  <2>2. s.gens[h].src # h /\ IsReadyLocal(s, s.gens[h].src)
    BY <2>1 DEF Sound, Consistent, ValidSources
  <2>3. s.gens[h].src \in GenID
    BY <2>2, GenType DEF IsReadyLocal, StateOf, Generation
  <2> QED BY <1>4, <2>1, <2>2, <2>3
<1>8. ValidPointers(t)
  BY <1>f, <1>4, <1>n DEF ValidPointers
<1>9. ValidPending(t)
  BY <1>f, <1>4, <1>n DEF Sound, Consistent, ValidPending, RepositoryState
<1>10. ValidBuilding(t)
  BY <1>f, <1>4, <1>n DEF Sound, Consistent, ValidBuilding
<1>11. \A h \in t.pending : Derived(t, h) = {}
  <2>1. \A h \in GenID : t.gens[h].src = s.gens[h].src
    BY <1>f, <1>1
  <2>2. \A h \in GenID : Derived(t, h) = Derived(s, h)
    BY <1>4, <2>1 DEF Derived
  <2> QED BY <1>f, <2>2 DEF Sound, RepositoryState
<1> QED BY <1>6, <1>7, <1>8, <1>9, <1>10, <1>11 DEF Sound, Consistent, t

LEMMA FailedSound ==
  ASSUME NEW s \in RepositoryState, NEW g \in GenID, Sound(s)
  PROVE  Sound(Failed(s, g))
<1> SUFFICES ASSUME IsBuilding(s, g) PROVE Sound(Failed(s, g))
  BY DEF Failed
<1> DEFINE q == [s.gens[g] EXCEPT !.state = "failed", !.hashes = FALSE, !.bytes = FALSE]
           t == Failed(s, g)
<1>1. /\ q \in Generation /\ q.state = "failed" /\ q.level = s.gens[g].level
      /\ q.src = s.gens[g].src /\ q.done = s.gens[g].done /\ ~q.hashes /\ ~q.bytes
  BY GenType, FieldTypes, ZenonT(60) DEF Generation
<1>2. With(s, g, q) \in RepositoryState
  BY <1>1, WithType
<1> HIDE DEF q
<1>f. /\ t.active = s.active /\ t.building = Without(s.building, g)
      /\ t.pending = s.pending /\ t.deleting = s.deleting
      /\ \A h \in GenID : t.gens[h] = IF h = g THEN q ELSE s.gens[h]
  <2>1. t = [With(s, g, q) EXCEPT !.building = Without(s.building, g)]
    BY DEF Failed, q
  <2> QED BY <1>1, <1>2, <2>1, WithFields DEF RepositoryState
<1> HIDE DEF t
<1>n. \A h \in GenID : h # None
  BY NoneAssumption
<1>3. Exists(s, g) /\ ~IsReadyLocal(s, g) /\ StateOf(s, g) # "ready"
  BY <1>n DEF IsBuilding, BuildingStates, Exists, StateOf, IsReadyLocal
<1>4. /\ \A h \in GenID : Exists(t, h) <=> Exists(s, h)
      /\ \A h \in GenID : IsBuilding(t, h) <=> IsBuilding(s, h) /\ h # g
      /\ \A h \in GenID : IsReadyLocal(s, h) => IsReadyLocal(t, h)
      /\ \A h \in GenID : StateOf(s, h) = "ready" => StateOf(t, h) = "ready"
  BY <1>f, <1>1, <1>n, <1>3 DEF Exists, StateOf, IsBuilding, IsReadyLocal, BuildingStates
<1>5. ValidGeneration(q)
  <2>1. ValidGeneration(s.gens[g])
    BY <1>3 DEF Sound, Consistent
  <2> QED BY <1>1, <2>1 DEF ValidGeneration, ValidEnrichment
<1>6. \A h \in GenID : Exists(t, h) => ValidGeneration(t.gens[h])
  BY <1>f, <1>4, <1>5 DEF Sound, Consistent
<1>7. ValidSources(t)
  <2> SUFFICES ASSUME NEW h \in GenID, Exists(t, h), t.gens[h].level = "tmdb"
               PROVE  t.gens[h].src # h /\ IsReadyLocal(t, t.gens[h].src)
    BY DEF ValidSources
  <2>1. s.gens[h].level = "tmdb" /\ t.gens[h].src = s.gens[h].src /\ Exists(s, h)
    BY <1>f, <1>1, <1>4
  <2>2. s.gens[h].src # h /\ IsReadyLocal(s, s.gens[h].src)
    BY <2>1 DEF Sound, Consistent, ValidSources
  <2>3. s.gens[h].src \in GenID
    BY <2>2, GenType DEF IsReadyLocal, StateOf, Generation
  <2> QED BY <1>4, <2>1, <2>2, <2>3
<1>8. ValidPointers(t)
  <2>1. t.building # None => t.building = s.building /\ s.building # g
    BY <1>f DEF Without
  <2> QED BY <1>f, <1>4, <1>n, <2>1 DEF ValidPointers, Sound, Consistent, RepositoryState
<1>9. ValidPending(t)
  BY <1>f, <1>4, <1>n DEF Sound, Consistent, ValidPending, RepositoryState, Without
<1>10. ValidBuilding(t)
  BY <1>f, <1>4, <1>n DEF Sound, Consistent, ValidBuilding, Without
<1>11. \A h \in t.pending : Derived(t, h) = {}
  <2>1. \A h \in GenID : t.gens[h].src = s.gens[h].src
    BY <1>f, <1>1
  <2>2. \A h \in GenID : Derived(t, h) = Derived(s, h)
    BY <1>4, <2>1 DEF Derived
  <2> QED BY <1>f, <2>2 DEF Sound, RepositoryState
<1> QED BY <1>6, <1>7, <1>8, <1>9, <1>10, <1>11 DEF Sound, Consistent, t

(* A new generation in a building state, with the building pointer on it. *)
LEMMA CreatedSound ==
  ASSUME NEW s \in RepositoryState, NEW g \in GenID, NEW r \in Generation, Sound(s),
         ~s.deleting, s.building = None, ~Exists(s, g),
         r.state \in BuildingStates, ValidGeneration(r),
         r.level = "tmdb" => r.src # g /\ IsReadyLocal(s, r.src) /\ s.active = r.src
  PROVE  Sound([With(s, g, r) EXCEPT !.building = g])
<1> DEFINE t == [With(s, g, r) EXCEPT !.building = g]
<1>f. /\ t.active = s.active /\ t.building = g /\ t.pending = s.pending
      /\ t.deleting = s.deleting
      /\ \A h \in GenID : t.gens[h] = IF h = g THEN r ELSE s.gens[h]
  <2>1. With(s, g, r) \in RepositoryState
    BY WithType
  <2> QED BY <2>1, WithFields, SMTT(60) DEF RepositoryState
<1> HIDE DEF t
<1>n. \A h \in GenID : h # None
  BY NoneAssumption
<1>1. /\ \A h \in GenID \ {g} : StateOf(t, h) = StateOf(s, h)
      /\ StateOf(t, g) = r.state
  BY <1>f, <1>n DEF StateOf
<1>2. /\ \A h \in GenID : Exists(t, h) <=> Exists(s, h) \/ h = g
      /\ \A h \in GenID : IsBuilding(t, h) <=> IsBuilding(s, h) \/ h = g
      /\ \A h \in GenID : IsReadyLocal(s, h) => IsReadyLocal(t, h) /\ h # g
      /\ \A h \in GenID : StateOf(s, h) = "ready" => StateOf(t, h) = "ready" /\ h # g
  BY <1>f, <1>1 DEF Exists, IsBuilding, IsReadyLocal, BuildingStates
<1>3. \A h \in GenID : Exists(t, h) => ValidGeneration(t.gens[h])
  BY <1>f, <1>2 DEF Sound, Consistent
<1>4. ValidSources(t)
  <2> SUFFICES ASSUME NEW h \in GenID, Exists(t, h), t.gens[h].level = "tmdb"
               PROVE  t.gens[h].src # h /\ IsReadyLocal(t, t.gens[h].src)
    BY DEF ValidSources
  <2>1. t.gens[h].src # h /\ IsReadyLocal(s, t.gens[h].src)
    BY <1>f, <1>2 DEF Sound, Consistent, ValidSources
  <2>2. t.gens[h].src # None
    BY <2>1 DEF IsReadyLocal, StateOf
  <2>3. t.gens[h].src \in GenID
    BY <1>f, <2>2, GenType DEF Generation
  <2> QED BY <1>2, <2>1, <2>3
<1>5. ValidPointers(t)
  BY <1>f, <1>2, <1>n DEF Sound, Consistent, ValidPointers, RepositoryState
<1>6. ValidPending(t)
  BY <1>f, <1>2, <1>n DEF Sound, Consistent, ValidPending, RepositoryState
<1>7. ValidBuilding(t)
  BY <1>f, <1>2, <1>n DEF Sound, Consistent, ValidBuilding
<1>8. \A h \in t.pending : Derived(t, h) = {}
  <2> SUFFICES ASSUME NEW p \in s.pending, NEW h \in GenID, Exists(t, h), t.gens[h].src = p
               PROVE  FALSE
    BY <1>f DEF Derived
  <2>1. p \in GenID /\ p # s.active /\ Derived(s, p) = {}
    BY DEF Sound, Consistent, ValidPending, RepositoryState
  <2>2. CASE h = g
    <3>1. r.src = p /\ p # None
      BY <1>f, <1>n, <2>1, <2>2
    <3>2. r.level = "tmdb"
      BY <3>1, GenType DEF ValidGeneration, ValidEnrichment, Generation, Levels
    <3> QED BY <2>1, <3>1, <3>2
  <2>3. CASE h # g
    BY <1>f, <1>2, <2>1, <2>3 DEF Derived
  <2> QED BY <2>2, <2>3
<1> QED BY <1>3, <1>4, <1>5, <1>6, <1>7, <1>8 DEF Sound, Consistent, t

LEMMA ReceivedSound ==
  ASSUME NEW s \in RepositoryState, NEW g \in GenID, Sound(s),
         ~s.deleting, s.building = None, ~Exists(s, g)
  PROVE  Sound(Received(s, g))
<1>1. NewLocal \in Generation /\ NewLocal.state = "receiving" /\ NewLocal.level = "local"
  BY DEF NewLocal, Absent, Generation, Levels, GenStates, BuildingStates
<1>2. ValidGeneration(NewLocal)
  BY DEF NewLocal, Absent, ValidGeneration, ValidEnrichment
<1> QED BY <1>1, <1>2, CreatedSound DEF Received, BuildingStates

LEMMA DeriveSound ==
  ASSUME NEW s \in RepositoryState, NEW g \in GenID, NEW source \in GenID, Sound(s),
         ~s.deleting, s.building = None, ~Exists(s, g),
         s.active = source, IsReadyLocal(s, source)
  PROVE  Sound(Derive(s, g, source))
<1> DEFINE r == NewTMDB(source)
<1>1. /\ r \in Generation /\ r.state = "enriching" /\ r.level = "tmdb" /\ r.src = source
      /\ r.summary /\ ~r.hashes /\ ~r.bytes
  <2>1. r \in Generation
    BY NewTypes
  <2>2. /\ r.state = "enriching" /\ r.level = "tmdb" /\ r.src = source
        /\ r.summary /\ ~r.hashes /\ ~r.bytes
    BY DEF NewTMDB, Absent
  <2> QED BY <2>1, <2>2
<1> HIDE DEF r
<1>2. ValidGeneration(r)
  BY <1>1, NoneAssumption DEF ValidGeneration, ValidEnrichment
<1>3. source # g
  BY DEF IsReadyLocal, Exists
<1>4. Sound([With(s, g, r) EXCEPT !.building = g])
  BY <1>1, <1>2, <1>3, CreatedSound DEF BuildingStates
<1> QED BY <1>4 DEF Derive, r

LEMMA MarkedPendingSound ==
  ASSUME NEW s \in RepositoryState, NEW g \in GenID, Sound(s),
         Exists(s, g), s.active # g, Derived(s, g) = {}
  PROVE  Sound(MarkedPending(s, g))
<1> DEFINE t == MarkedPending(s, g)
<1>f. /\ t.active = s.active /\ t.building = Without(s.building, g)
      /\ t.pending = s.pending \cup {g} /\ t.deleting = s.deleting /\ t.gens = s.gens
  BY DEF MarkedPending, RepositoryState
<1> HIDE DEF t
<1>n. \A h \in GenID : h # None
  BY NoneAssumption
<1>1. \A h \in GenID : StateOf(t, h) = StateOf(s, h)
  BY <1>f DEF StateOf
<1>2. /\ \A h \in GenID : Exists(t, h) <=> Exists(s, h)
      /\ \A h \in GenID : IsBuilding(t, h) <=> IsBuilding(s, h)
      /\ \A h \in GenID : IsReadyLocal(s, h) => IsReadyLocal(t, h)
  BY <1>f, <1>1 DEF Exists, IsBuilding, IsReadyLocal
<1>3. \A h \in GenID : Exists(t, h) => ValidGeneration(t.gens[h])
  BY <1>f, <1>2 DEF Sound, Consistent
<1>4. ValidSources(t)
  <2>1. \A h \in GenID : s.gens[h].src \in GenID \/ ~IsReadyLocal(s, s.gens[h].src)
    BY GenType DEF Generation, IsReadyLocal, StateOf
  <2> QED BY <1>f, <1>2, <2>1 DEF Sound, Consistent, ValidSources
<1>5. ValidPointers(t)
  BY <1>f, <1>1, <1>2 DEF Sound, Consistent, ValidPointers, RepositoryState, Without
<1>6. ValidPending(t)
  BY <1>f, <1>2, <1>n DEF Sound, Consistent, ValidPending, RepositoryState, Without
<1>7. ValidBuilding(t)
  BY <1>f, <1>2, <1>n DEF Sound, Consistent, ValidBuilding, Without
<1>8. \A h \in t.pending : Derived(t, h) = {}
  <2>1. \A h \in GenID : Derived(t, h) = Derived(s, h)
    BY <1>f, <1>2 DEF Derived
  <2> QED BY <1>f, <2>1 DEF Sound, RepositoryState
<1> QED BY <1>3, <1>4, <1>5, <1>6, <1>7, <1>8 DEF Sound, Consistent, t

LEMMA RemovedFields ==
  ASSUME NEW s \in RepositoryState, NEW g \in GenID
  PROVE  LET t == Removed(s, g) IN
         /\ t.active = Without(s.active, g) /\ t.building = Without(s.building, g)
         /\ t.pending = s.pending \ {g} /\ t.deleting = s.deleting
         /\ \A h \in GenID : t.gens[h] = IF h = g THEN Absent ELSE s.gens[h]
<1>1. With(s, g, Absent) \in RepositoryState
  BY AbsentType, WithType
<1>2. /\ With(s, g, Absent).pending = s.pending
      /\ With(s, g, Absent).deleting = s.deleting
      /\ \A h \in GenID : With(s, g, Absent).gens[h] = IF h = g THEN Absent ELSE s.gens[h]
  BY AbsentType, WithFields
<1> QED BY <1>1, <1>2 DEF Removed, RepositoryState

LEMMA RemovedSound ==
  ASSUME NEW s \in RepositoryState, NEW g \in GenID, Sound(s), Derived(s, g) = {}
  PROVE  Sound(Removed(s, g))
<1> DEFINE t == Removed(s, g)
<1>f. /\ t.active = Without(s.active, g) /\ t.building = Without(s.building, g)
      /\ t.pending = s.pending \ {g} /\ t.deleting = s.deleting
      /\ \A h \in GenID : t.gens[h] = IF h = g THEN Absent ELSE s.gens[h]
  BY RemovedFields
<1> HIDE DEF t
<1>n. /\ \A h \in GenID : h # None
      /\ Absent.state = "absent" /\ Absent.src = None
  BY NoneAssumption DEF Absent
<1>1. /\ \A h \in GenID \ {g} : StateOf(t, h) = StateOf(s, h) /\ t.gens[h] = s.gens[h]
      /\ StateOf(t, g) = "absent"
  BY <1>f, <1>n DEF StateOf
<1>2. \A h \in GenID : /\ Exists(t, h) <=> Exists(s, h) /\ h # g
                       /\ IsBuilding(t, h) <=> IsBuilding(s, h) /\ h # g
                       /\ IsReadyLocal(t, h) <=> IsReadyLocal(s, h) /\ h # g
  BY <1>1 DEF Exists, IsBuilding, IsReadyLocal, BuildingStates
<1>3. \A h \in GenID : Exists(t, h) => ValidGeneration(t.gens[h])
  BY <1>1, <1>2 DEF Sound, Consistent
<1>4. ValidSources(t)
  <2> SUFFICES ASSUME NEW h \in GenID, Exists(t, h), t.gens[h].level = "tmdb"
               PROVE  t.gens[h].src # h /\ IsReadyLocal(t, t.gens[h].src)
    BY DEF ValidSources
  <2>1. Exists(s, h) /\ h # g /\ t.gens[h] = s.gens[h]
    BY <1>1, <1>2
  <2>2. t.gens[h].src # h /\ IsReadyLocal(s, t.gens[h].src)
    BY <2>1 DEF Sound, Consistent, ValidSources
  <2>3. t.gens[h].src # g
    BY <2>1 DEF Derived
  <2>4. t.gens[h].src \in GenID
    BY <2>1, <2>2, GenType DEF IsReadyLocal, StateOf, Generation
  <2> QED BY <1>2, <2>2, <2>3, <2>4
<1>5. ValidPointers(t)
  <2>1. t.active # None => t.active = s.active /\ t.active # g
    BY <1>f DEF Without
  <2>2. t.building # None => t.building = s.building /\ t.building # g
    BY <1>f DEF Without
  <2> QED BY <1>1, <1>2, <2>1, <2>2 DEF Sound, Consistent, ValidPointers, RepositoryState
<1>6. ValidPending(t)
  BY <1>f, <1>2, <1>n DEF Sound, Consistent, ValidPending, RepositoryState, Without
<1>7. ValidBuilding(t)
  BY <1>f, <1>2, <1>n DEF Sound, Consistent, ValidBuilding, Without
<1>8. \A h \in t.pending : Derived(t, h) = {}
  <2>1. \A h \in GenID : Derived(t, h) \subseteq Derived(s, h)
    BY <1>1, <1>2 DEF Derived
  <2> QED BY <1>f, <2>1 DEF Sound, RepositoryState
<1> QED BY <1>3, <1>4, <1>5, <1>6, <1>7, <1>8 DEF Sound, Consistent, t

LEMMA MarkedDeletingSound ==
  ASSUME NEW s \in RepositoryState, Sound(s)
  PROVE  Sound(MarkedDeleting(s))
<1> DEFINE t == MarkedDeleting(s)
<1>f. /\ t.active = s.active /\ t.building = s.building
      /\ t.pending = s.pending /\ t.gens = s.gens
  BY DEF MarkedDeleting, RepositoryState
<1>d. t.deleting
  BY DEF MarkedDeleting, RepositoryState
<1> HIDE DEF t
<1>1. \A h \in GenID : StateOf(t, h) = StateOf(s, h)
  BY <1>f DEF StateOf
<1>2. /\ \A h \in GenID : Exists(t, h) <=> Exists(s, h)
      /\ \A h \in GenID : IsBuilding(t, h) <=> IsBuilding(s, h)
      /\ \A h \in GenID : IsReadyLocal(s, h) => IsReadyLocal(t, h)
  BY <1>f, <1>1 DEF Exists, IsBuilding, IsReadyLocal
<1>3. \A h \in GenID : s.gens[h].src \in GenID \/ ~IsReadyLocal(s, s.gens[h].src)
  BY GenType DEF Generation, IsReadyLocal, StateOf
<1>4. (\A h \in GenID : Exists(t, h) => ValidGeneration(t.gens[h])) /\ ValidSources(t)
  BY <1>f, <1>2, <1>3 DEF Sound, Consistent, ValidSources
<1>5. ValidPointers(t)
  BY <1>f, <1>1, <1>2 DEF Sound, Consistent, ValidPointers, RepositoryState
<1>6. ValidPending(t)
  BY <1>f, <1>2 DEF Sound, Consistent, ValidPending, RepositoryState
<1>7. ValidBuilding(t)
  BY <1>d DEF ValidBuilding
<1>8. \A h \in t.pending : Derived(t, h) = {}
  <2>1. \A h \in GenID : Derived(t, h) = Derived(s, h)
    BY <1>f, <1>2 DEF Derived
  <2> QED BY <1>f, <2>1 DEF Sound, RepositoryState
<1> QED BY <1>4, <1>5, <1>6, <1>7, <1>8 DEF Sound, Consistent, t

-----------------------------------------------------------------------------
(***************************************************************************)
(* What a mutation from s to t leaves of generation h to the requests and  *)
(* jobs that work on other generations: it brings nothing back, and a      *)
(* generation that still builds is as it was.                              *)
(***************************************************************************)
Undisturbed(s, t, h) ==
  /\ Exists(t, h) => Exists(s, h)
  /\ Removable(s, h) => Removable(t, h)
  /\ IsBuilding(t, h) =>
       /\ IsBuilding(s, h)
       /\ StateOf(t, h) = "enriching" => StateOf(s, h) = "enriching"
       /\ t.gens[h].level = s.gens[h].level
       /\ t.gens[h].done = s.gens[h].done
       /\ t.gens[h].bytes = s.gens[h].bytes

LEMMA SameUndisturbed ==
  ASSUME NEW s, NEW h PROVE Undisturbed(s, s, h)
  BY DEF Undisturbed

(* A step of a building generation leaves the others alone. *)
LEMMA BuildStepUndisturbed ==
  ASSUME NEW s \in RepositoryState, NEW g \in GenID, NEW r \in Generation,
         IsBuilding(s, g), r.src = s.gens[g].src, NEW h \in GenID \ {g}
  PROVE  Undisturbed(s, With(s, g, r), h)
<1> DEFINE t == With(s, g, r)
<1>f. /\ t.active = s.active
      /\ \A i \in GenID : t.gens[i] = IF i = g THEN r ELSE s.gens[i]
  BY WithFields
<1> HIDE DEF t
<1>1. StateOf(t, h) = StateOf(s, h) /\ t.gens[h] = s.gens[h]
  BY <1>f, NoneAssumption DEF StateOf
<1>2. Exists(s, g)
  BY DEF Exists, IsBuilding, BuildingStates
<1>3. \A i \in GenID : Exists(t, i) => Exists(s, i)
  BY <1>f, <1>2, NoneAssumption DEF Exists, StateOf
<1>4. \A i \in GenID : t.gens[i].src = s.gens[i].src
  BY <1>f
<1>5. Derived(t, h) \subseteq Derived(s, h)
  BY <1>3, <1>4 DEF Derived
<1>6. Undisturbed(s, t, h)
  BY <1>f, <1>1, <1>3, <1>5 DEF Undisturbed, Removable, IsBuilding
<1> QED BY <1>6 DEF t

(* The upload's commit changes no field a job relies on. *)
LEMMA ValidatedUndisturbed ==
  ASSUME NEW s \in RepositoryState, NEW g \in GenID, StateOf(s, g) = "receiving",
         NEW h \in GenID
  PROVE  Undisturbed(s, Validated(s, g), h)
<1> DEFINE r == [s.gens[g] EXCEPT !.state = "validating"]
           t == With(s, g, r)
<1>1. /\ r \in Generation /\ r.state = "validating" /\ r.src = s.gens[g].src
      /\ r.level = s.gens[g].level /\ r.done = s.gens[g].done /\ r.bytes = s.gens[g].bytes
  BY GenType, FieldTypes, ZenonT(60) DEF Generation
<1> HIDE DEF r
<1>2. IsBuilding(s, g) /\ Exists(s, g)
  BY DEF IsBuilding, BuildingStates, Exists
<1>3. CASE h # g
  BY <1>1, <1>2, <1>3, BuildStepUndisturbed DEF Validated, r
<1>4. CASE h = g
  <2>1. t.gens[g] = r
    BY <1>1, WithFields
  <2>2. StateOf(t, g) = "validating"
    BY <2>1, <1>1, NoneAssumption DEF StateOf
  <2> HIDE DEF t
  <2>3. Undisturbed(s, t, g)
    BY <1>1, <1>2, <2>1, <2>2 DEF Undisturbed, Removable
  <2> QED BY <1>4, <2>3 DEF Validated, r, t
<1> QED BY <1>3, <1>4

LEMMA CreatedUndisturbed ==
  ASSUME NEW s \in RepositoryState, NEW g \in GenID, NEW r \in Generation,
         NEW h \in GenID \ {g}, r.src = None \/ r.src = s.active
  PROVE  Undisturbed(s, [With(s, g, r) EXCEPT !.building = g], h)
<1> DEFINE t == [With(s, g, r) EXCEPT !.building = g]
<1>f. /\ t.active = s.active
      /\ \A i \in GenID : t.gens[i] = IF i = g THEN r ELSE s.gens[i]
  <2>1. With(s, g, r) \in RepositoryState
    BY WithType
  <2>2. t.active = With(s, g, r).active /\ t.gens = With(s, g, r).gens
    BY <2>1 DEF RepositoryState
  <2> HIDE DEF t
  <2> QED BY <2>2, WithFields
<1> HIDE DEF t
<1>1. StateOf(t, h) = StateOf(s, h) /\ t.gens[h] = s.gens[h]
  BY <1>f, NoneAssumption DEF StateOf
<1>2. \A i \in GenID \ {g} : Exists(t, i) => Exists(s, i)
  BY <1>f, NoneAssumption DEF Exists, StateOf
<1>3. s.active # h => Derived(t, h) \subseteq Derived(s, h)
  <2> SUFFICES ASSUME s.active # h, NEW i \in Derived(t, h) PROVE i \in Derived(s, h)
    OBVIOUS
  <2>1. i \in GenID /\ Exists(t, i) /\ t.gens[i].src = h
    BY DEF Derived
  <2>2. i # g
    BY <1>f, <2>1, NoneAssumption
  <2>3. Exists(s, i) /\ s.gens[i].src = h
    BY <1>f, <1>2, <2>1, <2>2
  <2> QED BY <2>1, <2>3 DEF Derived
<1>4. Undisturbed(s, t, h)
  BY <1>f, <1>1, <1>3 DEF Undisturbed, Removable, IsBuilding, Exists
<1> QED BY <1>4 DEF t

(* The ends of a generation: activation, failure, removal. *)
LEMMA EndUndisturbed ==
  ASSUME NEW s \in RepositoryState, NEW t \in RepositoryState, NEW g \in GenID,
         \/ t.active = s.active
         \/ t.active = g /\ IsBuilding(s, g)
         \/ t.active = None,
         ~IsBuilding(t, g),
         Exists(t, g) => Exists(s, g) /\ t.gens[g].src = s.gens[g].src,
         \A i \in GenID \ {g} : t.gens[i] = s.gens[i],
         NEW h \in GenID
  PROVE  Undisturbed(s, t, h)
<1>1. \A i \in GenID \ {g} : StateOf(t, i) = StateOf(s, i)
  BY NoneAssumption DEF StateOf
<1>2. \A i \in GenID : Exists(t, i) => Exists(s, i)
  BY <1>1 DEF Exists
<1>3. Derived(t, h) \subseteq Derived(s, h)
  <2> SUFFICES ASSUME NEW i \in Derived(t, h) PROVE i \in Derived(s, h)
    OBVIOUS
  <2>1. i \in GenID /\ Exists(t, i) /\ t.gens[i].src = h
    BY DEF Derived
  <2>2. t.gens[i].src = s.gens[i].src
    BY <2>1
  <2> QED BY <1>2, <2>1, <2>2 DEF Derived
<1>4. Removable(s, h) => Removable(t, h)
  BY <1>1, <1>3, NoneAssumption DEF Removable, IsBuilding
<1>5. CASE h = g
  BY <1>2, <1>4, <1>5 DEF Undisturbed
<1>6. CASE h # g
  BY <1>1, <1>2, <1>4, <1>6 DEF Undisturbed, IsBuilding
<1> QED BY <1>5, <1>6

LEMMA ActivatedUndisturbed ==
  ASSUME NEW s \in RepositoryState, NEW g \in GenID, IsBuilding(s, g), NEW h \in GenID
  PROVE  Undisturbed(s, Activated(s, g), h)
<1> DEFINE q == [s.gens[g] EXCEPT !.state = "ready"]
           t == Activated(s, g)
<1>1. q \in Generation /\ q.state = "ready" /\ q.src = s.gens[g].src
  BY GenType, FieldTypes DEF Generation
<1>2. With(s, g, q) \in RepositoryState
  BY <1>1, WithType
<1>t. t \in RepositoryState
  BY EndTypes
<1> HIDE DEF q
<1>f. t.active = g /\ \A i \in GenID : t.gens[i] = IF i = g THEN q ELSE s.gens[i]
  <2>1. t = [With(s, g, q) EXCEPT !.active = g, !.building = None]
    BY DEF Activated, q
  <2>2. t.active = g /\ t.gens = With(s, g, q).gens
    BY <1>2, <2>1, NoneAssumption DEF RepositoryState
  <2> QED BY <1>1, <2>2, WithFields
<1> HIDE DEF t
<1>3. ~IsBuilding(t, g) /\ Exists(s, g)
  BY <1>1, <1>f, NoneAssumption DEF IsBuilding, BuildingStates, Exists, StateOf
<1> QED BY <1>1, <1>t, <1>f, <1>3, EndUndisturbed DEF t

LEMMA FailedUndisturbed ==
  ASSUME NEW s \in RepositoryState, NEW g \in GenID, NEW h \in GenID
  PROVE  Undisturbed(s, Failed(s, g), h)
<1> SUFFICES ASSUME IsBuilding(s, g) PROVE Undisturbed(s, Failed(s, g), h)
  BY SameUndisturbed DEF Failed
<1> DEFINE q == [s.gens[g] EXCEPT !.state = "failed", !.hashes = FALSE, !.bytes = FALSE]
           t == Failed(s, g)
<1>1. q \in Generation /\ q.state = "failed" /\ q.src = s.gens[g].src
  BY GenType, FieldTypes, ZenonT(60) DEF Generation
<1>2. With(s, g, q) \in RepositoryState
  BY <1>1, WithType
<1>t. t \in RepositoryState
  BY EndTypes
<1> HIDE DEF q
<1>f. t.active = s.active /\ \A i \in GenID : t.gens[i] = IF i = g THEN q ELSE s.gens[i]
  <2>1. t = [With(s, g, q) EXCEPT !.building = Without(s.building, g)]
    BY DEF Failed, q
  <2> QED BY <1>1, <1>2, <2>1, WithFields DEF RepositoryState
<1> HIDE DEF t
<1>3. ~IsBuilding(t, g) /\ Exists(s, g)
  BY <1>1, <1>f, NoneAssumption DEF IsBuilding, BuildingStates, Exists, StateOf
<1> QED BY <1>1, <1>t, <1>f, <1>3, EndUndisturbed DEF t

LEMMA RemovedUndisturbed ==
  ASSUME NEW s \in RepositoryState, NEW g \in GenID, NEW h \in GenID
  PROVE  Undisturbed(s, Removed(s, g), h)
<1> DEFINE t == Removed(s, g)
<1>t. t \in RepositoryState
  BY EndTypes
<1>f. /\ t.active = Without(s.active, g)
      /\ \A i \in GenID : t.gens[i] = IF i = g THEN Absent ELSE s.gens[i]
  BY RemovedFields
<1> HIDE DEF t
<1>1. ~IsBuilding(t, g) /\ ~Exists(t, g)
  BY <1>f, NoneAssumption DEF IsBuilding, BuildingStates, Exists, StateOf, Absent
<1>2. t.active = s.active \/ t.active = None
  BY <1>f DEF Without
<1> QED BY <1>t, <1>f, <1>1, <1>2, EndUndisturbed DEF t

LEMMA MarkedUndisturbed ==
  ASSUME NEW s \in RepositoryState, NEW g \in GenID, NEW h \in GenID
  PROVE  Undisturbed(s, MarkedPending(s, g), h) /\ Undisturbed(s, MarkedDeleting(s), h)
<1>1. \A t : t.active = s.active /\ t.gens = s.gens => Undisturbed(s, t, h)
  <2> SUFFICES ASSUME NEW t, t.active = s.active, t.gens = s.gens PROVE Undisturbed(s, t, h)
    OBVIOUS
  <2>1. \A i \in GenID : Exists(t, i) => Exists(s, i)
    BY DEF Exists, StateOf
  <2>2. Derived(t, h) \subseteq Derived(s, h)
    BY <2>1 DEF Derived
  <2>3. StateOf(t, h) = StateOf(s, h)
    BY DEF StateOf
  <2> QED BY <2>1, <2>2, <2>3 DEF Undisturbed, Removable, IsBuilding
<1>2. MarkedPending(s, g).active = s.active /\ MarkedPending(s, g).gens = s.gens
  BY DEF MarkedPending, RepositoryState
<1>3. MarkedDeleting(s).active = s.active /\ MarkedDeleting(s).gens = s.gens
  BY DEF MarkedDeleting, RepositoryState
<1> QED BY <1>1, <1>2, <1>3

LEMMA EmptyUndisturbed ==
  ASSUME NEW s, NEW h \in GenID
  PROVE  Undisturbed(s, EmptyState, h)
<1>1. \A i \in GenID : StateOf(EmptyState, i) = "absent"
  BY NoneAssumption DEF EmptyState, StateOf, Absent
<1>2. EmptyState.active # h
  BY NoneAssumption DEF EmptyState
<1>3. Derived(EmptyState, h) = {}
  BY <1>1 DEF Derived, Exists
<1> QED BY <1>1, <1>2, <1>3 DEF Undisturbed, Removable, IsBuilding, BuildingStates, Exists

-----------------------------------------------------------------------------
(* What a mutation changes, and what it leaves alone. *)

(* t differs from s in generation g only, which has this state and level. *)
Changes(s, t, g, state, level) ==
  /\ StateOf(t, g) = state /\ t.gens[g].level = level
  /\ \A h \in GenID \ {g} : t.gens[h] = s.gens[h]

Pointers(s) == <<s.active, s.building, s.pending, s.deleting>>

LEMMA WithChanges ==
  ASSUME NEW s \in RepositoryState, NEW g \in GenID, NEW r \in Generation
  PROVE  /\ Changes(s, With(s, g, r), g, r.state, r.level)
         /\ Pointers(With(s, g, r)) = Pointers(s)
  BY WithFields, NoneAssumption DEF Changes, Pointers, StateOf

(* The mutations of a generation that is being built. *)
LEMMA StepChanges ==
  ASSUME NEW s \in RepositoryState, NEW g \in GenID, NEW c \in SUBSET Titles
  PROVE  LET level == s.gens[g].level
             state == StateOf(s, g) IN
         /\ /\ Changes(s, Validated(s, g), g, "validating", level)
            /\ Pointers(Validated(s, g)) = Pointers(s)
         /\ /\ Changes(s, Imported(s, g), g, "importing", level)
            /\ Pointers(Imported(s, g)) = Pointers(s)
         /\ /\ Changes(s, Checkpointed(s, g), g, state, level)
            /\ Pointers(Checkpointed(s, g)) = Pointers(s)
         /\ /\ Changes(s, Progressed(s, g, c), g, state, level)
            /\ Pointers(Progressed(s, g, c)) = Pointers(s)
         /\ /\ Changes(s, Cleared(s, g), g, state, level)
            /\ Pointers(Cleared(s, g)) = Pointers(s)
<1> DEFINE r == s.gens[g]
<1>1. r \in Generation /\ StateOf(s, g) = r.state
  BY GenType, NoneAssumption DEF StateOf
<1> HIDE DEF r
<1>2. /\ Changes(s, Validated(s, g), g, "validating", r.level)
      /\ Pointers(Validated(s, g)) = Pointers(s)
  <2> DEFINE q == [r EXCEPT !.state = "validating"]
  <2>1. q \in Generation /\ q.state = "validating" /\ q.level = r.level
    BY <1>1, FieldTypes DEF Generation
  <2>2. Validated(s, g) = With(s, g, q)
    BY DEF Validated, r
  <2> HIDE DEF q
  <2> QED BY <2>1, <2>2, WithChanges
<1>3. /\ Changes(s, Imported(s, g), g, "importing", r.level)
      /\ Pointers(Imported(s, g)) = Pointers(s)
  <2> DEFINE q == [r EXCEPT !.state = "importing", !.summary = TRUE, !.hashes = FALSE]
  <2>1. q \in Generation /\ q.state = "importing" /\ q.level = r.level
    BY <1>1, FieldTypes DEF Generation
  <2>2. Imported(s, g) = With(s, g, q)
    BY DEF Imported, r
  <2> HIDE DEF q
  <2> QED BY <2>1, <2>2, WithChanges
<1>4. /\ Changes(s, Checkpointed(s, g), g, r.state, r.level)
      /\ Pointers(Checkpointed(s, g)) = Pointers(s)
  <2> DEFINE q == [r EXCEPT !.hashes = TRUE]
  <2>1. q \in Generation /\ q.state = r.state /\ q.level = r.level
    BY <1>1, FieldTypes DEF Generation
  <2>2. Checkpointed(s, g) = With(s, g, q)
    BY DEF Checkpointed, r
  <2> HIDE DEF q
  <2> QED BY <2>1, <2>2, WithChanges
<1>5. /\ Changes(s, Progressed(s, g, c), g, r.state, r.level)
      /\ Pointers(Progressed(s, g, c)) = Pointers(s)
  <2> DEFINE q == [r EXCEPT !.done = c, !.bytes = (c # {})]
  <2>1. q \in Generation /\ q.state = r.state /\ q.level = r.level
    BY <1>1, ProgressType DEF Generation
  <2>2. Progressed(s, g, c) = With(s, g, q)
    BY DEF Progressed, r
  <2> HIDE DEF q
  <2> QED BY <2>1, <2>2, WithChanges
<1>6. /\ Changes(s, Cleared(s, g), g, r.state, r.level)
      /\ Pointers(Cleared(s, g)) = Pointers(s)
  <2> DEFINE q == [r EXCEPT !.bytes = FALSE]
  <2>1. q \in Generation /\ q.state = r.state /\ q.level = r.level
    BY <1>1, FieldTypes DEF Generation
  <2>2. Cleared(s, g) = With(s, g, q)
    BY DEF Cleared, r
  <2> HIDE DEF q
  <2> QED BY <2>1, <2>2, WithChanges
<1> QED BY <1>1, <1>2, <1>3, <1>4, <1>5, <1>6 DEF r

(* The mutations that move a pointer. *)
LEMMA CreateChanges ==
  ASSUME NEW s \in RepositoryState, NEW g \in GenID, NEW source \in GenID
  PROVE  /\ Changes(s, Received(s, g), g, "receiving", "local")
         /\ Pointers(Received(s, g)) = <<s.active, g, s.pending, s.deleting>>
         /\ Changes(s, Derive(s, g, source), g, "enriching", "tmdb")
         /\ Pointers(Derive(s, g, source)) = <<s.active, g, s.pending, s.deleting>>
<1>1. ASSUME NEW r \in Generation
      PROVE  LET t == [With(s, g, r) EXCEPT !.building = g] IN
             Changes(s, t, g, r.state, r.level)
               /\ Pointers(t) = <<s.active, g, s.pending, s.deleting>>
  <2> DEFINE t == [With(s, g, r) EXCEPT !.building = g]
  <2>1. With(s, g, r) \in RepositoryState
    BY WithType
  <2>2. /\ t.gens = With(s, g, r).gens /\ t.building = g
        /\ t.active = With(s, g, r).active /\ t.pending = With(s, g, r).pending
        /\ t.deleting = With(s, g, r).deleting
    BY <2>1 DEF RepositoryState
  <2> HIDE DEF t
  <2>3. Changes(s, t, g, r.state, r.level)
    BY <2>2, WithFields, NoneAssumption DEF Changes, StateOf
  <2>4. Pointers(t) = <<s.active, g, s.pending, s.deleting>>
    BY <2>2, WithFields DEF Pointers
  <2> QED BY <2>3, <2>4 DEF t
<1>2. /\ NewLocal \in Generation /\ NewLocal.state = "receiving" /\ NewLocal.level = "local"
      /\ NewTMDB(source) \in Generation
      /\ NewTMDB(source).state = "enriching" /\ NewTMDB(source).level = "tmdb"
  BY NewTypes DEF NewLocal, NewTMDB, Absent
<1> QED BY <1>1, <1>2 DEF Received, Derive

LEMMA ActivatedChanges ==
  ASSUME NEW s \in RepositoryState, NEW g \in GenID
  PROVE  /\ Changes(s, Activated(s, g), g, "ready", s.gens[g].level)
         /\ Pointers(Activated(s, g)) = <<g, None, s.pending, s.deleting>>
<1> DEFINE q == [s.gens[g] EXCEPT !.state = "ready"]
           t == Activated(s, g)
<1>1. q \in Generation /\ q.state = "ready" /\ q.level = s.gens[g].level
  BY GenType, FieldTypes DEF Generation
<1>2. t = [With(s, g, q) EXCEPT !.active = g, !.building = None]
  BY DEF Activated
<1> HIDE DEF q, t
<1>3. With(s, g, q) \in RepositoryState
  BY <1>1, WithType
<1>4. /\ t.gens = With(s, g, q).gens /\ t.active = g /\ t.building = None
      /\ t.pending = With(s, g, q).pending /\ t.deleting = With(s, g, q).deleting
  BY <1>2, <1>3 DEF RepositoryState
<1>5. Changes(s, t, g, "ready", s.gens[g].level)
  BY <1>1, <1>4, WithFields, NoneAssumption DEF Changes, StateOf
<1>6. Pointers(t) = <<g, None, s.pending, s.deleting>>
  BY <1>1, <1>4, WithFields DEF Pointers
<1> QED BY <1>5, <1>6 DEF t

LEMMA FailedChanges ==
  ASSUME NEW s \in RepositoryState, NEW g \in GenID, IsBuilding(s, g)
  PROVE  /\ Changes(s, Failed(s, g), g, "failed", s.gens[g].level)
         /\ Pointers(Failed(s, g)) = <<s.active, Without(s.building, g), s.pending, s.deleting>>
<1> DEFINE q == [s.gens[g] EXCEPT !.state = "failed", !.hashes = FALSE, !.bytes = FALSE]
           t == Failed(s, g)
<1>1. q \in Generation /\ q.state = "failed" /\ q.level = s.gens[g].level
  BY GenType, FieldTypes, ZenonT(60) DEF Generation
<1>2. t = [With(s, g, q) EXCEPT !.building = Without(s.building, g)]
  BY DEF Failed
<1> HIDE DEF q, t
<1>3. With(s, g, q) \in RepositoryState
  BY <1>1, WithType
<1>4. /\ t.gens = With(s, g, q).gens /\ t.active = With(s, g, q).active
      /\ t.building = Without(s.building, g)
      /\ t.pending = With(s, g, q).pending /\ t.deleting = With(s, g, q).deleting
  BY <1>2, <1>3 DEF RepositoryState
<1>5. Changes(s, t, g, "failed", s.gens[g].level)
  BY <1>1, <1>4, WithFields, NoneAssumption DEF Changes, StateOf
<1>6. Pointers(t) = <<s.active, Without(s.building, g), s.pending, s.deleting>>
  BY <1>1, <1>4, WithFields DEF Pointers
<1> QED BY <1>5, <1>6 DEF t

LEMMA RemovedChanges ==
  ASSUME NEW s \in RepositoryState, NEW g \in GenID
  PROVE  /\ Changes(s, Removed(s, g), g, "absent", "none")
         /\ Pointers(Removed(s, g)) =
              <<Without(s.active, g), Without(s.building, g), s.pending \ {g}, s.deleting>>
  BY RemovedFields, NoneAssumption DEF Changes, Pointers, StateOf, Absent

LEMMA MarkedChanges ==
  ASSUME NEW s \in RepositoryState, NEW g \in GenID
  PROVE  /\ MarkedPending(s, g).gens = s.gens
         /\ Pointers(MarkedPending(s, g)) =
              <<s.active, Without(s.building, g), s.pending \cup {g}, s.deleting>>
         /\ MarkedDeleting(s).gens = s.gens
         /\ Pointers(MarkedDeleting(s)) = <<s.active, s.building, s.pending, TRUE>>
  BY DEF MarkedPending, MarkedDeleting, Pointers, RepositoryState
=============================================================================
