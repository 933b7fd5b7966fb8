---------------------------- MODULE EmbeddingService ----------------------------
(***************************************************************************)
(* A pass that embeds messages for classification                          *)
(* (src/internal/embedding/service.go): page by page it lists the messages *)
(* without an embedding, or when it refreshes all messages, and embeds     *)
(* those whose prepared text is not the one that was embedded.  Analyses   *)
(* (src/internal/intent/analyzer.go) read the vectors.                     *)
(***************************************************************************)
EXTENDS SearchIndex

VARIABLES
  vectors,  \* the vector file of the configuration
  pass      \* the pass that embeds, one at a time

NoPass == [pc |-> "idle"]

PassOK ==
  /\ pass.pc \in {"idle", "open", "list", "mark", "append", "save", "complete"}
  /\ pass.pc # "idle" =>
       pass.left \in Nat /\ pass.after \in Messages \cup {0} /\ DOMAIN pass.batch \subseteq Messages

ConfigOK ==
  /\ config.status \in {"none", "building", "ready"}
  /\ config.status # "none" => Named(config.docs)

EmbeddingInit ==
  /\ vectors = EmptyFile
  /\ pass = NoPass

Passing(pc) == pass.pc = pc

(* GetOrCreateEmbeddingConfig *)
StartPass(refresh, limit) ==
  /\ Passing("idle")
  /\ config' = IF config = NoRow THEN [status |-> "building", docs |-> <<>>] ELSE config
  /\ pass' = [pc |-> "open", refresh |-> refresh, after |-> 0, batch |-> <<>>, start |-> 0,
              left |-> IF limit = 0 THEN Cardinality(Messages) + 1 ELSE limit,
              building |-> FALSE, since |-> Quiet]
  /\ UNCHANGED <<corpus, imports, index, importing, files, run, vectors>>

OpenVectors ==
  /\ Passing("open")
  /\ IF Shorter(vectors, config.docs) THEN pass' = NoPass /\ UNCHANGED vectors
     ELSE pass' = [pass EXCEPT !.pc = "list"] /\ vectors' = Repaired(vectors, config.docs)
  /\ UNCHANGED <<tables, importing, files, run>>

(* The WHERE clause of ListEmbeddingCandidates, and its ORDER and LIMIT. *)
Candidates ==
  First({m \in Eligible : m > pass.after /\ (pass.refresh \/ m \notin DOMAIN config.docs)}, pass.left)

Stale(m) == m \in DOMAIN config.docs => config.docs[m].text # corpus[m]

Selected == [m \in {n \in Candidates : Stale(n)} |-> corpus[m]]

(* Mutant: the next page of a refresh begins where this one did. *)
ListCandidatesMutant ==
  /\ Passing("list")
  /\ pass' =
       IF pass.left = 0 THEN NoPass
       ELSE IF Candidates = {} THEN [pass EXCEPT !.pc = "complete"]
       ELSE [pass EXCEPT !.batch = Selected,
                         !.pc = IF DOMAIN Selected = {} THEN "list"
                                ELSE IF pass.building THEN "append" ELSE "mark"]
  /\ UNCHANGED <<tables, importing, files, run, vectors>>

(* Mutant: a page without anything to embed completes the pass. *)
ListCandidatesPageMutant ==
  /\ Passing("list")
  /\ pass' =
       IF pass.left = 0 THEN NoPass
       ELSE IF DOMAIN Selected = {} THEN [pass EXCEPT !.pc = "complete"]
       ELSE [pass EXCEPT !.batch = Selected,
                         !.after = IF pass.refresh THEN Max(Candidates) ELSE 0,
                         !.pc = IF pass.building THEN "append" ELSE "mark"]
  /\ UNCHANGED <<tables, importing, files, run, vectors>>

(* A page is listed: none completes the pass, one without a stale or        *)
(* missing text is passed over, and a limit that is used up ends it.        *)
ListCandidates ==
  /\ Passing("list")
  /\ pass' =
       IF pass.left = 0 THEN NoPass
       ELSE IF Candidates = {} THEN [pass EXCEPT !.pc = "complete"]
       ELSE [pass EXCEPT !.batch = Selected,
                         !.after = IF pass.refresh THEN Max(Candidates) ELSE 0,
                         !.pc = IF DOMAIN Selected = {} THEN "list"
                                ELSE IF pass.building THEN "append" ELSE "mark"]
  /\ UNCHANGED <<tables, importing, files, run, vectors>>

(* MarkEmbeddingConfigBuilding, before the first batch. *)
MarkBuilding ==
  /\ Passing("mark")
  /\ config' = [config EXCEPT !.status = "building"]
  /\ pass' = [pass EXCEPT !.pc = "append", !.building = TRUE]
  /\ UNCHANGED <<corpus, imports, index, importing, files, run, vectors>>

AppendVectors ==
  /\ Passing("append") /\ ~vectors.torn
  /\ LET rows == VectorsOf(Model, pass.batch) IN
       \/ /\ vectors' = Appended(vectors, rows)
          /\ pass' = [pass EXCEPT !.pc = "save", !.start = NextRow(vectors)]
       \/ /\ vectors' \in CutOff(vectors, rows)
          /\ pass' = NoPass
  /\ UNCHANGED <<tables, importing, files, run>>

(* SaveEmbeddingRecords *)
SaveRecords ==
  /\ Passing("save")
  /\ config' = [config EXCEPT !.docs = Override(config.docs, RowsOf(pass.batch, pass.start))]
  /\ pass' = [pass EXCEPT !.pc = "list", !.left = pass.left - Cardinality(DOMAIN pass.batch),
                          !.batch = <<>>, !.start = 0]
  /\ UNCHANGED <<corpus, imports, index, importing, files, run, vectors>>

(* MarkEmbeddingConfigReady *)
FinishPass ==
  /\ Passing("complete")
  /\ config' = [config EXCEPT !.status = "ready"]
  /\ pass' = NoPass
  /\ UNCHANGED <<corpus, imports, index, importing, files, run, vectors>>

(* An error or a cancellation ends the pass. *)
StopPass ==
  /\ ~Passing("idle")
  /\ pass' = NoPass
  /\ UNCHANGED <<tables, importing, files, run, vectors>>

(* A semantic analysis opens, and so repairs, the file, too.  None runs     *)
(* beside a pass.                                                           *)
Analyze ==
  /\ Passing("idle") /\ config # NoRow /\ ~Shorter(vectors, config.docs)
  /\ vectors' = Repaired(vectors, config.docs)
  /\ UNCHANGED <<tables, importing, files, run, pass>>

PassStep ==
  \/ OpenVectors \/ ListCandidates \/ MarkBuilding \/ AppendVectors \/ SaveRecords \/ FinishPass
=============================================================================
