------------------------------- MODULE SearchIndex -------------------------------
(***************************************************************************)
(* A run that builds or reconciles the search index                        *)
(* (src/internal/retrieval/index.go): it reads the documents once, compares *)
(* them with the rows the index has, deletes and embeds what differs batch  *)
(* by batch, and marks the index ready when nothing is left.  An error, a   *)
(* cancellation or a crash ends it after any step, and another run resumes. *)
(***************************************************************************)
EXTENDS ConversationStore

CONSTANTS
  Models,     \* the embedding models, and what else makes the identity
  Model,      \* the one the embeddings of messages are made with
  BatchSize,  \* options.BatchSize
  Limits      \* bound: the values of options.MaximumDocuments

ASSUME ModelsAssumption == Model \in Models
ASSUME BatchAssumption == BatchSize \in Nat \ {0}
ASSUME LimitsAssumption == Limits \subseteq Nat

VARIABLES
  files,  \* the vector file of each identity
  run     \* the run that indexes, one at a time

NoRun == [pc |-> "idle"]

Vectors == Models \X Texts

(* The first messages, no more than the batch and the limit allow. *)
First(S, left) ==
  {m \in S : Cardinality({n \in S : n <= m}) <= Min({BatchSize, left})}

(* Their place in the batch. *)
Place(m, S) == Cardinality({n \in S : n < m})

VectorsOf(model, batch) ==
  [i \in 1..Cardinality(DOMAIN batch) |->
     <<model, batch[CHOOSE m \in DOMAIN batch : Place(m, DOMAIN batch) = i - 1]>>]

(* The rows of a batch that was appended at row start. *)
RowsOf(batch, start) ==
  [m \in DOMAIN batch |-> [text |-> batch[m], row |-> start + Place(m, DOMAIN batch)]]

Override(named, more) ==
  [m \in DOMAIN named \cup DOMAIN more |-> IF m \in DOMAIN more THEN more[m] ELSE named[m]]

RunOK ==
  /\ run.pc \in {"idle", "delete", "remove", "create", "reconcile", "prune", "open", "batch", "save"}
  /\ run.pc # "idle" =>
       /\ run.model \in Models /\ run.old \in Models /\ run.left \in Nat
       /\ DOMAIN run.documents \subseteq Messages
       /\ run.pending \subseteq DOMAIN run.documents

IndexOK ==
  /\ index.status \in {"none", "building", "ready"}
  /\ index.status # "none" =>
       index.model \in Models /\ Named(index.docs) /\ index.of \in -1..MaxImports

IndexInit ==
  /\ files = [i \in Models |-> EmptyFile]
  /\ run = NoRun

Running(pc) == run.pc = pc

Then(pc) == run' = [run EXCEPT !.pc = pc]

-----------------------------------------------------------------------------
(* The documents are read, and a readiness text is embedded, before         *)
(* anything changes.  The code reads messages and edges in two queries; a   *)
(* model in which texts stand for both reads them at once.                  *)
StartIndex(model, rebuild, limit) ==
  /\ Running("idle")
  /\ run' = [pc |-> IF rebuild THEN "delete" ELSE "create", model |-> model, old |-> model,
             left |-> IF limit = 0 THEN Cardinality(Messages) ELSE limit,
             documents |-> Documents, pending |-> {}, batch |-> {}, start |-> 0, since |-> Quiet]
  /\ UNCHANGED <<tables, importing, files>>

(* DeleteSearchIndexByName: the row and its documents. *)
DeleteIndex ==
  /\ Running("delete")
  /\ index' = NoRow
  /\ run' = IF index = NoRow THEN [run EXCEPT !.pc = "create"]
            ELSE [run EXCEPT !.pc = "remove", !.old = index.model]
  /\ UNCHANGED <<corpus, imports, config, importing, files>>

RemoveFile ==
  /\ Running("remove")
  /\ files' = [files EXCEPT ![run.old] = EmptyFile]
  /\ run' = [run EXCEPT !.pc = "create", !.old = run.model]
  /\ UNCHANGED <<tables, importing>>

(* Mutant: an index with another identity is taken as it is. *)
CreateIndexMutant ==
  /\ Running("create")
  /\ index' = IF index = NoRow
              THEN [status |-> "building", model |-> run.model, docs |-> <<>>, of |-> -1]
              ELSE index
  /\ Then("reconcile")
  /\ UNCHANGED <<corpus, imports, config, importing, files>>

(* GetOrCreateSearchIndex: another identity ends the run. *)
CreateIndex ==
  /\ Running("create")
  /\ \/ /\ index = NoRow
        /\ index' = [status |-> "building", model |-> run.model, docs |-> <<>>, of |-> -1]
        /\ Then("reconcile")
     \/ /\ index # NoRow
        /\ run' = IF index.model = run.model THEN [run EXCEPT !.pc = "reconcile"] ELSE NoRun
        /\ UNCHANGED index
  /\ UNCHANGED <<corpus, imports, config, importing, files>>

Gone == DOMAIN index.docs \ DOMAIN run.documents

(* Mutant: a document that the index has is not compared. *)
ChangedMutant == DOMAIN run.documents \ DOMAIN index.docs

(* Documents that the index lacks, or has with another hash. *)
Changed ==
  {m \in DOMAIN run.documents :
     m \in DOMAIN index.docs => index.docs[m].text # run.documents[m]}

(* Mutant: documents that are gone do not count. *)
ReconcileMutant ==
  /\ Running("reconcile")
  /\ run' = [run EXCEPT !.pc = "prune", !.pending = Changed]
  /\ index' = IF Changed = {} THEN index ELSE [index EXCEPT !.status = "building"]
  /\ UNCHANGED <<corpus, imports, config, importing, files>>

(* Mutant: what is gone is embedded with what changed. *)
ReconcileGoneMutant ==
  /\ Running("reconcile")
  /\ run' = [run EXCEPT !.pc = "prune", !.pending = Changed \cup Gone]
  /\ index' = IF Changed = {} /\ Gone = {} THEN index ELSE [index EXCEPT !.status = "building"]
  /\ UNCHANGED <<corpus, imports, config, importing, files>>

(* The states of the documents are compared with the documents, and the     *)
(* index is marked building when they differ.                               *)
Reconcile ==
  /\ Running("reconcile")
  /\ run' = [run EXCEPT !.pc = "prune", !.pending = Changed]
  /\ index' = IF Changed = {} /\ Gone = {} THEN index ELSE [index EXCEPT !.status = "building"]
  /\ UNCHANGED <<corpus, imports, config, importing, files>>

(* DeleteSearchDocuments *)
Prune ==
  /\ Running("prune")
  /\ index' = [index EXCEPT !.docs = [m \in DOMAIN index.docs \ Gone |-> index.docs[m]]]
  /\ Then("open")
  /\ UNCHANGED <<corpus, imports, config, importing, files>>

File == files[index.model]

OpenIndexFile ==
  /\ Running("open")
  /\ IF Shorter(File, index.docs) THEN run' = NoRun /\ UNCHANGED files
     ELSE Then("batch") /\ files' = [files EXCEPT ![index.model] = Repaired(File, index.docs)]
  /\ UNCHANGED <<tables, importing>>

(* The texts of a batch are embedded, and the vectors appended; or the      *)
(* append is cut off, by an error or a crash.                               *)
AppendDocuments ==
  /\ Running("batch") /\ run.pending # {} /\ run.left > 0 /\ ~File.torn
  /\ LET batch == First(run.pending, run.left)
         vectors == VectorsOf(run.model, [m \in batch |-> run.documents[m]])
     IN \/ /\ files' = [files EXCEPT ![index.model] = Appended(File, vectors)]
           /\ run' = [run EXCEPT !.pc = "save", !.batch = batch, !.start = NextRow(File)]
        \/ /\ \E file \in CutOff(File, vectors) : files' = [files EXCEPT ![index.model] = file]
           /\ run' = NoRun
  /\ UNCHANGED <<tables, importing>>

(* SaveSearchDocuments *)
SaveDocuments ==
  /\ Running("save")
  /\ index' = [index EXCEPT !.docs =
       Override(index.docs, RowsOf([m \in run.batch |-> run.documents[m]], run.start))]
  /\ run' = [run EXCEPT !.pc = "batch", !.pending = run.pending \ run.batch,
                        !.left = run.left - Cardinality(run.batch), !.batch = {}, !.start = 0]
  /\ UNCHANGED <<corpus, imports, config, importing, files>>

(* processedAll, and the count of the documents is as desired. *)
FinishIndex ==
  /\ Running("batch") /\ (run.pending = {} \/ run.left = 0)
  /\ index' = IF /\ run.pending = {}
                 /\ Cardinality(DOMAIN index.docs) = Cardinality(DOMAIN run.documents)
              THEN [index EXCEPT !.status = "ready", !.of = IF Undisturbed(run.since) THEN run.since ELSE -1]
              ELSE index
  /\ run' = NoRun
  /\ UNCHANGED <<corpus, imports, config, importing, files>>

(* An error or a cancellation ends the run. *)
StopIndex ==
  /\ ~Running("idle")
  /\ run' = NoRun
  /\ UNCHANGED <<tables, importing, files>>

IndexStep ==
  \/ DeleteIndex \/ RemoveFile \/ CreateIndex \/ Reconcile \/ Prune
  \/ OpenIndexFile \/ AppendDocuments \/ SaveDocuments \/ FinishIndex
=============================================================================
