---------------------------- MODULE ConversationStore ----------------------------
(***************************************************************************)
(* The database of imported conversations (src/internal/store), and the    *)
(* importer that writes it (src/internal/ingest/importer.go): every        *)
(* conversation in a transaction of its own, so that an import that fails  *)
(* or crashes leaves what it has written.                                  *)
(*                                                                         *)
(* Every conversation has one message here.  Its text stands for all that  *)
(* is prepared for embedding: the message itself, the messages before and  *)
(* after it, the title, the date and the archive flag.                     *)
(***************************************************************************)
EXTENDS VectorFile, FiniteSets

CONSTANTS
  Messages,    \* the message IDs, in their order
  Texts,       \* the texts messages may have
  Exports,     \* the export files, told apart by their hash
  Content,     \* Content[e][m]: what export e has of message m
  MaxImports,  \* bound: imports begun
  Hidden,      \* a message that is neither indexed nor embedded
  Absent       \* a message the database, or an export, does not have

(* An ID is a prefix and a hash (occurrenceMessageID), and sorts after the *)
(* empty one, which is 0 here.                                             *)
ASSUME MessagesAssumption == Messages \subseteq Nat \ {0} /\ IsFiniteSet(Messages)
ASSUME TextsAssumption == Hidden \notin Texts /\ Absent \notin Texts /\ Hidden # Absent
ASSUME ContentAssumption == Content \in [Exports -> [Messages -> Texts \cup {Hidden, Absent}]]
ASSUME ImportsAssumption == MaxImports \in Nat

VARIABLES
  corpus,     \* tables conversations and messages
  imports,    \* table imports, by import_id
  importing,  \* the import that runs, and the conversations it has yet to write
  index,      \* the row of search_indexes with its search_documents
  config      \* the row of embedding_configs with its embeddings

tables == <<corpus, imports, index, config>>

NotImporting == [id |-> 0, left |-> {}]

(* No row: neither table has one before the first run. *)
NoRow == [status |-> "none"]

(* isSearchableNode, and the WHERE clause of ListEmbeddingCandidates. *)
Eligible == {m \in Messages : corpus[m] \in Texts}

(* BuildDocuments *)
Documents == [m \in Eligible |-> corpus[m]]

Named(docs) ==
  DOMAIN docs \subseteq Messages /\ \A m \in DOMAIN docs : docs[m] \in [text : Texts, row : Nat]

(* The imports begun so far, or -1 while one runs: an operation that sees   *)
(* the same number, not -1, at its start and its end had no import beside it. *)
Quiet == IF importing.id = 0 THEN Len(imports) ELSE -1

Undisturbed(since) == since # -1 /\ since = Quiet

StoreOK ==
  /\ corpus \in [Messages -> Texts \cup {Hidden, Absent}]
  /\ Len(imports) <= MaxImports
  /\ \A i \in DOMAIN imports :
       imports[i] \in [source : Exports, status : {"unfinished", "completed"}]
  /\ importing.id \in 0..Len(imports) /\ importing.left \subseteq Messages

StoreInit ==
  /\ corpus = [m \in Messages |-> Absent]
  /\ imports = <<>> /\ importing = NotImporting
  /\ index = NoRow /\ config = NoRow

-----------------------------------------------------------------------------
(* An import that did not complete is "failed", or "running" for ever when  *)
(* the process crashed.  Nothing asks which: both are "unfinished".         *)
CompletedImportExists(e) ==
  \E i \in DOMAIN imports : imports[i] = [source |-> e, status |-> "completed"]

(* An import of an export that was imported is skipped unless it is forced. *)
BeginImport(e, force) ==
  /\ importing.id = 0 /\ Len(imports) < MaxImports
  /\ force \/ ~CompletedImportExists(e)
  /\ imports' = Append(imports, [source |-> e, status |-> "unfinished"])
  /\ importing' = [id |-> Len(imports) + 1, left |-> {m \in Messages : Content[e][m] # Absent}]
  /\ UNCHANGED <<corpus, index, config>>

Source == imports[importing.id].source

(* The next conversation of the export, in a transaction. *)
ImportConversation ==
  /\ importing.left # {}
  /\ LET m == Min(importing.left) IN
       /\ corpus' = [corpus EXCEPT ![m] = Content[Source][m]]
       /\ importing' = [importing EXCEPT !.left = importing.left \ {m}]
  /\ UNCHANGED <<imports, index, config>>

Completed ==
  /\ imports' = [imports EXCEPT ![importing.id] = [source |-> Source, status |-> "completed"]]
  /\ importing' = NotImporting

(* Mutant: the index stays ready. *)
CompleteImportMutant ==
  /\ importing.id # 0 /\ importing.left = {}
  /\ Completed
  /\ UNCHANGED <<corpus, index, config>>

CompleteImport ==
  /\ importing.id # 0 /\ importing.left = {}
  /\ Completed
  /\ index' = IF index.status = "ready" THEN [index EXCEPT !.status = "building"] ELSE index
  /\ UNCHANGED <<corpus, config>>

(* Any step of the import may fail. *)
FailImport ==
  /\ importing.id # 0
  /\ importing' = NotImporting
  /\ UNCHANGED tables

ImportStep ==
  \/ \E e \in Exports, force \in BOOLEAN : BeginImport(e, force)
  \/ ImportConversation
  \/ CompleteImport
  \/ FailImport
=============================================================================
