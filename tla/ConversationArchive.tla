--------------------------- MODULE ConversationArchive ---------------------------
(***************************************************************************)
(* A user's conversation archive: imports, and beside them the runs that   *)
(* index the conversations or the passes that embed their messages, over   *)
(* errors and crashes at any step.  The search index and the embeddings    *)
(* have only the imported conversations in common: a behaviour has one or  *)
(* the other.  Nothing in the code keeps two runs, or two passes, apart:   *)
(* their caller does.                                                      *)
(***************************************************************************)
EXTENDS EmbeddingService

CONSTANT
  Uses  \* bound: what the archives are used for, of {"index", "embed"}

ASSUME UsesAssumption == Uses \subseteq {"index", "embed"}

VARIABLE
  use  \* what this archive is used for

vars == <<corpus, imports, importing, index, config, files, run, vectors, pass, use>>

(* Every variable keeps to the values its table, file or operation has. *)
TypeOK ==
  /\ StoreOK /\ IndexOK /\ RunOK /\ ConfigOK /\ PassOK
  /\ files \in [Models -> [rows : Seq(Vectors), torn : BOOLEAN]]
  /\ vectors \in [rows : Seq(Vectors), torn : BOOLEAN]
  /\ use \in Uses

Init ==
  /\ StoreInit /\ IndexInit /\ EmbeddingInit
  /\ use \in Uses

Importing == ImportStep /\ UNCHANGED <<files, run, vectors, pass, use>>

(* The operations of an index are begun by its owner, or stop. *)
IndexRun == IndexStep /\ UNCHANGED <<vectors, pass, use>>

IndexCalled ==
  /\ use = "index"
  /\ \/ \E model \in Models, rebuild \in BOOLEAN, limit \in Limits : StartIndex(model, rebuild, limit)
     \/ StopIndex
  /\ UNCHANGED <<vectors, pass, use>>

PassRun == PassStep /\ UNCHANGED use

PassCalled ==
  /\ use = "embed"
  /\ \/ \E refresh \in BOOLEAN, limit \in Limits : StartPass(refresh, limit)
     \/ StopPass
     \/ Analyze
  /\ UNCHANGED use

(* The process ends; the import that ran is never marked.  The tables keep   *)
(* what was committed: a power failure, which may take committed             *)
(* transactions back (schema.go:24), is not modelled.                        *)
Crash ==
  /\ importing' = NotImporting /\ run' = NoRun /\ pass' = NoPass
  /\ UNCHANGED <<tables, files, vectors, use>>

Next == Importing \/ IndexRun \/ IndexCalled \/ PassRun \/ PassCalled \/ Crash

Spec == Init /\ [][Next]_vars

(* A run or a pass that has begun goes on, or fails. *)
FairSpec == Spec /\ WF_vars(IndexRun) /\ WF_vars(PassRun)

-----------------------------------------------------------------------------
(* Every document of the index, and every embedded message, has in the file *)
(* of its own model the vector of the text its row keeps, and no other row  *)
(* has it: over append, save and truncation in every order that errors and  *)
(* crashes leave (vector_file.go:112, index.go:179).                        *)
VectorsMatch ==
  /\ index # NoRow => Matches(files[index.model], index.docs, index.model)
  /\ config # NoRow => Matches(vectors, config.docs, Model)

(* What an earlier run or pass left half written never makes a later one    *)
(* fail: the file is repaired before it is appended to (vector_file.go:52). *)
ResumesCleanly ==
  /\ Running("batch") => ~File.torn /\ Len(File.rows) = MaximumRow(index.docs) + 1
  /\ Passing("append") => ~vectors.torn

(* A search of a ready index can scan its file to the end, as long as no    *)
(* row of it changes: what is ready stays as it is until it is marked       *)
(* building (index.go:170, engine.go:98).                                  *)
ReadyStays ==
  [][index.status = "ready" /\ index'.status = "ready" =>
       index'.docs = index.docs /\ ~files'[index.model].torn]_vars

(* An index becomes ready with the documents that one run has read, all of  *)
(* them and nothing of another state of the archive, however many runs      *)
(* were cut off before it (index.go:270).                                   *)
ReadySnapshot ==
  [][index'.status = "ready" /\ index.status # "ready" =>
       [m \in DOMAIN index.docs |-> index.docs[m].text] = run.documents]_vars

(* An import that completes takes the readiness of the index back until a   *)
(* run has read the archive after it, unless that import and a run were     *)
(* under way together (imports.go:84).                                      *)
ReadyCurrent ==
  index.status = "ready" /\ index.of # -1 =>
    \A i \in index.of + 1..Len(imports) : imports[i].status # "completed"

(* A pass without an import beside it makes the configuration ready only    *)
(* with every message embedded, and with its present text when it refreshes *)
(* (service.go:194).                                                        *)
ReadyComplete ==
  [][config'.status = "ready" /\ config.status # "ready" /\ Undisturbed(pass.since) =>
       /\ Eligible \subseteq DOMAIN config.docs
       /\ pass.refresh => \A m \in Eligible : ~Stale(m)]_vars

(* "ready is written only after a complete scan finds no missing or stale   *)
(* messages" (docs/conversation-search-architecture.md:149).                *)
ReadyNotStale ==
  [][config'.status = "ready" /\ config.status # "ready" /\ Undisturbed(pass.since) =>
       \A m \in Eligible : ~Stale(m)]_vars

(* A run that began ends, and so does a pass: it does not page over the     *)
(* same messages for ever (service.go:99).                                  *)
RunsEnd == (run # NoRun \/ pass # NoPass) ~> (run = NoRun /\ pass = NoPass)
=============================================================================
