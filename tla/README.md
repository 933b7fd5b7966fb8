# A formal model of Download Your Data

This directory holds TLA+ models of the Download Your Data server
(`src/`, Go), the TLC configurations that check them, and theorems about them
that TLAPS proves.  The models are written from the code; documents of the
repository are used only as claims to compare the code with.

## The system

One HTTP process serves authenticated users.  Every user has a private
directory with a Netflix library, a Prime Video library and a database of
conversations.  The parts that keep state and change it concurrently are these.

| Part | State | Operations | Interacts with |
| --- | --- | --- | --- |
| Netflix workspace (`providers/netflix/library`) | `library.json` (generations, active and building pointers, pending deletions), one directory per generation, the TMDB cache file; in memory the same state, running jobs and uploads | create local / TMDB generation, upload, delete generation, delete provider, set profile label, open with recovery, close | one job goroutine per build; callers over HTTP; the registry opens and closes it |
| Workspace registry (`httpapi/workspaces.go`) | the open workspaces, their users and last use | acquire, release, evict, delete user, close | opens and closes Netflix workspaces; shard locks per user |
| Prime library (`providers/primevideo`, `httpapi/prime_operations.go`) | one state file (active and pending generation), two lease files, the jobs of the process | create, upload, select, enrich, delete generation, delete provider, worker transactions, close | one worker per enrichment, over short transactions on the file |
| Conversation store (`store`, `ingest`) | a SQLite database: conversations, messages, the records of imports | begin an import, import a conversation, complete or fail the import | the index and the embeddings are made of what it imports; a completed import invalidates the index |
| Search index (`retrieval`) | a row with its status, a row per document, a file of vectors per identity | index with or without rebuilding, resume, search | embedding server; the conversation store |
| Embeddings (`embedding`, `intent`) | the same for messages, without identities | embed what is missing, refresh, analyse | embedding server; the conversation store |
| TMDB enrichment (`netflix/library/workspace_enrichment.go`, `netflix/enrichment`, `netflix/tmdb`) | a SQLite cache and a checkpoint per title; in memory a pool of workers and the pace of calls | start or resume a pool, look up a title, search, details, retry, cancel | Netflix jobs; all users share the client |
| Browser application (`frontend/application`) | the providers' last snapshots and report, what was attempted, resumed or suspended, the poll timer | load, refresh, import, cancel, delete, retry, leave | the server's API |
| Pure parts | none | parse CSV and ZIP, match titles, aggregate, normalise, rank | all of the above |

What is hard about them, and what makes each correct:

- **Netflix workspace.**  Handlers, job goroutines and uploads interleave; the
  mutex is released around every file operation; the state file, the memory and
  the directories are written one after the other and may be cut off by a crash
  or an I/O error between any two writes.  Correct means: the active generation
  is always complete on disk; a replacement becomes active only when it is
  complete; a source outlives what was derived from it; nothing deleted remains
  on disk; every build ends and every deletion is completed; no handler ever
  builds a state the code itself refuses.
- **Registry.**  A workspace may be evicted or closed only while nobody uses it
  and nothing runs in it; a user is deleted only when no request of theirs runs.
- **Prime library.**  The worker reads, waits for the network, and writes
  checkpoints in separate transactions; it can be cancelled, restarted, or
  contend for its lease with its dying predecessor.  Correct means: counts agree
  with outcomes, one worker at a time, an activated replacement is complete and
  replaces its own source, nothing is written after a deletion.
- **TMDB enrichment.**  A dispatcher, up to four workers and a collector share
  two channels; any of them may be stopped by the first error, a DELETE, a close
  or a crash while results are on their way.  All callers of a server share one
  pacer, and a caller whose wait is cancelled has already taken its slot.  A cache
  row, a checkpoint and the progress in the state file are three writes.  What a
  search returns is scored, validated when it becomes an outcome, and validated
  again by the cache and the checkpoint.  Correct means: the slots of requests
  keep their interval; no answer is asked for twice; nothing fails but for a fault or a
  DELETE; one more candidate never makes the matcher surer of another; a pool
  ends.
- **Media page.**  It runs chains of requests that a click aborts at any point,
  after the server has handled the one that is out or before; a timer starts
  further chains; what it knows of the server is the last snapshot.  Correct means:
  a page that waits for nothing shows what is stored; a cancelled analysis is not
  begun again by the page; an interrupted one is taken up again.
- **Conversation archive.**  A row of a vector file and its row in the database
  are written separately, in batches, and any of the writes may be the last one
  before an error or a crash; imports change the texts between and during runs.
  Correct means: no document is ever searched by the vector of another text or of
  another model; a file left half written never stops a later run; an index is
  ready only for one state of the archive, entirely, and no longer than until the
  next import completes; every run ends.

`PROJECT.json` lists every component, also the ones that are not modelled with
the reason, and every hazard of this kind at its line in the code.

## Modules

| Module | Models |
| --- | --- |
| `NetflixRepository` | the state in `library.json`: its type, `validateRepositoryState`, and as operators the state each mutation builds |
| `NetflixLibrary` | one Netflix `Workspace`, its files, its requests and jobs, and the process around it: open with recovery, close, crash, storage faults |
| `GenerationLifecycle` | abstract: what a library promises about generations |
| `NetflixLibraryLifecycle` | the refinement mapping from the first two to the third |
| `MCNetflixLibrary` | the instance TLC checks |
| `TitleMatching` | the matcher as operators: the ranking of candidates, evidence, decision, and the validation of an outcome |
| `TMDBAnswers` | what the client and `NewTitleMetadata` make of responses, and what they turn down |
| `TitleCache` | the cache of outcomes: look up, put, expire, delete |
| `TMDBClient` | the shared pacer, retries, backoff and cancellation |
| `TitleEnrichment` | the job that enriches one history over the four of them: dispatcher, pool, collector, checkpoints, progress, build, resumption |
| `MCTitleEnrichment` | the instance TLC checks |
| `PrimeLibrary` | the Prime Video library of one user: its state file, its requests, and the workers of the processes that share it |
| `MCPrimeLibrary` | the instances TLC checks |
| `MediaWorkspace` | the media page of the browser composed with `PrimeLibrary` |
| `MCMediaWorkspace` | the instance TLC checks |
| `WorkspaceRegistry` | the shard locks, the transaction locks, the registry of open workspaces, the deletion of a user, and the shutdown |
| `MCWorkspaceRegistry` | the instances TLC checks |
| `VectorFile` | the vector file as operators: append, cut-off append, repair, and what it means to match the database |
| `ConversationStore` | the database of conversations and the importer |
| `SearchIndex` | a run that builds or reconciles the search index |
| `EmbeddingService` | a pass that embeds messages, and the analyses that read the vectors |
| `ConversationArchive` | the three together, with errors and crashes |
| `MCConversationArchive` | the instances TLC checks |
| `NetflixRepositoryProofs` | lemmas: every mutation keeps the state sound, and what it changes |
| `NetflixLibraryProofs` | the inductive invariants and the theorems about the Netflix workspace |
| `NetflixLifecycleProofs` | that the Netflix workspace implements `GenerationLifecycle` |
| `TitleEnrichmentProofs` | the pacer for any callers; that the enrichment uses the client as specified; that no cached answer is asked again; the matcher's doubt; types; why generations fail |
| `PrimeLibraryProofs` | the inductive invariant and the theorems about the Prime library |
| `WorkspaceRegistryProofs` | the same for the locks and the registry |
| `MediaWorkspaceProofs` | that the page keeps to the library, and the invariant of what it shows |
| `ConversationArchiveProofs` | the same for the archive, with the arithmetic of rows and files |

### How `NetflixLibrary` corresponds to the code

A section of code under `workspace.mutex` is one step; a file operation outside
it is a step of its own.  `repository.mutate` (`Mutate`) checks a mutation's own
condition, validates the new state, writes it to a sibling file, renames it over
the state file, syncs the directory and only then installs it in memory: `mem`
and `disk` are two variables, and a failing sync leaves `disk` ahead of `mem`.

| Variable | In the code |
| --- | --- |
| `mem`, `disk` | `repository.state`, and what the state file holds |
| `files` | per generation: the staged CSV, `records`, `analytics`, the title outcomes, the profile label |
| `cacheFile` | the TMDB cache |
| `phase`, `configured` | the process: down, recovering in `Open`, open, closing; whether it has a TMDB client |
| `up`, `job` | `workspace.uploads`, `workspace.jobs`: where each upload and job goroutine is |
| `del`, `prov`, `tmdb` | requests that release the lock midway: `DeleteGeneration`, `DeleteProvider`, `CreateTMDBGeneration` |
| `used` | IDs drawn (16 random bytes are taken not to repeat) |
| `faults`, `stops` | bounds: failed writes and removals; crashes and closes |
| `refused` | a mutation was turned down as inconsistent |

What is abstracted.  The contents of a generation are a function of its upload,
so hashes, summaries and counts are there or not there; the titles of a history
are the set `Titles`; a lookup of a title at TMDB stores an outcome or fails.
`RecoverProvider` removes all directories in one step, a removal that fails may
have removed them all or none; the deletion is only completed by a further pass, as in
the code.  Time and the event journal (bounded at 256 per generation, far above
what one generation can record) are left out.

What a lookup consists of is `TitleEnrichment`'s.

### How `TitleEnrichment` corresponds to the code

The module takes the part `NetflixLibrary` abstracts from, the build of one
enriched generation, and leaves to it what surrounds the build: other
generations, the source, DELETE requests step by step.  It has one `Work(w)` per
worker goroutine, `Dispatch` and `CloseJobs` for the goroutine that feeds them,
and `Job` for the one that collects, checkpoints and builds.

| Variable | In the code |
| --- | --- |
| `call`, `ahead`, `calm` | per caller of the client the attempt and the timer it is in; how far `requestPacer.next` lies in the future; history: the time since the last slot came |
| `cache` | table `cache_entries`: rows with the lookup they were written for, fresh or past thirty days |
| `gen`, `files`, `artifacts` | the generation in the state file with its progress; its checkpoint files; whether records and analytics are written |
| `job`, `worker` | the goroutine of the job with its first error and its context; the workers of the pool with the title they have |
| `todo`, `closed`, `results` | what is left to dispatch; the two channels |
| `phase` | the process: up, closing, down |
| `answered`, `trouble`, `deleted` | history: lookups that were cached and have not expired; whether anything went wrong; whether a DELETE cancelled the job |

What is abstracted. A text is one of a few kinds, those the validations tell apart
(`Text`), and a title's similarity to a candidate is a number from 0 to `Exact`:
the edit distance and the overlap of words enter only by it. The error code
`unavailable` stands for every call without a response of status 200, so also for
`rate_limited` and `unauthorized`, and for a 4xx that is not retried, which the
code calls `invalid_response` (`client.go:706`). Candidates are a set: a response
that names one entity twice, which `Search` keeps twice and the matcher counts
twice, is not among the `Responses`. `Retry-After` is a number of seconds that
fits into a `time.Duration`; a larger one overflows at `client.go:728` and gives
no delay. An outcome beyond the 256 KiB of a cache row (`cache.go:664`) or the 320
KiB of a checkpoint (`enrichment_artifacts.go:130`) is refused although the client
accepted the answer: bytes are not modelled, so this is one of the storage errors
of `Put` and `WriteCheckpoint`, and `FailureExplained` counts it as a fault. A
call's request is part of the step that handles its response. Time is discrete and
relative to the present. The pacer starts anew with the process. The service is
called with one title at a time; its own pool and the rows of other matcher
versions are not modelled, and neither are URLs, headers and JSON.

`TitleMatching` and `TMDBAnswers` are operators without state.  They are evaluated
over `Responses` and `Answers`: sets of up to three candidates whose scores lie
at and next to every threshold, and details that differ in one field from a
plain one, so that the two layers of validation are compared (`FailureExplained`:
nothing that the first lets through fails in the second).

### How `PrimeLibrary` corresponds to the code

`primeOperations.transaction` opens the store under a mutex of the process and a
file lock, reads the state file, and replaces it at most once before it closes:
a request or a worker's transaction is one step.  Between its transactions a
worker queries TMDB for as long as it takes, and anything may happen.  A process
that finds the file locked by another one gets an error at once
(`LOCK_NB`); since the other is inside a step at that moment, the model lets a
worker's transaction fail this way whenever another process runs (`Contended`).

| Variable | In the code |
| --- | --- |
| `active`, `pending` | the two generations in the state file |
| `root` | the user's directory exists |
| `worker` | per process and generation: the job in `operations.jobs`, where its goroutine is, whether its context is cancelled, whether it holds the lease file, the titles it has left |
| `live` | a process is up, closing (`operations.closed`) or down |
| `used`, `faults`, `stops` | IDs drawn; bounds on failed replacements of the file, and on crashes and closes |

The records of a generation are abstracted to the set of its eligible title
identities, with those that have an outcome; the counters `TotalTitles` and
`CompletedTitles` are kept beside them, as in the code, and nothing in the model
ties the two together but what the code does. `StaysDeleted` speaks of cancelled
workers and so of the process that deletes; the worker of another process is not
cancelled, and its next transaction makes the directory again. A selection of
datasets is the set of titles it leaves. A lock on a file dies with the file:
`DeleteUser` takes the lease from whoever holds it. Requests can outlast the start
of a close, as `http.Server.Shutdown` gives up waiting for them. A state that
grows beyond its size limit fails to be saved, which the model has as a fault.

### How `MediaWorkspace` corresponds to the code

The module extends `PrimeLibrary` with one page over one server that has no
storage faults.  The page's own code runs between two awaits, so it is part of the
step in which the awaited answer comes (`Exchange`): the server handles the request
the page has out, and the page goes on with the answer.  A click between asking and
being answered is a step of the user.  If it starts a chain of its own
(`controller.abort()`), the request that was out has been handled with its answer
lost, or is never handled (`Aborts`).  Every request may also fail by itself while
the server is up, whatever it asks: it is turned down (a workspace that has no
place, an error of the server), is lost on its way, or has been handled with its
answer lost (`Reached`).

| Variable | In the code |
| --- | --- |
| `page` | the variables of `media-workspace.js`: the last snapshot (`active`, `pending`), the report shown, `busy`, the error, the timer, `attempted`, `resumed`, `suspended` |
| `flow` | the chain that runs (`hydrate`, `refresh`, `upload`, `cancel`, `delete`, `retry`) and the request it awaits |
| `page.first`, `lost`, `missed` | history: nothing but the load has fetched a report; the pending generation, if its resumption was aborted; the closing snapshot of the analysis failed in this chain |

Left out: the Netflix half of the page, filters and pages of records (a filter is
a refresh), export and charts.  A new generation takes an ID nobody has used,
always the same one (`Fresh`).

What was met here, and what the properties therefore say:

- `hydrate` fetches the report before `advanceAnalysis` and schedules polls only
  while something is pending (`media-workspace.js:123`).  A worker that finishes in
  between leaves a page that shows an old report and waits for nothing.
  `ReportCurrent` holds once a refresh has followed the load (`first`).
- The snapshot that closes `advanceAnalysis` may fail by itself
  (`media-workspace.js:223`).  If the server has just begun an enrichment, the page
  shows `analysis_failed` and the report of before, knows of nothing pending, and
  sets no timer (260): the report becomes stale and stays so until a click.  A
  refresh that fails shows `request_failed`, and polls on only if the last
  snapshot had something pending.  These are the two exceptions of `ReportCurrent`
  (`Excused`), both below an error on the page.  Without the first one TLC finds
  the trace.
- `resumed` has the generation before the request that resumes it has been sent
  (`media-workspace.js:161`).  If that request is aborted, or its worker is
  interrupted by another restart, the page does not try again.
  `docs/streaming-history-contract.md:111` says "The browser resumes pending Prime
  analysis automatically after restart."; `PendingTakenUp` is what is kept of it:
  a page that has not resumed a generation before does so, or shows an error.
- Resuming and beginning are the same request (`media.go:82`).  If the generation
  a page asks to resume fails before the server gets to it, `BeginEnrichment`
  begins another, also when the user has suspended the analysis: a click that
  cancels or deletes has aborted the request that began it, so that the page does
  not know it as resumed and takes it for one interrupted by a restart
  (`media-workspace.js:161` does not look at `suspended`).  It takes four
  generations to see this.  `CancelledStays` grants it, and nothing else.
- An enrichment that is begun while a cancelled worker still holds the lease is
  stored and then refused; the page shows the error.

### How `WorkspaceRegistry` corresponds to the code

Every request of a user runs under a `sync.RWMutex` of the user's shard: as a
reader, and alone if it deletes the user.  A Prime worker takes the same lock for
each of its transactions.  The module follows a goroutine (`req`) from one lock to
the next: the shard, the transaction lock of the shard (`tx`), and
`registry.mutex`.  A writer of the shard announces itself, keeps new readers out
(`blocked`), waits for the readers that are in (`drain`), and on unlocking lets in
all readers that wait, as `sync.RWMutex` does.  `registry.mutex` is released
within one step except where its holder waits for something: while a deletion or
the shutdown closes a workspace, `mutex` names the holder.

| Variable | In the code |
| --- | --- |
| `req` | per goroutine: the request, where it is, and whether its context is cancelled |
| `tx`, `mutex` | who holds `primeOperations.transactions` and `registry.mutex` |
| `entries`, `inUse`, `older` | `registry.entries`, with `inUse` and the order `lastUse` gives them |
| `open`, `busy` | the users whose workspace this process has open, and those in which operations run |
| `workers` | the users with a Prime worker that is not cancelled |
| `dir` | the users whose directory exists |
| `server` | serving, shutting down, closing the Prime operations, closing the registry, down |
| `refused` | a deletion has met `errWorkspaceInUse` |

The module is the environment the other two assume: `NetflixLibrary` is closed
only when no handler is inside (`NoRequests` in `Close`; `NeverInUse`,
`OpenWhileUsed`), also after the timeout of the shutdown: `registry.close` passes
over every entry in use (`workspaces.go:223`), and a handler keeps its reference
until it returns.  And in
`PrimeLibrary` the deletion of a user never runs beside a transaction of the same
process (`DirectoryStays`).

### How `ConversationArchive` corresponds to the code

Three modules extend one another: the store, the index over it, the embeddings
over it.  A SQL transaction is one step, and so is an append to a vector file,
which writes the vectors of a batch and flushes them.  `CutOff` is what an append
leaves when an error or a crash ends it: some of its rows, and possibly bytes of a
further one.  The database names a row only in a later step, so an unnamed tail
can be in any file.  `OpenVectorFile` refuses a file that lacks a named row
(`Shorter`) and truncates the rest (`Repaired`).

| Variable | In the code |
| --- | --- |
| `corpus` | tables `conversations` and `messages`: per message the text, or that it is hidden or not there |
| `imports`, `importing` | table `imports`; the import that runs and the conversations it has yet to write |
| `index` | the row of `search_indexes` with the rows of `search_documents` |
| `files` | the vector file of every index identity |
| `config`, `vectors` | the row of `embedding_configs` with the rows of `embeddings`, and their vector file |
| `run`, `pass` | `Indexer.Run` and `Service.Run`: where each is, what it has read, its batch and what its limit leaves |
| `use` | bound: whether a behaviour has an index or embeddings |
| `index.of`, `run.since`, `pass.since` | history: the imports begun when a run began, to say that no import was beside it |

What is abstracted.  Every conversation has one message, and the text of a message
stands for everything that is prepared for embedding (title, date, neighbouring
messages); its hash is as good as the text.  A vector is the pair of the model and
the text it was computed from.  An import writes a conversation per transaction, in
the order of the file, and never deletes one.  The records of imports that failed
and of those a crash cut off differ only in their status, which nothing reads.
`BuildDocuments` reads messages and edges in two queries
(`documents.go:26`, 30); the model reads the texts, which stand for both, at once, so
`ReadySnapshot` speaks of what one run has read, and an import between the two
queries may give that reading messages of one state with edges of the next.  Such a
run has an import beside it, which `ReadyCurrent` leaves out.  A crash is the end of
the process: the tables keep what was committed.  The database runs with WAL and
`synchronous=NORMAL` (`schema.go:21`), so a power failure may take committed
transactions back and leave later bytes in the vector file, which is synced
(`vector_file.go:75`); `VectorsMatch` and `ResumesCleanly` do not speak of that.
Searching itself, the full-text table, the cache of query vectors, prototypes and
their scores are not modelled.

One run, one pass and one import at a time are assumed, because nothing in the
code enforces it and its callers do not start two; an import may overlap a run or
a pass.  What the code does not promise is excluded by name.  A run that an import
overlaps can leave the index ready for the texts before the import (the run read
them once, at its start): `ReadyCurrent` and `ReadyComplete` speak of operations
that had no import beside them, by the history fields.  An import that fails after
some conversations leaves the index ready: only completed imports count.

## Runs

| Run | Checks | Instance |
| --- | --- | --- |
| `library` | `OneWriter`, `ActiveIntact`, `SourcesIntact`, `PayloadRemoved` | 3 generations, 1 title, 2 concurrent DELETEs, 1 crash or close; no labels |
| `library_faults` | `NeverRefused`, `IInv`, `LifecycleFollowed` | 2 generations, 1 title, 1 storage fault, 1 crash or close, labels, opened with or without TMDB |
| `library_live` | `BuildsEnd`, `DeletionsEnd` | 2 generations, 1 title, 1 crash or close, opened with or without TMDB |
| `lookup` | `TypeOK`, `SlotsApart`, `FailureExplained`, `CachedNotAsked`, `AcceptedBefore`, `PoolEnds` | 2 workers, 2 titles, 2 attempts a call, interval and backoff of 1; faults, deletions, closes and crashes unbounded |
| `prime` | `TypeOK`, `Counted`, `NoRepeatedQuery`, `OneWorker`, `ReplacesItsSource`, `StaysDeleted` | 2 processes, 3 generations, 2 titles, 2 locales, 1 storage fault, 2 crashes or closes (fewer with the third generation) |
| `media` | `ReportCurrent`, `CancelledStays`, `PendingTakenUp`, `EnrichmentEnds` | 1 page, 1 process, 2 generations, 1 title, a table of jobs that may be full, any requests failing, 1 crash or close |
| `registry` | `UsesCounted`, `OpenWhileUsed`, `NoneForgotten`, `DirectoryStays`, `NeverInUse` | 2 goroutines, 3 users in two shards, 2 open workspaces |
| `registry_live` | `RequestsEnd`, `ShutdownEnds` | 3 goroutines, 1 user, 1 open workspace; requests on Prime data and on both providers, worker transactions, deletions |
| `archive` | `TypeOK`, `VectorsMatch`, `ResumesCleanly`, `ReadyCurrent`, `ReadyStays`, `ReadySnapshot`, `ReadyComplete`, `RunsEnd` | 2 messages, 2 imports of 2 exports, 2 identities, batches of 1, runs limited to 1 or not; errors and crashes unbounded |
| `library_race` | violated: `ActiveIntact` | an upload races a DELETE |
| `library_sync` | violated: `ActiveIntact` | a directory sync fails |
| `archive_stale` | violated: `ReadyNotStale` | a pass that does not refresh, after an import has changed a text |

**Bounds and why they are enough.**  Three generations are an active one, its
derived replacement and one being deleted: every relation between generations
that the code knows (active, building, source) occurs among three.  Two DELETE
requests are needed for two removals to interleave.  One crash cuts a sequence of
writes at every place, and recovery from it can be observed; a second one would
cut recovery itself, which repeats the same idempotent steps.  Generations are
drawn once (`used`), so every run ends after finitely many requests; deadlock
checking is therefore on except where a fault may really stop the system: a
provider deletion that failed leaves `Deleting` set, and every mutation refused,
until a restart the bound may not have left (`library_faults`, `library_sync`).

For the Prime library two processes are the least that can contend for its locks,
two titles the least of which one may be done and one not, and three generations
an import, its replacement, and the replacement of that in another locale or the
import that supersedes both.  A third generation is explored only without a
storage fault, with at most one crash or close and selections of at most one title
(`ThirdIsSmall`); the theorems have no such bound.  The page has two generations,
an import and its replacement, and one title, because it knows no titles.  Where a
second or third replacement matters (an analysis begun, cancelled and begun again),
its safety rests on the theorems of `MediaWorkspaceProofs`, and `PendingTakenUp` was
checked besides on two instances too large to be checked every time: three
generations with one crash or close, and four without, each with one import and a
table of jobs that is never full.

For a lookup, two workers contend for the pacer, the cache and the collector, and
two titles are more than one worker has; two attempts are one with a retry.
`MaxAhead` keeps callers from queueing for slots ever further away, and the pacer's
theorem has no such bound.  Titles that have no word (`Wordless`) or are too long
(`Overlong`) are left out, since the generation then fails by itself, as it does
when two titles differ in case only (`Key` is one-to-one) or when labels of TMDB
hold a semicolon: `FailureExplained` names these as conditions.

In the registry two goroutines are a deletion and a request that it waits for or
keeps out, and three users for two open workspaces make the order of use matter.
Whether somebody waits for ever takes three goroutines: one inside, one that
deletes, and one kept out.  Nothing in the module counts, so its runs are unbounded
in time: the server is shut down and restarted for ever.

In the archive two messages make batches follow one another within a run, and make
one of them changed, hidden or missing while the other is not; the second export
changes the first message and hides the second.  Two imports are one that a run
indexes and one that comes after it or in its middle.  A message that an import
takes back and a third makes visible again would need three.  Runs, passes, errors
and crashes are not bounded.

**Environment assumptions that are switched.**  `RacingUploads` and `Labelling`
are off where a property depends on them.  The run `library_race` shows what goes
wrong with the first; the theorems hold with both.  With the second
`PayloadRemoved` does not hold (a hazard that the project names and no property
catches): `SetProfileLabel` finds the generation under the
lock and writes beneath its directory, and when `DeleteGeneration` removes the
directory and forgets the generation around that write, the write has created the
directory again (`profile_label.go:51`).

**Fairness.** `library_live` assumes weak fairness of the goroutines of uploads
and jobs, of request handlers once begun, and of `Open` and `Closed`: goroutines
are scheduled and the server is started again. No request has to arrive and
nothing has to crash. A lookup ends because the HTTP client has a timeout and a
bounded number of attempts. `lookup` assumes that some goroutine of the server
goes on while one can and that time passes (`Running`); no order among them is
assumed. `media` assumes that an awaited request is answered or fails, that the
timer fires, and that the server's workers and its restart go on, though the user
may click in between; nobody has to click. For the snapshot the answer is strongly
fair: a user who clicks cancel or delete for ever, each time before the snapshot
has come, keeps the page from ever taking anything up, and that is not what the
page is to be blamed for. It has no storage faults and one process: a failure that
cannot be written, and a transaction that finds the file locked, leave a
generation enriching without a worker, which the code only logs. The registry's
runs assume that handlers go on (strong fairness, because Go's mutexes hand a lock
to whoever has waited longest), that operations end, and that the shutdown
goroutine goes on; uploads are taken to end, although the server sets no limit to
the time a client may take to send one. `archive` assumes that a run or a pass
that has begun goes on: every one of its steps is a query, a write or a call of
the embedding server with a timeout, and an error in any of them ends it. Nothing
has to begin, and imports may stop anywhere.

## What the violated runs show

- `library_race`.  `DeleteGeneration` checks `workspace.uploads` once
  (`workspace.go:838`).  For a generation in `receiving` it goes on, without the
  lock, to remove the directory (`workspace.go:1273`) and then to fail the
  generation.  An upload that starts after the check stages and imports before the
  removal, and activates after it, before the generation is failed: what is now
  active has lost its artifacts.
- `library_sync`.  `writePrivateFileAtomic` reports an error although the rename
  has happened.  `activateGeneration` then fails, `failGeneration` removes the
  artifacts, and a crash before the failure is recorded leaves a state file that
  calls the generation ready and active.
- `archive_stale`.  Without `refresh`, `Service.Run` lists only messages without
  an embedding, finds none, and marks the configuration ready
  (`service.go:194`), while an import has changed the text of a message whose
  embedding it keeps.

## Proofs

`NetflixLibraryProofs` proves, for every set of IDs, titles, requests and every
bound, with the assumptions named in the modules (IDs and titles are finite sets,
the bounds naturals):

- `TypeCorrect`: `Spec => []TypeOK`;
- `Inductive`: `Spec => []IInv`;
- `MutationsConsistent`: `Spec => []NeverRefused`;
- `WritersApart`, `ActiveStaysIntact`, `SourcesStayIntact`: `Spec => []OneWriter`,
  `Spec => []ActiveIntact` and `Spec => []SourcesIntact`, all where `Calm` holds;
- `PayloadIsRemoved`: `Spec => []PayloadRemoved`, where `Calm /\ ~Labelling` holds;

and `NetflixLifecycleProofs` proves

- `LifecycleImplemented`: `Spec => LifecycleFollowed`, the refinement of
  `GenerationLifecycle`.

`NeverRefused` says that no interleaving of handlers, jobs, recovery, faults and
crashes builds a state that `validateRepositoryState` turns down: a mutation can
fail only for its own check, the history bound or storage.  It is not inductive.
`IInv` adds what each mutation relies on:

- `Sound(mem)` and `Sound(disk)`: consistent, and no generation that is about to
  be removed has a derived one (validation alone does not say so, and forgetting
  a generation others name as their source would be refused);
- `DeletersHold`: once a DELETE has found a terminal generation, it stays
  inactive and underived, though the lock is released many times before the
  generation is forgotten;
- `JobsHold`: what a job has established by the step it is at (all titles have
  outcomes before the checkpoint, bytes are cleared before activation);
- `DrawnIDs`: IDs are stored after they are drawn, so that a fresh one is fresh on
  disk too;
- `PhasesHold`: no request or job outlives the process.

`NetflixRepositoryProofs` proves one lemma per mutation (`ReceivedSound`,
`ActivatedSound`, `RemovedSound`, ...): it keeps `Sound` under the condition
`IInv` provides.  `NetflixLibraryProofs` then has one lemma per action.

The refinement holds with any storage faults and racing uploads.  A crash replaces
memory by the state file, which a failed write may have left ahead, so the
invariant behind it (`LifeInv`) says that the file is at most one step of a life
ahead of memory (`LifeStep`), and that a generation marked for deletion has ended.
Every mutation is such a step from `mem` (`Lively`); installing it, losing it, or
finding it on disk after a crash are then steps of `GenerationLifecycle` or none.

The theorems about files assume `Calm`: no failed write or removal, and no upload
that starts under a DELETE of its generation, for any number of crashes and
closes.  That is the environment of run `library`, and each half is needed:
`library_sync` and `library_race` break `ActiveIntact` without one of them.
`PayloadRemoved` needs besides that no profile label is written, since
`SetProfileLabel` may create the directory again after DELETE has removed it.
`FilesFollow` is the invariant, `IInv /\ FInv`.  `Tidy` says what files a generation
has in each state, `Uploading`, `Working` and `Removing` what an upload, a job and a
DELETE may count on at each step: an upload or a job that can still change
something has its generation to itself, and a DELETE that removes a directory has
found the generation not ready, or marked it.  `OneWriter` is what this says of two
actors at once.  `Touches` is the frame: a step of one
generation leaves the others as they are (`TouchKeeps`).

`PrimeLibraryProofs` proves, for any processes, generations, titles, archives and
locales and any number of faults, crashes and closes:

- `PrimeTyped`: `Spec => []TypeOK`;
- `OutcomesCounted`: `Spec => []Counted`;
- `WorkersApart`: `Spec => []OneWorker`;
- `QueriedOnce`: `Spec => []NoRepeatedQuery`;
- `SourcesReplaced`: `Spec => ReplacesItsSource`;
- `DeletedStays`: `Spec => StaysDeleted`.

None of them is inductive. The counters agree with the outcomes only because a
worker never checkpoints a title twice, which holds because what it has left
(`TodoLeft`) excludes what has an outcome, which holds because nobody else works
on the generation (`OneWorker`). That in turn rests on the lease: one holder in
all processes (`LeaseUnique`), and whoever works on the pending generation has it
(`LeaseHeld`). A worker that lost its lease with the user's directory works on a
generation that is gone, and its ID is not drawn again (`StoredDrawn`,
`WorkedDrawn`). `FileOK` is the part about the file: counters, outcomes, and that
a replacement names the active generation as its source. Two lemmas carry most
actions: `QuietRequest` for steps that start no worker, and `WorkerKeeps` for
steps of one worker. `DeletedStays` is about the worker asleep in a query when its
user is deleted: it looks at its cancellation before it opens the store. That a
job is not cancelled before it is there (`IdleFresh`) holds because one that ends
leaves no mark of its cancellation behind (`Traceless`).

`MediaWorkspaceProofs` proves, for one server without storage faults and any
generations, titles, archives, locales, crashes, closes and clicks:

- `LibraryFollowed`: `MediaSpec => Spec`, the specification of `PrimeLibrary`;
- `ReportStaysCurrent`: `MediaSpec => []ReportCurrent`;
- `CancelledStaySo`: `MediaSpec => CancelledStays`.

The first says that the page, which makes its requests from what it remembers, never
makes one the library does not have, and that the theorems about the library hold
under it.  It rests on `Wanted`: an enrichment the page resumes or cancels is one it
shows, and it asks for another only while the analysis is not suspended.
`ReportCurrent` is not inductive, since a page that polls shows an old report.
`Shown` says that a page at rest and not `Excused` polls while it shows something
being built, and otherwise nobody works on what is pending (`Quiet`) and the report
is that of the active generation: a worker that finishes would have to have been at
work.  `Reporting` says the same of the request for the report that ends a refresh,
unless the closing snapshot before it was `missed`; then the page shows
`analysis_failed`.  `Kept` adds to the invariant of `PrimeLibrary` that the file is
valid.  The proof takes any request to fail at any time, handled or not.

`TitleEnrichmentProofs` proves, for any titles, locales, workers, callers, responses,
delays and attempts:

- `ClientSlotsApart`: `ClientSpec => []SlotsApart`;
- `ClientFollowed`: `Spec => ClientRuns`, the client used as `TMDBClient` specifies it;
- `RequestsApart`: `Spec => []SlotsApart`;
- `AskedOnce`: `Spec => []CachedNotAsked`;
- `DoubtOnlyGrows`: `Spec => []AcceptedBefore`;
- `EnrichmentTyped`: `Spec => []TypeOK`;
- `FailuresExplained`: `Spec => []FailureExplained`, where `Ordinary` holds.

The assumptions are those named in the modules: finite sets of titles, searches and
locales, responses that are finite sets of entities, thresholds in their order, and
that `None` is not a value of its own kind (`NoneAssumption`).

`ClientInv` adds to `SlotsApart` that every waiting caller's slot lies an interval
before the pacer's next one.  `ClientFollowed` holds whatever the pool, DELETE, close
and crashes do, so `RequestsApart` follows from the client's theorem.  `AskedOnce`
rests on one worker per title (`PoolInv`) and on an answer being in the cache until it
expires (`AnsweredFresh`).

`DoubtOnlyGrows` is a fact about `MatchTMDBTitle`.  A set of candidates has one that
no other ranks before (`BestExists`: among the sets of those before a candidate, one
has no smaller one); a candidate that is taken away and was not the best leaves it the
best, and raises neither the runner-up nor the number of exact ones
(`FewerScorable`, `OneFewer`).

`EnrichmentTyped` needs to know that no title has two results in the channel, that none
of those is to be handed out again, and that no worker has it (`ResultsTyped`); that
the candidate whose details are asked for came from a response (`WorkersTyped`); and
that a caller sleeps only with an attempt left (`AttemptsLeft`).

`Ordinary` says that no two titles differ in case only, that none is without a word or
too long, and that no answer has the labels that only the records refuse.  Each of
these fails a generation by itself (see the bounds of the run `lookup`).
The rest of `Explained` is what each step of the job counts on.  Every title without a
checkpoint is to do, with a worker, or in the channel, unless the pool is stopped
(`AllHandled`), so a pool that ends without an error has a checkpoint for each title,
and the counts that `Build` compares agree (`BuildComplete`).  The stored progress is
behind the checkpoints, never ahead (`ProgressKept`), so a resumed job passes
`reconcileEnrichmentProgress`.  No result is of a title that has a checkpoint, and a
code in the channel is "canceled" only once the pool is stopped (`ResultsExplained`).
`MatchIsValid` and `DetailsComplete` say of any response that the matcher's outcome
passes its own validation, and that `NewTitleMetadata` takes what the client lets
through.

`WorkspaceRegistryProofs` proves, for any threads, users, shards, and any number of
open workspaces:

- `RegistryTyped`: `Spec => []TypeOK`;
- `UsesAreCounted`: `Spec => []UsesCounted`;
- `UsedStaysOpen`: `Spec => []OpenWhileUsed`;
- `EntriesAreOpen`: `Spec => []NoneForgotten`;
- `DirectoryKept`: `Spec => []DirectoryStays`;
- `DeletionFindsNoUse`: `Spec => []NeverInUse`;
- `DeletionIsAlone`: from the cancellation of the workers on, a deletion is the
  only request inside the lock of its shard.

The last one carries the others.  The deletion removes a directory and closes a
workspace without asking who uses it; that is safe because of the locks of the
middleware, one level up (`LocksHeld`), because `inUse` counts exactly the
requests between acquire and release (`UsesHeld`, of which `UsesCounted` is what
the run checks), because an entry that is
closed has left the registry before (`EntriesOpen`, `MutexHeld`), and because
whoever needs a directory has one (`Housed`).  `ShutDown` says which of these
the timeout of the shutdown ends.

`ConversationArchiveProofs` proves, for any finite set of messages, any texts and
models, and any bounds:

- `ArchiveTyped`: `Spec => []TypeOK`;
- `VectorsNamed`: `Spec => []VectorsMatch`;
- `ResumedCleanly`: `Spec => []ResumesCleanly`;
- `Current`: `Spec => []ReadyCurrent`;
- `ScanSafe`, `OneSnapshot`, `AllEmbedded`: the action properties `ReadyStays`,
  `ReadySnapshot` and `ReadyComplete`.

The file and the database are written one after the other, so the invariant says
for each step of a run or a pass what the file has beyond the database: nothing
(`Aligned`), or the vectors of one batch in the order their rows will be given
(`Unsaved`); elsewhere anything may follow the last row that is named, and
`Matches` speaks only of those. An index becomes ready by counting; the count is
the right one because what a run has compared is in the index with its text
(`Kept`) and what it has not read is gone after the pruning. A pass that nothing
disturbs has embedded, as it is, every message up to its cursor (`Seen`). `Seen`
is where the order of IDs matters: the cursor starts at the empty string, and a
message with the empty string as its ID would be skipped by a refresh. The
importer makes every ID from a prefix and a hash, which is what
`MessagesAssumption` states (no message is 0). The first lemmas are about finite
sets of numbers: the place of a row in its batch, the first `n` of a set, and that
a set that is counted off has no two rows in one place.

What stays with TLC is liveness, since fairness and `ENABLED` are beyond the prover:
`BuildsEnd`, `DeletionsEnd`, `PendingTakenUp`, `EnrichmentEnds`, `RequestsEnd`,
`ShutdownEnds`, `RunsEnd` and `PoolEnds`.

## Plan

1. Done: the Netflix workspace, its abstract specification, its first theorems.
2. Done: `PrimeLibrary` with its theorems, and the page that drives it.
3. Done: `WorkspaceRegistry` with the shard locks.
4. Done: `ConversationArchive`: imports, readiness, the vector files and their repair.
5. Done: the TMDB client, its cache, the matcher, and the pool over them.
6. Left, as operators: the rows of the Netflix CSV, the analytics of both providers,
   the Prime matcher, the ranking of search results.
7. Done, as proofs: the registry, the archive, the refinement of
   `GenerationLifecycle`, the files of the Netflix workspace, the page, and the
   title enrichment: every safety property of a passing run is a theorem, some
   under a named condition (`Calm`, `~Labelling`, `Ordinary`).

## Not modelled

- The Viewing-history parser, the analytics, the media report, the Prime archive
  reader and matcher, and the ranking of search results are functions of their
  input without state.  The modules take their results as given: an upload is
  readable or not, a generation has artifacts or not.
- Intent analysis and verification prompt a language model; what they read of the
  archive is in `EmbeddingService`, and what they compute is data.
- The routes of Netflix and search pass one call on.  Sessions and tokens are
  checked by a library.  Private paths are checked in one conversation with the
  file system at a time.  Configuration is read once.
- Export formats, the command report, the public site and the browser tools convert
  or render, and keep nothing.
- Time stamps: `validateRepositoryState` refuses a generation that was updated
  before its creation, so a clock that steps back stops its transitions
  (`repository.go:428`).  The models have no clock but the pacer's.
