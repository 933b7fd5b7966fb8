---------------------------- MODULE TitleEnrichment ----------------------------
(***************************************************************************)
(* The enrichment of one Netflix history: the job that looks up its titles *)
(* with a pool of workers over the shared TMDB client and the private      *)
(* cache, and keeps each outcome as a checkpoint                           *)
(* (src/internal/providers/netflix/library/workspace_enrichment.go and     *)
(* src/internal/providers/netflix/enrichment/service.go).                  *)
(*                                                                         *)
(* The job is the goroutine that starts the pool and then collects its     *)
(* results.  Whether its source is still active, and failures of the state *)
(* file, are NetflixLibrary's.                                             *)
(***************************************************************************)
EXTENDS TitleCache, TMDBClient, TMDBAnswers

CONSTANTS
  MaxConcurrency,   \* product.MaxTMDBConcurrency
  Searches,         \* the derived search titles of the history
  Key,              \* the identity key of each, equal for titles equal in lower case
  Wordless,         \* the keys of titles without a letter or digit
  Overlong,         \* the keys of titles over MaxTMDBQueryBytes
  Responses,        \* the entities a response to a search may hold
  Answers,          \* the details a response may hold
  MaxAhead          \* bound: nobody calls when the next slot is further away

ASSUME KeyAssumption ==
  /\ IsFiniteSet(Searches) /\ Key \in [Searches -> Titles]
  /\ Titles = {Key[s] : s \in Searches}
ASSUME TitleKindsAssumption == Wordless \subseteq Titles /\ Overlong \subseteq Titles
ASSUME ResponsesAssumption ==
  /\ Responses \in SUBSET (SUBSET Entity) /\ \A E \in Responses : IsFiniteSet(E)
  /\ Answers \in SUBSET Answer
ASSUME PoolAssumption == MaxConcurrency \in Nat \ {0} /\ MaxAhead \in Nat

Workers == 1..MaxConcurrency

(* The calls of other users' pools are TMDBClient's. *)
ASSUME CallersAssumption == Callers = Workers

VARIABLES
  gen,        \* the stored generation that is, or was last, built
  files,      \* its checkpoint of each title
  artifacts,  \* whether its enriched records and analytics are on disk
  job,        \* the job that builds it
  worker,     \* the goroutines of the pool
  todo,       \* titles the dispatching goroutine still has to hand out
  closed,     \* whether it has closed the channel of jobs
  results,    \* the channel of results
  phase,      \* whether the server is up, closing or down
  answered,   \* ghost: lookups answered and cached, and not expired since
  trouble,    \* ghost: a call, the cache or a file failed this generation
  deleted     \* ghost: a DELETE cancelled it

stored == <<gen, files, artifacts>>
pool == <<worker, todo, closed, results>>
ghosts == <<answered, trouble, deleted>>
vars == <<clientVars, cache, stored, job, pool, phase, ghosts>>

-----------------------------------------------------------------------------
Codes ==
  {"canceled", "unavailable", "invalid_response", "persistence_failed", "stale_source",
   "incomplete"}

(* The code "unavailable" stands for every call that ends without a response *)
(* of status 200: rate_limited and unauthorized, too.                        *)
(*                                                                           *)
(* The progress a generation stores: titles per outcome, and cache hits.     *)
Counts == [matched : Nat, review : Nat, unmatched : Nat, hits : Nat]

Generation ==
  [state : {"none", "enriching", "ready", "failed"}, locale : Locales \cup {None},
   code : Codes \cup {None}, counts : Counts, built : BOOLEAN]

Checkpoint == [status : Statuses, hit : BOOLEAN]

(* What is absent is none of the values that may be there.                    *)
ASSUME NoneAssumption ==
  None \notin Codes \cup Statuses \cup Titles \cup Checkpoint \cup [id : Nat, media : MediaTypes]

Result ==
  [title : Titles, status : Statuses \cup {None}, hit : BOOLEAN, code : Codes \cup {None}]

WorkerState ==
  [pc : {"ready", "enrich", "search", "searching", "details", "detailing", "put"},
   title : Titles \cup {None}, status : Statuses \cup {None},
   accepted : [id : Nat, media : MediaTypes] \cup {None}]

JobState ==
  [pc : {"idle", "read", "pool", "record", "build", "validate", "remove", "activate",
         "failing", "failmark"},
   canceled : BOOLEAN, error : Codes \cup {None}]

Ready ==
  [pc |-> "ready", title |-> None, status |-> None, accepted |-> None]

NoFiles == [t \in Titles |-> None]

NoJob == [pc |-> "idle", canceled |-> FALSE, error |-> None]

(* readEnrichmentCheckpoint *)
Stored(f) == {t \in Titles : f[t] # None}

Missing(f) == Titles \ Stored(f)

(* checkpointCoverage *)
Coverage(f) ==
  LET Titled(status) == Cardinality({t \in Stored(f) : f[t].status = status}) IN
  [matched |-> Titled("matched"), review |-> Titled("review"),
   unmatched |-> Titled("unmatched"),
   hits |-> Cardinality({t \in Stored(f) : f[t].hit})]

Completed(counts) == counts.matched + counts.review + counts.unmatched

NewGeneration(l) ==
  [state |-> "enriching", locale |-> l, code |-> None, counts |-> Coverage(NoFiles),
   built |-> FALSE]

NoGeneration == [NewGeneration(None) EXCEPT !.state = "none"]

TypeOK ==
  /\ ClientTypeOK /\ CacheTypeOK
  /\ gen \in Generation
  /\ files \in [Titles -> Checkpoint \cup {None}]
  /\ artifacts \in BOOLEAN
  /\ job \in JobState
  /\ worker \in [Workers -> WorkerState]
  /\ todo \in SUBSET Titles /\ closed \in BOOLEAN
  /\ results \in Seq(Result) /\ Len(results) <= Cardinality(Titles)
  /\ phase \in {"up", "closing", "down"}
  /\ answered \in SUBSET [title : Titles, locale : Locales]
  /\ trouble \in BOOLEAN /\ deleted \in BOOLEAN

Init ==
  /\ ClientInit /\ CacheInit
  /\ gen = NoGeneration /\ files = NoFiles /\ artifacts = FALSE
  /\ job = NoJob
  /\ worker = [w \in Workers |-> Ready] /\ todo = {} /\ closed = TRUE /\ results = <<>>
  /\ phase = "up"
  /\ answered = {} /\ trouble = FALSE /\ deleted = FALSE

-----------------------------------------------------------------------------
(***************************************************************************)
(* The job.  It has failed with a code, or goes on.                        *)
(***************************************************************************)
JobFrame == UNCHANGED <<clientVars, cache, phase, answered, deleted>>

JobTo(pc) == job' = [job EXCEPT !.pc = pc]

JobFails(code) ==
  job' = [job EXCEPT !.pc = "failing", !.error = IF @ = None THEN code ELSE @]

(* A step that a fault may end instead. *)
Faulty(code) == JobFails(code) /\ trouble' = TRUE

(* uniqueTitleIdentities of the source's records. *)
Consistent == \A s, t \in Searches : Key[s] = Key[t] => s = t

(* reconcileEnrichmentProgress: a crash may leave the progress behind the   *)
(* checkpoints, never ahead of them.                                        *)
Reconciled(counts) ==
  /\ Completed(gen.counts) <= Completed(counts)
  /\ gen.counts.matched <= counts.matched /\ gen.counts.review <= counts.review
  /\ gen.counts.unmatched <= counts.unmatched /\ gen.counts.hits <= counts.hits

(* The pool has a worker for each title left, up to its size.               *)
StartPool == todo' = Missing(files) /\ closed' = FALSE /\ results' = <<>> /\ UNCHANGED worker

(* runTMDBEnrichment up to the pool.  The source cannot be read with a       *)
(* cancelled context, and that is taken for a stale source.                  *)
ReadCheckpoints ==
  LET counts == Coverage(files) IN
  /\ job.pc = "read" /\ ~gen.built
  /\ \/ job.canceled /\ JobFails("stale_source") /\ UNCHANGED <<gen, pool, trouble>>
     \/ /\ ~job.canceled /\ ~Consistent
        /\ JobFails("stale_source") /\ UNCHANGED <<gen, pool, trouble>>
     \/ Faulty("persistence_failed") /\ UNCHANGED <<gen, pool>>
     \/ /\ ~job.canceled /\ Consistent /\ ~Reconciled(counts)
        /\ JobFails("incomplete") /\ UNCHANGED <<gen, pool, trouble>>
     \/ /\ ~job.canceled /\ Consistent /\ Reconciled(counts)
        /\ gen' = [gen EXCEPT !.counts = counts]
        /\ IF Missing(files) = {} THEN JobTo("build") /\ UNCHANGED pool
                                  ELSE JobTo("pool") /\ StartPool
        /\ UNCHANGED trouble
  /\ JobFrame /\ UNCHANGED <<files, artifacts>>

(* A resumed job whose artifacts were recorded validates them.               *)
ReadArtifacts ==
  /\ \/ job.pc = "read" /\ gen.built
     \/ job.pc = "validate"
  /\ \/ artifacts /\ ~job.canceled /\ JobTo("remove") /\ UNCHANGED trouble
     \/ ~artifacts /\ JobFails("incomplete") /\ UNCHANGED trouble
     \/ job.canceled /\ JobFails("canceled") /\ UNCHANGED trouble
     \/ Faulty("persistence_failed")
  /\ JobFrame /\ UNCHANGED <<stored, pool>>

(* The context of the workers: the job's, ended by the first error, too.     *)
Stopped == job.canceled \/ job.error # None

(* The collector.  The first error stops the pool, and what arrives after    *)
(* it is dropped.                                                            *)
Collecting == job.pc = "pool" /\ results # <<>>

Received == results' = Tail(results) /\ UNCHANGED <<worker, todo, closed>>

(* Mutant: the last error is reported. *)
CollectErrorMutant ==
  /\ Collecting /\ Head(results).code # None
  /\ job' = [job EXCEPT !.error = Head(results).code]
  /\ Received /\ JobFrame /\ UNCHANGED <<stored, trouble>>

CollectError ==
  /\ Collecting /\ Head(results).code # None
  /\ job' = [job EXCEPT !.error = IF @ = None THEN Head(results).code ELSE @]
  /\ Received /\ JobFrame /\ UNCHANGED <<stored, trouble>>

DropResult ==
  /\ Collecting /\ Head(results).code = None /\ job.error # None
  /\ Received /\ JobFrame /\ UNCHANGED <<stored, job, trouble>>

(* writeEnrichmentCheckpoint does not replace a file.  It refuses an outcome  *)
(* beyond its byte limit, which counts as trouble, as a failed write does.    *)
WriteCheckpoint ==
  LET r == Head(results) IN
  /\ Collecting /\ r.code = None /\ job.error = None
  /\ \/ /\ files[r.title] = None
        /\ files' = [files EXCEPT ![r.title] = [status |-> r.status, hit |-> r.hit]]
        /\ JobTo("record") /\ UNCHANGED trouble
     \/ /\ files[r.title] # None
        /\ job' = [job EXCEPT !.error = "persistence_failed"]
        /\ UNCHANGED <<files, trouble>>
     \/ /\ job' = [job EXCEPT !.error = "persistence_failed"] /\ trouble' = TRUE
        /\ UNCHANGED files
  /\ Received /\ JobFrame /\ UNCHANGED <<gen, artifacts>>

(* recordEnrichmentProgress                                                  *)
RecordProgress ==
  /\ job.pc = "record"
  /\ \/ /\ gen' = [gen EXCEPT !.counts = Coverage(files)]
        /\ JobTo("pool") /\ UNCHANGED trouble
     \/ /\ job' = [job EXCEPT !.pc = "pool", !.error = "persistence_failed"]
        /\ trouble' = TRUE /\ UNCHANGED gen
  /\ JobFrame /\ UNCHANGED <<files, artifacts, pool>>

(* The channel of results is closed once every worker has ended.             *)
PoolEnded == closed /\ results = <<>> /\ \A w \in Workers : worker[w].pc = "ready"

EndPool ==
  /\ job.pc = "pool" /\ PoolEnded
  /\ IF job.error # None THEN JobFails(job.error)
     ELSE IF job.canceled THEN JobFails("canceled")
     ELSE JobTo("build")
  /\ JobFrame /\ UNCHANGED <<stored, pool, trouble>>

(* The titles per outcome that Aggregate finds in the enriched records.      *)
Aggregated(status) ==
  Cardinality({Key[s] : s \in {t \in Searches : files[Key[t]].status = status}})

(* validateCompleteCoverage                                                  *)
CompleteCoverage ==
  /\ Aggregated("matched") = gen.counts.matched
  /\ Aggregated("review") = gen.counts.review
  /\ Aggregated("unmatched") = gen.counts.unmatched
  /\ Completed(gen.counts) = Cardinality(Titles)

(* buildEnrichedRecords finds an outcome for the title of every record.       *)
Enrichable == \A s \in Searches : Key[s] \in Stored(files)

(* buildEnrichedRecords to recordCheckpoint.  An end of the context in        *)
(* Aggregate is taken for an incomplete build.                                *)
Build ==
  /\ job.pc = "build"
  /\ \/ /\ Enrichable /\ CompleteCoverage /\ ~job.canceled
        /\ artifacts' = TRUE /\ gen' = [gen EXCEPT !.built = TRUE]
        /\ JobTo("validate") /\ UNCHANGED trouble
     \/ /\ ~Enrichable \/ (Enrichable /\ ~CompleteCoverage) \/ job.canceled
        /\ JobFails("incomplete") /\ UNCHANGED <<gen, artifacts, trouble>>
     \/ /\ Faulty("persistence_failed")
        /\ artifacts' \in {artifacts, TRUE} /\ UNCHANGED gen
  /\ JobFrame /\ UNCHANGED <<files, pool>>

RemoveCheckpoints ==
  /\ job.pc = "remove"
  /\ \/ files' = NoFiles /\ JobTo("activate") /\ UNCHANGED trouble
     \/ Faulty("persistence_failed") /\ UNCHANGED files
  /\ JobFrame /\ UNCHANGED <<gen, artifacts, pool>>

Activate ==
  /\ job.pc = "activate"
  /\ \/ /\ gen' = [gen EXCEPT !.state = "ready"] /\ job' = NoJob
        /\ UNCHANGED trouble
     \/ Faulty("persistence_failed") /\ UNCHANGED gen
  /\ JobFrame /\ UNCHANGED <<files, artifacts, pool>>

(* failGeneration removes the directory, and then gives up if the library    *)
(* is being closed.  A closing library skips it, too.                        *)
RemoveDirectory ==
  /\ job.pc = "failing"
  /\ IF phase = "closing" THEN job' = NoJob /\ UNCHANGED stored
     ELSE /\ files' = NoFiles /\ artifacts' = FALSE /\ JobTo("failmark")
          /\ UNCHANGED gen
  /\ JobFrame /\ UNCHANGED <<pool, trouble>>

FailGeneration ==
  /\ job.pc = "failmark" /\ job' = NoJob
  /\ gen' = IF phase = "closing" THEN gen
            ELSE [gen EXCEPT !.state = "failed", !.code = job.error, !.built = FALSE]
  /\ JobFrame /\ UNCHANGED <<files, artifacts, pool, trouble>>

Job ==
  \/ ReadCheckpoints \/ ReadArtifacts
  \/ CollectError \/ DropResult \/ WriteCheckpoint \/ RecordProgress \/ EndPool
  \/ Build \/ RemoveCheckpoints \/ Activate \/ RemoveDirectory \/ FailGeneration

-----------------------------------------------------------------------------
(***************************************************************************)
(* The dispatching goroutine.  Its select may hand out a title although    *)
(* the pool is stopped.                                                    *)
(***************************************************************************)
PoolFrame == UNCHANGED <<stored, job, phase, deleted>>

Dispatch(w) ==
  /\ ~closed /\ worker[w].pc = "ready"
  /\ \E t \in todo :
       /\ worker' = [worker EXCEPT ![w] = [Ready EXCEPT !.pc = "enrich", !.title = t]]
       /\ todo' = todo \ {t}
  /\ PoolFrame /\ UNCHANGED <<clientVars, cache, closed, results, answered, trouble>>

CloseJobs ==
  /\ ~closed /\ closed' = TRUE
  /\ todo = {} \/ Stopped
  /\ PoolFrame
  /\ UNCHANGED <<clientVars, cache, worker, todo, results, answered, trouble>>

-----------------------------------------------------------------------------
(***************************************************************************)
(* A worker: Service.Enrich for one title.  Its errors are classified by   *)
(* the state of the context when they arrive.                              *)
(***************************************************************************)
WorkerFrame == PoolFrame /\ UNCHANGED <<todo, closed>>

WorkerTo(w, pc) == worker' = [worker EXCEPT ![w].pc = pc] /\ UNCHANGED results

(* Mutant: the worker goes on after it has sent a result. *)
SendMutant(w, status, hit, code) ==
  /\ results' = Append(results, [title |-> worker[w].title, status |-> status,
                                 hit |-> hit, code |-> code])
  /\ UNCHANGED worker

Send(w, status, hit, code) ==
  /\ results' = Append(results, [title |-> worker[w].title, status |-> status,
                                 hit |-> hit, code |-> code])
  /\ worker' = [worker EXCEPT ![w] = Ready]

Outcome(w, status, hit) == Send(w, status, hit, None)

Error(w, code) == Send(w, None, FALSE, IF Stopped THEN "canceled" ELSE code)

LookupOf(w) == Lookup(worker[w].title, gen.locale)

(* validateCacheLookup *)
ValidLookup(t) == t \notin Overlong

(* The cache's errors: its own, a query that is too long, or one that belongs *)
(* to another lookup.                                                         *)
LookupTitle(w) ==
  LET u == LookupOf(w) IN
  /\ worker[w].pc = "enrich"
  /\ \/ Stopped /\ Error(w, "canceled") /\ UNCHANGED <<cache, trouble>>
     \/ ~Stopped /\ Error(w, "persistence_failed") /\ trouble' = TRUE /\ UNCHANGED cache
     \/ /\ ~Stopped /\ (~ValidLookup(worker[w].title) \/ LookupFails(u))
        /\ Error(w, "persistence_failed") /\ UNCHANGED <<cache, trouble>>
     \/ /\ ~Stopped /\ ValidLookup(worker[w].title) /\ ~LookupFails(u)
        /\ LookUp(u) /\ UNCHANGED trouble
        /\ \/ Found(u) = {} /\ WorkerTo(w, "search")
           \/ \E r \in Found(u) : Outcome(w, r.status, TRUE)
  /\ WorkerFrame /\ UNCHANGED <<clientVars, answered>>

(* Client.Search and Client.Details refuse an ended context.                 *)
BeginCall(w, from, to) ==
  /\ worker[w].pc = from
  /\ \/ Stopped /\ Error(w, "canceled") /\ UNCHANGED clientVars
     \/ ~Stopped /\ ahead <= MaxAhead /\ Request(w) /\ WorkerTo(w, to)
  /\ WorkerFrame /\ UNCHANGED <<cache, answered, trouble>>

BeginSearch(w) == BeginCall(w, "search", "searching")

BeginDetails(w) == BeginCall(w, "details", "detailing")

InCall(w) == worker[w].pc \in {"searching", "detailing"}

(* The call goes on, fails, or ends with the context.                        *)
CallGoesOn(w) ==
  /\ InCall(w) /\ (Sleep(w) \/ Retry(w))
  /\ WorkerFrame /\ UNCHANGED <<cache, worker, results, answered, trouble>>

CallFails(w) ==
  /\ InCall(w)
  /\ \/ Respond(w) /\ Error(w, "unavailable") /\ trouble' = TRUE
     \/ Stopped /\ Interrupt(w) /\ Error(w, "canceled") /\ UNCHANGED trouble
  /\ WorkerFrame /\ UNCHANGED <<cache, answered>>

(* What is left of a title once normalizeMatchTitle has taken everything but   *)
(* letters and digits.                                                        *)
Normalized(t) == t \notin Wordless

(* What becomes of a response to a search: an outcome, or an error.  An        *)
(* outcome that its own validation turns down is an error, too.               *)
Accepted(m) == IF m.status = "matched" THEN [id |-> m.id, media |-> m.media] ELSE None

OutcomeOf(wordless, E) ==
  LET d == DecodeSearch(E)
      m == MatchTMDBTitle(wordless, d.candidates)
      failure(code) == [code |-> code, status |-> None, accepted |-> None]
  IN IF d.code # None THEN failure(d.code)
     ELSE IF ~ValidMatch(m) THEN failure("incomplete")
     ELSE [code |-> None, status |-> m.status, accepted |-> Accepted(m)]

SearchOutcomes == [wordless \in BOOLEAN |-> {OutcomeOf(wordless, E) : E \in Responses}]

Search(w) ==
  /\ worker[w].pc = "searching" /\ Respond(w)
  /\ \E o \in SearchOutcomes[~Normalized(worker[w].title)] :
       \/ /\ o.code = None
          /\ worker' = [worker EXCEPT
               ![w] = [@ EXCEPT !.pc = IF o.status = "matched" THEN "details" ELSE "put",
                                !.status = o.status, !.accepted = o.accepted]]
          /\ UNCHANGED <<results, trouble>>
       \/ /\ o.code # None /\ Error(w, o.code)
          /\ trouble' = (trouble \/ o.code = "invalid_response")
  /\ WorkerFrame /\ UNCHANGED <<cache, answered>>

(* What may come of the details of each candidate that may be accepted.        *)
DetailsCodes ==
  [c \in {o.accepted : o \in SearchOutcomes[FALSE]} |->
     IF c = None THEN {} ELSE {DetailsCode(c, a) : a \in Answers}]

Details(w) ==
  /\ worker[w].pc = "detailing" /\ Respond(w)
  /\ \E code \in DetailsCodes[worker[w].accepted] :
       \/ /\ code = None
          /\ worker' = [worker EXCEPT ![w] = [@ EXCEPT !.pc = "put", !.accepted = None]]
          /\ UNCHANGED <<results, trouble>>
       \/ /\ code # None /\ Error(w, code)
          /\ trouble' = (trouble \/ code = "invalid_response")
  /\ WorkerFrame /\ UNCHANGED <<cache, answered>>

(* putAll, and the result is sent.  An outcome beyond the byte limit of a     *)
(* row is refused, which counts as trouble, as a failed write does.           *)
Put(w) ==
  /\ worker[w].pc = "put"
  /\ \/ /\ ~Stopped /\ PutAll(LookupOf(w), worker[w].status)
        /\ answered' = answered \cup {LookupOf(w)}
        /\ Outcome(w, worker[w].status, FALSE) /\ UNCHANGED trouble
     \/ Stopped /\ Error(w, "canceled") /\ UNCHANGED <<cache, answered, trouble>>
     \/ /\ ~Stopped /\ Error(w, "persistence_failed") /\ trouble' = TRUE
        /\ UNCHANGED <<cache, answered>>
  /\ WorkerFrame /\ UNCHANGED clientVars

Work(w) ==
  \/ LookupTitle(w) \/ BeginSearch(w) \/ Search(w) \/ BeginDetails(w)
  \/ Details(w) \/ CallGoesOn(w) \/ CallFails(w) \/ Put(w)

-----------------------------------------------------------------------------
(***************************************************************************)
(* What comes from outside: requests, time, and the end of the process.    *)
(***************************************************************************)

(* CreateTMDBGeneration: a source is active and nothing is being built.      *)
Begin(l) ==
  /\ phase = "up" /\ job.pc = "idle" /\ gen.state # "enriching"
  /\ gen' = NewGeneration(l) /\ files' = NoFiles /\ artifacts' = FALSE
  /\ job' = [NoJob EXCEPT !.pc = "read"]
  /\ trouble' = FALSE /\ deleted' = FALSE
  /\ UNCHANGED <<clientVars, cache, pool, phase, answered>>

(* DeleteGeneration and DeleteProvider cancel the job ...                    *)
Cancel ==
  /\ phase = "up" /\ job.pc # "idle" /\ ~job.canceled
  /\ job' = [job EXCEPT !.canceled = TRUE] /\ deleted' = TRUE
  /\ UNCHANGED <<clientVars, cache, stored, pool, phase, answered, trouble>>

(* ... and the provider's deletion removes everything after it has ended.    *)
DeleteProvider ==
  /\ phase = "up" /\ job.pc = "idle" /\ gen.state # "none"
  /\ gen' = NoGeneration /\ files' = NoFiles /\ artifacts' = FALSE
  /\ DeleteCache /\ answered' = {} /\ trouble' = FALSE /\ deleted' = FALSE
  /\ UNCHANGED <<clientVars, job, pool, phase>>

Close ==
  /\ phase = "up" /\ phase' = "closing"
  /\ job' = IF job.pc = "idle" THEN job ELSE [job EXCEPT !.canceled = TRUE]
  /\ UNCHANGED <<clientVars, cache, stored, pool, ghosts>>

(* The process ends; the pacer of the next one starts anew.                  *)
Gone ==
  /\ phase' = "down" /\ job' = NoJob
  /\ worker' = [w \in Workers |-> Ready] /\ todo' = {} /\ closed' = TRUE /\ results' = <<>>
  /\ call' = [c \in Callers |-> NoCall] /\ ahead' = 0 /\ calm' = Interval
  /\ UNCHANGED <<cache, stored, ghosts>>

Closed == phase = "closing" /\ job.pc = "idle" /\ Gone

Crash == phase # "down" /\ Gone

(* Open takes up the generation that was being built.                        *)
Open ==
  /\ phase = "down" /\ phase' = "up"
  /\ job' = IF gen.state = "enriching" THEN [NoJob EXCEPT !.pc = "read"] ELSE NoJob
  /\ UNCHANGED <<clientVars, cache, stored, pool, ghosts>>

Rest == UNCHANGED <<cache, stored, job, pool, phase, ghosts>>

Time == phase # "down" /\ Tick /\ Rest

Ageing ==
  \E r \in cache :
    /\ Expire(r) /\ answered' = answered \ {r.lookup}
    /\ UNCHANGED <<clientVars, stored, job, pool, phase, trouble, deleted>>

(* What goroutines, timers and TMDB do by themselves.                        *)
Running ==
  \/ Job \/ CloseJobs \/ Time
  \/ \E w \in Workers : Dispatch(w) \/ Work(w)

Next ==
  \/ Running
  \/ \E l \in Locales : Begin(l)
  \/ Cancel \/ DeleteProvider \/ Close \/ Closed \/ Crash \/ Open
  \/ Ageing

Spec == Init /\ [][Next]_vars

(* Some goroutine goes on while one can, timers run, and every request is     *)
(* answered or times out: no order among them is assumed.  Nobody has to ask   *)
(* for anything, and nothing has to fail.                                     *)
Fairness == WF_vars(Running)

FairSpec == Spec /\ Fairness

-----------------------------------------------------------------------------
(* A generation fails only for a fault or a DELETE, and as "canceled" only    *)
(* for a DELETE.  In particular the matcher never builds an outcome that its  *)
(* own validation refuses, the client never lets an answer through that the   *)
(* records refuse, progress and checkpoints agree after every crash,          *)
(* a stopped pool is not taken for a finished one, and closing the server     *)
(* fails nothing.                                                             *)
FailureExplained ==
  gen.state = "failed" =>
    /\ gen.code # None
    /\ trouble \/ deleted
    /\ gen.code = "canceled" => deleted

(* A title is not asked again before its outcome expires: not after a crash,   *)
(* not by the next generation, and not because the pool had been stopped and   *)
(* the collector dropped the result.                                           *)
CachedNotAsked ==
  \A w \in Workers : worker[w].pc \in {"search", "searching"} => LookupOf(w) \notin answered

(* A pool that was started ends: with an error, cancelled or complete, the     *)
(* dispatcher, the workers and the collector never wait for one another.       *)
PoolEnds == job.pc \in {"pool", "record"} ~> job.pc \notin {"pool", "record"}

(* One more candidate in a search never makes the matcher accept a candidate   *)
(* that was there before and that it did not accept without it: doubt only     *)
(* grows.                                                                      *)
DoubtGrows ==
  \A E \in Responses :
    LET found == DecodeSearch(E).candidates
        after == MatchTMDBTitle(FALSE, found)
    IN \A extra \in found :
         LET before == MatchTMDBTitle(FALSE, found \ {extra}) IN
         after.status = "matched" /\ after.id # extra.id =>
           before.status = "matched" /\ before.id = after.id

AcceptedBefore == \A w \in Workers : worker[w].pc = "searching" => DoubtGrows
=============================================================================
