----------------------------- MODULE PrimeLibrary -----------------------------
(***************************************************************************)
(* The Prime Video library of one user: its state file, the requests on    *)
(* it, and the enrichment workers of the server processes that share the   *)
(* user's directory (src/internal/providers/primevideo/store.go and        *)
(* enrichment.go, src/internal/httpapi/prime_operations.go and media.go).  *)
(*                                                                         *)
(* A transaction opens the state file under an exclusive file lock, reads  *)
(* it, and replaces it at most once, so it is one step.  A worker is a     *)
(* sequence of transactions with queries to TMDB between them.             *)
(***************************************************************************)
EXTENDS FiniteSets, Naturals

CONSTANTS
  Processes,    \* the server processes that share the directory
  GenID,        \* the opaque generation IDs that may be drawn
  None,         \* no generation, no archive, no locale
  Titles,       \* the eligible title identities of the archives
  Archives,     \* the source hashes of readable archives
  Locales,      \* the locales titles are looked up in
  Crowded,      \* whether other users' jobs may fill the table of jobs
  MaxFaults,    \* bound: failed replacements of the state file
  MaxStops      \* bound: crashes and closes

ASSUME NoneAssumption == None \notin GenID \cup Archives \cup Locales \cup Titles
ASSUME FiniteAssumption == IsFiniteSet(Titles)
ASSUME BoundsAssumption == MaxFaults \in Nat /\ MaxStops \in Nat /\ Crowded \in BOOLEAN

VARIABLES
  active,     \* the active generation in the state file
  pending,    \* the pending generation in the state file
  root,       \* whether the user's directory exists
  worker,     \* per process, the worker of each generation (operations.jobs)
  live,       \* whether a process is up, closing or down
  used,       \* the IDs drawn so far: 16 random bytes are not drawn twice
  faults,     \* failed replacements so far
  stops       \* crashes and closes so far

file == <<active, pending>>
bounds == <<used, faults, stops>>
vars == <<active, pending, root, worker, live, used, faults, stops>>

-----------------------------------------------------------------------------
(***************************************************************************)
(* A stored generation.  locale is None at level "local".  titles are the  *)
(* eligible titles of its records, done those with an outcome; total and   *)
(* completed are the persisted counters TotalTitles and CompletedTitles.   *)
(* A selection of datasets is known by the titles it leaves.               *)
(***************************************************************************)
States == {"receiving", "awaiting_confirmation", "enriching", "ready", "failed"}

Generation ==
  [id : GenID, state : States, locale : Locales \cup {None}, src : GenID \cup {None},
   archive : Archives \cup {None}, titles : SUBSET Titles, done : SUBSET Titles,
   total : Nat, completed : Nat]

ASSUME GenerationAssumption == None \notin Generation

IdOf(g) == IF g = None THEN None ELSE g.id

Enriching(g) == IdOf(pending) = g /\ pending.state = "enriching"

NewGeneration(g) ==
  [id |-> g, state |-> "receiving", locale |-> None, src |-> None, archive |-> None,
   titles |-> {}, done |-> {}, total |-> 0, completed |-> 0]

(* What an enrichment of source in locale l starts from: outcomes found in  *)
(* the same locale before are kept.                                         *)
Replacement(g, source, l) ==
  LET kept == IF source.locale = l THEN source.done ELSE {} IN
  [source EXCEPT !.id = g, !.state = "enriching", !.locale = l, !.src = source.id,
                 !.done = kept, !.total = Cardinality(source.titles),
                 !.completed = Cardinality(kept)]

(* validateState *)
ValidGeneration(r) == r.locale # None => r.src # None /\ r.completed <= r.total

ValidState(a, p) ==
  /\ a # None => ValidGeneration(a) /\ a.state = "ready"
  /\ p # None => ValidGeneration(p) /\ p.state # "ready"

(* Store.save: a fault before the rename leaves the file, one after it only *)
(* reports an error.                                                        *)
Save(a, p, ok) ==
  \/ ok /\ ValidState(a, p) /\ active' = a /\ pending' = p /\ UNCHANGED faults
  \/ ~ok /\ ~ValidState(a, p) /\ UNCHANGED <<file, faults>>
  \/ /\ ~ok /\ ValidState(a, p)
     /\ faults < MaxFaults /\ faults' = faults + 1
     /\ \/ UNCHANGED file
        \/ active' = a /\ pending' = p

(* Opening a transaction makes the directory, its locks and the state file. *)
Opened == root' = TRUE

-----------------------------------------------------------------------------
(***************************************************************************)
(* A worker: where its goroutine is, whether its context is cancelled,     *)
(* whether it holds the worker lease of the directory as it is now, the    *)
(* titles it still has to look up, and the one it is looking up.           *)
(***************************************************************************)
WorkerSteps ==
  {"idle", "read", "lookup", "checkpoint", "complete", "fail", "release", "forget"}

Worker ==
  [pc : WorkerSteps, cancelled : BOOLEAN, lease : BOOLEAN,
   todo : SUBSET Titles, title : Titles \cup {None}]

Idle == [pc |-> "idle", cancelled |-> FALSE, lease |-> FALSE, todo |-> {}, title |-> None]

Started == [Idle EXCEPT !.pc = "read", !.lease = TRUE]

Becomes(p, g, w) == worker' = [worker EXCEPT ![p][g] = w]

LeaseFree == \A p \in Processes, g \in GenID : ~worker[p][g].lease

Cancelled(w) == IF w.pc = "idle" THEN w ELSE [w EXCEPT !.cancelled = TRUE]

TypeOK ==
  /\ active \in Generation \cup {None}
  /\ pending \in Generation \cup {None}
  /\ root \in BOOLEAN
  /\ worker \in [Processes -> [GenID -> Worker]]
  /\ live \in [Processes -> {"up", "closing", "down"}]
  /\ used \in SUBSET GenID
  /\ faults \in 0..MaxFaults /\ stops \in 0..MaxStops

Init ==
  /\ active = None /\ pending = None /\ root = FALSE
  /\ worker = [p \in Processes |-> [g \in GenID |-> Idle]]
  /\ live = [p \in Processes |-> "up"]
  /\ used = {} /\ faults = 0 /\ stops = 0

-----------------------------------------------------------------------------
(***************************************************************************)
(* Requests.  Each holds the transaction lock from Open to its end.  After *)
(* the timeout of the server's shutdown they may outlast its close.        *)
(***************************************************************************)
Serving(p) == live[p] # "down" /\ Opened /\ UNCHANGED <<live, stops>>

(* One that only reads the library, or is turned down.                      *)
Look(p) == Serving(p) /\ UNCHANGED <<file, worker, used, faults>>

NothingPending == pending = None \/ (pending # None /\ pending.state = "failed")

Create(p, g) ==
  /\ Serving(p) /\ NothingPending
  /\ g \notin used /\ used' = used \cup {g}
  /\ \E ok \in BOOLEAN : Save(active, NewGeneration(g), ok)
  /\ UNCHANGED worker

(* A readable archive waits for its selection; any other fails the import.  *)
Upload(p) ==
  /\ Serving(p)
  /\ pending # None /\ pending.state = "receiving"
  /\ \E ok \in BOOLEAN, a \in Archives, state \in {"awaiting_confirmation", "failed"} :
       Save(active,
            [pending EXCEPT !.state = state,
                            !.archive = IF state = "failed" THEN None ELSE a],
            ok)
  /\ UNCHANGED <<worker, used>>

(* Mutant: any pending generation can be selected. *)
SelectMutant(p, sel) ==
  /\ Serving(p)
  /\ pending # None /\ pending.state # "failed"
  /\ \E ok \in BOOLEAN :
       IF active # None /\ active.archive = pending.archive /\ active.titles = sel
         THEN Save(active, None, ok)
         ELSE Save([pending EXCEPT !.state = "ready", !.titles = sel], None, ok)
  /\ UNCHANGED <<worker, used>>

(* The confirmed datasets, with the titles sel, replace the active ones     *)
(* unless they are the same.                                                *)
Select(p, sel) ==
  /\ Serving(p)
  /\ pending # None /\ pending.state = "awaiting_confirmation"
  /\ \E ok \in BOOLEAN :
       IF active # None /\ active.archive = pending.archive /\ active.titles = sel
         THEN Save(active, None, ok)
         ELSE Save([pending EXCEPT !.state = "ready", !.titles = sel], None, ok)
  /\ UNCHANGED <<worker, used>>

(* Mutant: no worker lease. *)
StartMutant(p, g) ==
  IF live[p] = "up" /\ worker[p][g].pc = "idle" THEN Becomes(p, g, Started)
                                               ELSE UNCHANGED worker

(* primeOperations.start: nothing to do when the process has a job for g.   *)
Start(p, g) ==
  IF live[p] = "up" /\ worker[p][g].pc = "idle" /\ LeaseFree
    THEN Becomes(p, g, Started)
    ELSE UNCHANGED worker

StartOrRefuse(p, g) == Start(p, g) \/ (Crowded /\ UNCHANGED worker)

(* BeginEnrichment and start: a pending enrichment of the same source and   *)
(* locale is resumed, and no other pending work is replaced.                *)
BeginEnrichment(p, g, l) ==
  /\ Serving(p)
  /\ active # None /\ NothingPending
  /\ g \notin used /\ used' = used \cup {g}
  /\ \E ok \in BOOLEAN :
       /\ Save(active, Replacement(g, active, l), ok)
       /\ IF ok THEN StartOrRefuse(p, g) ELSE UNCHANGED worker

ResumeEnrichment(p) ==
  /\ Serving(p)
  /\ active # None /\ pending # None
  /\ pending.state = "enriching" /\ pending.src = active.id
  /\ StartOrRefuse(p, pending.id)
  /\ UNCHANGED <<file, used, faults>>

Cancel(p, S) ==
  worker' = [q \in Processes |-> [g \in GenID |->
               IF q = p /\ g \in S THEN Cancelled(worker[q][g]) ELSE worker[q][g]]]

(* Mutant: the active generation can be deleted, too. *)
DeleteGenerationMutant(p, g) ==
  /\ Serving(p)
  /\ g \in {IdOf(active), IdOf(pending)}
  /\ \E ok \in BOOLEAN :
       /\ Save(IF IdOf(active) = g THEN None ELSE active,
               IF IdOf(pending) = g THEN None ELSE pending, ok)
       /\ IF ok THEN Cancel(p, {g}) ELSE UNCHANGED worker
  /\ UNCHANGED used

(* The pending generation is removed, then its job cancelled.               *)
DeleteGeneration(p, g) ==
  /\ Serving(p)
  /\ IdOf(active) # g
  /\ IdOf(pending) = g \/ worker[p][g].pc # "idle"
  /\ \E ok \in BOOLEAN :
       /\ IF IdOf(pending) = g THEN Save(active, None, ok)
                               ELSE ok /\ UNCHANGED <<file, faults>>
       /\ IF ok THEN Cancel(p, {g}) ELSE UNCHANGED worker
  /\ UNCHANGED used

DeleteProvider(p) ==
  /\ Serving(p)
  /\ Cancel(p, GenID)
  /\ \E ok \in BOOLEAN : Save(None, None, ok)
  /\ UNCHANGED used

(* The user's directory goes, and with it the file a worker has locked.     *)
DeleteUser(p) ==
  LET Unlocked(w) == [w EXCEPT !.lease = FALSE] IN
  /\ live[p] # "down" /\ root
  /\ root' = FALSE /\ active' = None /\ pending' = None
  /\ worker' = [q \in Processes |-> [g \in GenID |->
       Unlocked(IF q = p THEN Cancelled(worker[q][g]) ELSE worker[q][g])]]
  /\ UNCHANGED <<live, bounds>>

-----------------------------------------------------------------------------
(***************************************************************************)
(* The worker of g in process p.                                           *)
(***************************************************************************)
Go(p, g, pc) == Becomes(p, g, [worker[p][g] EXCEPT !.pc = pc])

(* Mutant: the worker starts over. *)
StopMutant(p, g) == Go(p, g, IF worker[p][g].cancelled THEN "release" ELSE "read")

(* What run does after an error: nothing more once cancelled.               *)
Stop(p, g) == Go(p, g, IF worker[p][g].cancelled THEN "release" ELSE "fail")

WorkerFrame == UNCHANGED <<live, used, stops>>

(* Another process may be inside a transaction and hold its lock.           *)
Contended(p) == \E q \in Processes \ {p} : live[q] # "down"

(* Mutant: the directory is opened before the context is looked at. *)
UnopenedMutant(p, g) ==
  /\ worker[p][g].cancelled \/ Contended(p)
  /\ Stop(p, g)
  /\ Opened /\ UNCHANGED <<file, faults>>

Unopened(p, g) ==
  /\ worker[p][g].cancelled \/ Contended(p)
  /\ Stop(p, g)
  /\ UNCHANGED <<file, root, faults>>

(* The transaction finds another generation, or none.                       *)
Missing(p, g) ==
  /\ ~worker[p][g].cancelled /\ ~Enriching(g)
  /\ Go(p, g, IF IdOf(pending) = g THEN "fail" ELSE "release")
  /\ Opened /\ UNCHANGED <<file, faults>>

(* Mutant: titles that have an outcome are looked up again. *)
EnrichmentRecordsMutant(p, g) ==
  /\ worker[p][g].pc = "read"
  /\ \/ Unopened(p, g) \/ Missing(p, g)
     \/ /\ ~worker[p][g].cancelled /\ Enriching(g)
        /\ Becomes(p, g, [worker[p][g] EXCEPT !.pc = "lookup", !.todo = pending.titles])
        /\ Opened /\ UNCHANGED <<file, faults>>
  /\ WorkerFrame

(* EnrichmentRecords *)
EnrichmentRecords(p, g) ==
  /\ worker[p][g].pc = "read"
  /\ \/ Unopened(p, g) \/ Missing(p, g)
     \/ /\ ~worker[p][g].cancelled /\ Enriching(g)
        /\ Becomes(p, g, [worker[p][g] EXCEPT !.pc = "lookup",
                                              !.todo = pending.titles \ pending.done])
        /\ Opened /\ UNCHANGED <<file, faults>>
  /\ WorkerFrame

(* Mutant: an answered title stays on the list. *)
ResolveTitleMutant(p, g) ==
  /\ worker[p][g].pc = "lookup"
  /\ \/ worker[p][g].todo = {} /\ Go(p, g, "complete")
     \/ worker[p][g].todo # {} /\ Stop(p, g)
     \/ \E t \in worker[p][g].todo :
          Becomes(p, g, [worker[p][g] EXCEPT !.pc = "checkpoint", !.title = t])
  /\ WorkerFrame /\ UNCHANGED <<file, root, faults>>

(* ResolveTitle, for a title that is left: an answer or an error.           *)
ResolveTitle(p, g) ==
  /\ worker[p][g].pc = "lookup"
  /\ \/ worker[p][g].todo = {} /\ Go(p, g, "complete")
     \/ worker[p][g].todo # {} /\ Stop(p, g)
     \/ \E t \in worker[p][g].todo :
          Becomes(p, g, [worker[p][g] EXCEPT !.pc = "checkpoint", !.title = t,
                                             !.todo = @ \ {t}])
  /\ WorkerFrame /\ UNCHANGED <<file, root, faults>>

Checkpointed(t) == [pending EXCEPT !.done = @ \cup {t}, !.completed = @ + 1]

Checkpoint(p, g) ==
  /\ worker[p][g].pc = "checkpoint"
  /\ \/ Unopened(p, g) \/ Missing(p, g)
     \/ /\ ~worker[p][g].cancelled /\ Enriching(g)
        /\ \E ok \in BOOLEAN :
             /\ Save(active, Checkpointed(worker[p][g].title), ok)
             /\ Go(p, g, IF ok THEN "lookup" ELSE "fail")
        /\ Opened
  /\ WorkerFrame

(* The counters, not the outcomes, say whether the replacement is complete. *)
CompleteEnrichment(p, g) ==
  /\ worker[p][g].pc = "complete"
  /\ \/ Unopened(p, g) \/ Missing(p, g)
     \/ /\ ~worker[p][g].cancelled /\ Enriching(g) /\ Opened
        /\ IF pending.completed # pending.total
             THEN Go(p, g, "fail") /\ UNCHANGED <<file, faults>>
             ELSE \E ok \in BOOLEAN :
                    /\ Save([pending EXCEPT !.state = "ready"], None, ok)
                    /\ Go(p, g, IF ok THEN "release" ELSE "fail")
  /\ WorkerFrame

(* Mutant: the title in flight is taken back from the counter. *)
DiscardedMutant ==
  [pending EXCEPT !.state = "failed", !.titles = {}, !.done = {}, !.completed = @ - 1]

Discarded == [pending EXCEPT !.state = "failed", !.titles = {}, !.done = {}]

(* Mutant: the failure is only logged. *)
FailEnrichmentMutant(p, g) ==
  /\ worker[p][g].pc = "fail" /\ Go(p, g, "release")
  /\ WorkerFrame /\ UNCHANGED <<file, root, faults>>

(* FailEnrichment: what goes wrong here is only logged.                     *)
FailEnrichment(p, g) ==
  /\ worker[p][g].pc = "fail" /\ Go(p, g, "release")
  /\ \/ /\ worker[p][g].cancelled \/ Contended(p)
        /\ UNCHANGED <<file, root, faults>>
     \/ /\ ~worker[p][g].cancelled /\ Opened
        /\ IF Enriching(g)
             THEN \E ok \in BOOLEAN : Save(active, Discarded, ok)
             ELSE UNCHANGED <<file, faults>>
  /\ WorkerFrame

(* lease.Close, and then delete(operations.jobs, key).                      *)
Release(p, g) ==
  /\ worker[p][g].pc = "release"
  /\ Becomes(p, g, [worker[p][g] EXCEPT !.pc = "forget", !.lease = FALSE])
  /\ WorkerFrame /\ UNCHANGED <<file, root, faults>>

Forget(p, g) ==
  /\ worker[p][g].pc = "forget"
  /\ Becomes(p, g, Idle)
  /\ WorkerFrame /\ UNCHANGED <<file, root, faults>>

Run(p, g) ==
  \/ EnrichmentRecords(p, g) \/ ResolveTitle(p, g) \/ Checkpoint(p, g)
  \/ CompleteEnrichment(p, g) \/ FailEnrichment(p, g)
  \/ Release(p, g) \/ Forget(p, g)

-----------------------------------------------------------------------------
(* A process: primeOperations.close waits for its workers; a crash does not *)
(* and the system frees its locks.                                          *)

ProcessFrame == UNCHANGED <<file, root, used, faults>>

Close(p) ==
  /\ live[p] = "up" /\ stops < MaxStops /\ stops' = stops + 1
  /\ live' = [live EXCEPT ![p] = "closing"]
  /\ Cancel(p, GenID) /\ ProcessFrame

Closed(p) ==
  /\ live[p] = "closing" /\ \A g \in GenID : worker[p][g].pc = "idle"
  /\ live' = [live EXCEPT ![p] = "down"]
  /\ ProcessFrame /\ UNCHANGED <<worker, stops>>

Crash(p) ==
  /\ live[p] # "down" /\ stops < MaxStops /\ stops' = stops + 1
  /\ live' = [live EXCEPT ![p] = "down"]
  /\ worker' = [q \in Processes |-> IF q = p THEN [g \in GenID |-> Idle] ELSE worker[q]]
  /\ ProcessFrame

Restart(p) ==
  /\ live[p] = "down" /\ live' = [live EXCEPT ![p] = "up"]
  /\ ProcessFrame /\ UNCHANGED <<worker, stops>>

Request(p) ==
  \/ Look(p) \/ Upload(p) \/ ResumeEnrichment(p) \/ DeleteProvider(p) \/ DeleteUser(p)
  \/ \E sel \in SUBSET Titles : Select(p, sel)
  \/ \E g \in GenID :
       \/ Create(p, g) \/ DeleteGeneration(p, g)
       \/ \E l \in Locales : BeginEnrichment(p, g, l)

Process(p) == Close(p) \/ Closed(p) \/ Crash(p) \/ Restart(p)

Next == \E p \in Processes : Request(p) \/ Process(p) \/ \E g \in GenID : Run(p, g)

Spec == Init /\ [][Next]_vars

-----------------------------------------------------------------------------
(***************************************************************************)
(* Safety.                                                                 *)
(***************************************************************************)

(* The worker of g in p has started and not yet finished or been cancelled. *)
Working(p, g) ==
  ~worker[p][g].cancelled /\ worker[p][g].pc \notin {"idle", "release", "forget"}

(* The counters of a pending enrichment agree with its outcomes, although   *)
(* Checkpoint only adds one: across crashes, resumptions, cancelled workers *)
(* and other processes no title is counted twice or missed.  So what is     *)
(* active is complete, although CompleteEnrichment compares counters only.  *)
Counted ==
  /\ pending # None /\ pending.state = "enriching" =>
       /\ pending.total = Cardinality(pending.titles)
       /\ pending.completed = Cardinality(pending.done)
       /\ pending.done \subseteq pending.titles
  /\ active # None /\ active.locale # None => active.done = active.titles

(* A completed title is not queried again, whatever was resumed since.      *)
NoRepeatedQuery ==
  \A p \in Processes, g \in GenID :
    Working(p, g) /\ Enriching(g) /\ worker[p][g].pc = "checkpoint"
      => worker[p][g].title \notin pending.done

(* One worker at a time works on a generation, in all processes.            *)
OneWorker ==
  \A p, q \in Processes, g \in GenID : Working(p, g) /\ Working(q, g) => p = q

(* An enriched generation replaces the very generation it was made from.    *)
SourceReplaced ==
  active' # active /\ active' # None /\ active'.locale # None =>
    active # None /\ active'.src = active.id /\ IdOf(pending) = active'.id
ReplacesItsSource == [][SourceReplaced]_vars

(* A worker cancelled with the deletion of the user's directory, asleep in  *)
(* a query or waiting for the transaction, does not make it again when it   *)
(* wakes; a request does, or the worker of another process.                 *)
Recreated ==
  ~root /\ root' =>
    \A p \in Processes, g \in GenID :
      worker[p][g].cancelled => worker'[p][g] = worker[p][g]
StaysDeleted == [][Recreated]_vars
=============================================================================
