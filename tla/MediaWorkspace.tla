---------------------------- MODULE MediaWorkspace ----------------------------
(***************************************************************************)
(* The media page of the browser (src/frontend/application/               *)
(* media-workspace.js) over the Prime Video library it shows and drives.   *)
(* A page runs one thread: a chain of requests (flow) in which the user's  *)
(* clicks, a timer and whatever happens in the server come between asking  *)
(* and being answered.  A click that starts another chain aborts the one   *)
(* that is running.                                                        *)
(***************************************************************************)
EXTENDS PrimeLibrary

CONSTANTS
  Contained,       \* the eligible titles of every archive
  PageLocale,      \* the locale the page asks for
  TMDBConfigured   \* whether the server has a TMDB client

ASSUME ContainedAssumption == Contained \in [Archives -> SUBSET Titles]
ASSUME PageAssumption == PageLocale \in Locales /\ TMDBConfigured \in BOOLEAN
ASSUME OneServerAssumption == (\E p \in Processes : Processes = {p}) /\ MaxFaults = 0

VARIABLES
  page,    \* the variables of the page's module
  flow,    \* the chain that is running, and the request it waits for
  lost,    \* history: the pending generation, if a resumption of it was aborted
  missed   \* history: the snapshot that closes the analysis did not come

pageVars == <<page, flow, lost, missed>>
allVars == <<vars, pageVars>>

Server == CHOOSE p \in Processes : TRUE

-----------------------------------------------------------------------------
(***************************************************************************)
(* What a snapshot tells of a generation, and what a chain waits for.      *)
(***************************************************************************)
Brief(r) ==
  IF r = None THEN None
  ELSE [id |-> r.id, state |-> r.state, locale |-> r.locale, src |-> r.src]

ASSUME BriefAssumption ==
  None \notin [id : GenID, state : States, locale : Locales \cup {None},
               src : GenID \cup {None}]

Idling == [task |-> "none", at |-> "none"]

(* clearMediaWorkspace.  first: only the load itself has fetched a report.  *)
Cleared ==
  [enabled |-> FALSE, busy |-> FALSE, error |-> "", timer |-> FALSE, first |-> TRUE,
   active |-> None, pending |-> None, report |-> None,
   attempted |-> {}, resumed |-> {}, suspended |-> FALSE]

PageInit == page = Cleared /\ flow = Idling /\ lost = {} /\ missed = FALSE

-----------------------------------------------------------------------------
(***************************************************************************)
(* The server handles what the flow asks.                                  *)
(***************************************************************************)
TurnedDown(ok) == ~ok /\ Look(Server)

(* primeOperations.start had no error.                                      *)
HasWorker(g) == live[Server] = "up" /\ worker'[Server][g].pc # "idle"

(* One unused ID is as good as another.                                     *)
Fresh == CHOOSE g \in GenID : g \notin used

CreateServed(ok) ==
  \/ ok /\ used # GenID /\ Create(Server, Fresh)
  \/ (~NothingPending \/ used = GenID) /\ TurnedDown(ok)

UploadServed(g, ok) ==
  \/ IdOf(pending) = g /\ Upload(Server) /\ ok = (pending'.state = "awaiting_confirmation")
  \/ (IdOf(pending) = g => pending.state # "receiving") /\ TurnedDown(ok)

SelectServed(g, ok) ==
  \/ ok /\ IdOf(pending) = g /\ Select(Server, Contained[pending.archive])
  \/ (IdOf(pending) = g => pending.state # "awaiting_confirmation") /\ TurnedDown(ok)

(* The enrichment of source is begun, or resumed if it is what is pending;  *)
(* it may be stored and its worker refused.                                 *)
EnrichServed(source, l, ok) ==
  LET same == pending # None /\ pending.state = "enriching"
                /\ pending.src = source /\ pending.locale = l
      begins == NothingPending /\ used # GenID
      known == TMDBConfigured /\ IdOf(active) = source
  IN
  \/ known /\ begins /\ BeginEnrichment(Server, Fresh, l) /\ ok = HasWorker(Fresh)
  \/ known /\ same /\ ResumeEnrichment(Server) /\ ok = HasWorker(pending.id)
  \/ ~(known /\ (begins \/ same)) /\ TurnedDown(ok)

DropServed(g, ok) ==
  \/ ok /\ DeleteGeneration(Server, g)
  \/ IdOf(active) = g /\ TurnedDown(ok)
  \/ g \notin {IdOf(active), IdOf(pending)} /\ worker[Server][g].pc = "idle" /\ ok /\ Look(Server)

Served(at, ok) ==
  \/ at \in {"get", "report", "reget", "last"} /\ ok /\ Look(Server)
  \/ at = "create" /\ CreateServed(ok)
  \/ at = "upload" /\ UploadServed(page.pending.id, ok)
  \/ at = "select" /\ SelectServed(page.pending.id, ok)
  \/ at = "resume" /\ EnrichServed(page.pending.src, page.pending.locale, ok)
  \/ at = "begin" /\ EnrichServed(page.active.id, PageLocale, ok)
  \/ at = "drop" /\ DropServed(page.pending.id, ok)
  \/ at = "discard" /\ ok /\ DeleteProvider(Server)

(* Whatever it makes of a request, if the request gets there at all.        *)
Reached(at) == UNCHANGED vars \/ \E ok \in BOOLEAN : Served(at, ok)

-----------------------------------------------------------------------------
(***************************************************************************)
(* How a chain goes on: each of these operators gives page' and flow'.     *)
(***************************************************************************)
Goes(pg, task, at) == page' = pg /\ flow' = [task |-> task, at |-> at]

Rests(pg) == page' = pg /\ flow' = Idling

Complaining(pg, error) == [pg EXCEPT !.error = error]

(* updateProviders *)
Showing(pg) == [pg EXCEPT !.active = Brief(active'), !.pending = Brief(pending')]

(* running *)
Building(pg) == pg.pending # None /\ pg.pending.state # "failed"

(* Mutant: no polling while an error is shown. *)
ScheduledMutant(pg) ==
  [pg EXCEPT !.timer = pg.enabled /\ Building(pg) /\ pg.error = ""]

(* schedulePoll *)
Scheduled(pg) == [pg EXCEPT !.timer = pg.enabled /\ Building(pg)]

(* showError *)
ShowError == Rests(Scheduled(Complaining(page, "request_failed")))

(* Mutant: only an attempt, not a cancellation, is remembered. *)
DueMutant(pg) ==
  /\ pg.active # None /\ pg.pending = None
  /\ pg.active.locale = None
  /\ pg.active.id \notin pg.attempted

(* The second half of advanceAnalysis: a local generation is enriched once, *)
(* unless the user has suspended it; then the snapshot is fetched anew.     *)
Due(pg) ==
  /\ pg.active # None /\ pg.pending = None
  /\ pg.active.locale = None
  /\ ~pg.suspended /\ pg.active.id \notin pg.attempted

BeginDue(pg, task) ==
  LET tried == [pg EXCEPT !.attempted = @ \cup {pg.active.id}] IN
  \/ Due(pg) /\ TMDBConfigured /\ Goes(tried, task, "begin")
  \/ Due(pg) /\ ~TMDBConfigured /\ Goes(Complaining(tried, "analysis_failed"), task, "last")
  \/ ~Due(pg) /\ Goes(pg, task, "last")

(* Mutant: what the page has attempted itself is not resumed. *)
AdvanceMutant(pg, task) ==
  LET In(state) == pg.pending # None /\ pg.pending.state = state
      resumes == In("enriching") /\ pg.pending.id \notin pg.resumed
                   /\ pg.pending.src \notin pg.attempted
  IN
  \/ In("awaiting_confirmation") /\ Goes(pg, task, "select")
  \/ resumes /\ Goes([pg EXCEPT !.resumed = @ \cup {pg.pending.id}], task, "resume")
  \/ ~In("awaiting_confirmation") /\ ~resumes /\ BeginDue(pg, task)

(* advanceAnalysis: an archive is confirmed, an enrichment resumed once.    *)
Advance(pg, task) ==
  LET In(state) == pg.pending # None /\ pg.pending.state = state
      resumes == In("enriching") /\ pg.pending.id \notin pg.resumed
  IN
  \/ In("awaiting_confirmation") /\ Goes(pg, task, "select")
  \/ resumes /\ Goes([pg EXCEPT !.resumed = @ \cup {pg.pending.id}], task, "resume")
  \/ ~In("awaiting_confirmation") /\ ~resumes /\ BeginDue(pg, task)

(* The end of uploadFiles and perform: the page is refreshed.               *)
Done(pg) == Goes([pg EXCEPT !.busy = FALSE], "refresh", "get")

Failing(error) == Done(Complaining(page, error))

Advanced(pg, task) ==
  \/ task = "hydrate" /\ Rests(Scheduled(pg))
  \/ task = "refresh" /\ Goes(pg, task, "report")
  \/ task = "retry" /\ Done(pg)

-----------------------------------------------------------------------------
(***************************************************************************)
(* What the page makes of an answer: ok, or an error.                      *)
(***************************************************************************)
GotProviders(ok) ==
  /\ flow.at = "get"
  /\ \/ ok /\ flow.task = "hydrate" /\ Goes(Showing(page), "hydrate", "report")
     \/ ok /\ flow.task \in {"refresh", "retry"} /\ Advance(Showing(page), flow.task)
     \/ ~ok /\ flow.task = "hydrate" /\ Rests(Complaining(page, "workspace"))
     \/ ~ok /\ flow.task = "refresh" /\ ShowError
     \/ ~ok /\ flow.task = "retry" /\ Failing("analysis_failed")

Reported(pg) == [pg EXCEPT !.report = IdOf(active')]

Recovered(pg) == [pg EXCEPT !.error = IF @ = "request_failed" THEN "" ELSE @]

(* The load fetches the report before it advances the analysis, a refresh   *)
(* after it.                                                                *)
GotReport(ok) ==
  /\ flow.at = "report"
  /\ \/ ok /\ flow.task = "hydrate" /\ Advance(Reported(page), "hydrate")
     \/ /\ ok /\ flow.task = "refresh"
        /\ Rests(Scheduled(Recovered([Reported(page) EXCEPT !.first = FALSE])))
     \/ ~ok /\ flow.task = "hydrate" /\ Rests(Complaining(page, "workspace"))
     \/ ~ok /\ flow.task = "refresh" /\ ShowError

Stumbling == Complaining(page, "analysis_failed")

Confirmed(ok) ==
  \/ flow.at = "select" /\ ok /\ Goes(page, flow.task, "reget")
  \/ flow.at = "reget" /\ ok /\ BeginDue(Showing(page), flow.task)
  \/ flow.at \in {"select", "reget"} /\ ~ok /\ BeginDue(Stumbling, flow.task)

Resumed(ok) ==
  flow.at = "resume" /\ BeginDue(IF ok THEN page ELSE Stumbling, flow.task)

Began(ok) ==
  /\ flow.at = "begin"
  /\ \/ ok /\ Goes([page EXCEPT !.resumed = @ \cup {pending'.id}], flow.task, "last")
     \/ ~ok /\ Goes(Stumbling, flow.task, "last")

GotLast(ok) ==
  flow.at = "last" /\ Advanced(IF ok THEN Showing(page) ELSE Stumbling, flow.task)

Imported(ok) ==
  \/ flow.at = "create" /\ ok /\ Goes([page EXCEPT !.pending = Brief(pending')], "upload", "upload")
  \/ flow.at = "upload" /\ ok /\ Done(page)
  \/ flow.at \in {"create", "upload"} /\ ~ok /\ Failing("import_failed")

Removed(ok) ==
  /\ flow.at \in {"drop", "discard"}
  /\ \/ ok /\ flow.task = "retry" /\ Goes(page, "retry", "get")
     \/ ok /\ flow.task # "retry" /\ Done(page)
     \/ ~ok /\ Failing("analysis_failed")

StillPending(S) == S \cap {IdOf(pending')}

(* Every request may fail on its own: it is refused (no capacity, an error   *)
(* of the server) or lost before it is handled, or its answer is lost.      *)
Exchange ==
  /\ flow # Idling
  /\ \E ok \in BOOLEAN :
       /\ Served(flow.at, ok) \/ (~ok /\ Reached(flow.at))
       /\ missed' = IF flow.at = "last" THEN ~ok ELSE flow.at = "report" /\ missed
       /\ \/ GotProviders(ok) \/ GotReport(ok) \/ Confirmed(ok) \/ Resumed(ok)
          \/ Began(ok) \/ GotLast(ok) \/ Imported(ok) \/ Removed(ok)
  /\ lost' = StillPending(lost)

-----------------------------------------------------------------------------
(***************************************************************************)
(* The user and the timer.  controller.abort() ends the chain that runs:   *)
(* its request has been handled, with its answer lost, or never is.        *)
(***************************************************************************)
Aborts ==
  /\ Reached(flow.at) /\ missed' = FALSE
  /\ lost' = StillPending(lost \cup IF flow.at = "resume" THEN {page.pending.id} ELSE {})

(* Nothing can be clicked before the page is loaded, or if that failed.     *)
Clickable == page.enabled /\ flow.task # "hydrate" /\ page.error # "workspace"

(* refresh, as a filter, a page of records or the timer calls it.           *)
Refreshes(pg) ==
  \/ ~pg.busy /\ Goes(pg, "refresh", "get") /\ Aborts
  \/ pg.busy /\ page' = Scheduled(pg) /\ UNCHANGED <<vars, flow, lost, missed>>

Filter == Clickable /\ Refreshes(page)

Timer == page.timer /\ Refreshes([page EXCEPT !.timer = FALSE])

Acting == [page EXCEPT !.busy = TRUE, !.error = ""]

UploadFiles ==
  /\ Clickable /\ ~page.busy
  /\ Goes([Acting EXCEPT !.suspended = FALSE], "upload", "create")
  /\ Aborts

(* A build can be cancelled while something else is being done.             *)
CancelBuild ==
  /\ Clickable /\ page.pending # None /\ (page.busy \/ Building(page))
  /\ Goes([Acting EXCEPT !.suspended = TRUE], "cancel", "drop")
  /\ Aborts

DeleteData ==
  /\ Clickable /\ ~page.busy /\ page.active # None
  /\ Goes([Acting EXCEPT !.suspended = TRUE], "delete", "discard")
  /\ Aborts

(* A failed generation is removed before the analysis is advanced.          *)
RetryAnalysis ==
  LET failed == page.pending # None /\ page.pending.state = "failed" IN
  /\ Clickable /\ ~page.busy
  /\ page.error = "analysis_failed" \/ (failed /\ page.error = "")
  /\ Goes([Acting EXCEPT !.suspended = FALSE, !.attempted = {}, !.resumed = {}],
          "retry", IF failed THEN "drop" ELSE "get")
  /\ Aborts

(* The route changes, or the user signs out; and the page is opened.        *)
Leave ==
  /\ page.enabled /\ Rests(Cleared) /\ lost' = {} /\ missed' = FALSE
  /\ Reached(flow.at)

Load ==
  /\ ~page.enabled /\ UNCHANGED <<vars, lost, missed>>
  /\ Goes([Cleared EXCEPT !.enabled = TRUE], "hydrate", "get")

User ==
  \/ Filter \/ UploadFiles \/ CancelBuild \/ DeleteData \/ RetryAnalysis
  \/ Leave \/ Load

(* What the server does on its own: its workers run, a close comes to its   *)
(* end, and it is started again.                                            *)
GoesOn ==
  /\ Closed(Server) \/ Restart(Server) \/ \E g \in GenID : Run(Server, g)
  /\ UNCHANGED pageVars

(* And what befalls it.  No page deletes the user's whole directory.        *)
Befalls ==
  /\ Close(Server) \/ Crash(Server) \/ (~page.enabled /\ DeleteUser(Server))
  /\ UNCHANGED pageVars

MediaNext == Exchange \/ User \/ Timer \/ GoesOn \/ Befalls

MediaSpec == Init /\ PageInit /\ [][MediaNext]_allVars

(* A page that waits gets an answer or a failure at last, though the user   *)
(* may click meanwhile; nobody has to click, and nobody clicks away every   *)
(* snapshot before it has come, or failed.                                  *)
MediaFairness ==
  /\ WF_allVars(Exchange) /\ SF_allVars(flow.at = "get" /\ Exchange)
  /\ WF_allVars(Timer) /\ WF_allVars(GoesOn)

MediaFairSpec == MediaSpec /\ MediaFairness

-----------------------------------------------------------------------------
(***************************************************************************)
(* Properties.                                                             *)
(***************************************************************************)

Settled ==
  page.enabled /\ flow = Idling /\ ~page.timer /\ ~page.first

(* A page that waits for nothing, once it has been refreshed, shows the     *)
(* report of the library as it is stored: no worker finishes unseen between *)
(* the snapshot that ends the polling and the report that is shown.  It may *)
(* be stale only below an error: the last refresh was not answered, or its  *)
(* closing snapshot did not come, so that the page does not know, nor poll  *)
(* for, what it has just begun.                                             *)
Excused ==
  page.error = "request_failed" \/ (page.error = "analysis_failed" /\ missed)

ReportCurrent == Settled /\ ~Excused => page.report = IdOf(active)

(* An analysis the user has cancelled, or deleted with its data, is not     *)
(* begun again before the user asks for it.  A request to resume another    *)
(* enrichment may still begin one: if what it is to resume fails before the *)
(* server gets to it, BeginEnrichment replaces it.                          *)
EnrichmentBegun ==
  pending' # None /\ pending'.state = "enriching" /\ IdOf(pending') # IdOf(pending)
CancelledStays ==
  [][EnrichmentBegun => ~page.suspended \/ (flow.at = "resume" /\ NothingPending)]_allVars

(* An enrichment nobody works on, interrupted by the end of its server, is  *)
(* resumed by a page that has not resumed it before, or the page shows an   *)
(* error; only a click in that very moment prevents it.                     *)
Attended == Working(Server, pending.id)

Unattended == pending # None /\ pending.state = "enriching" /\ ~Attended

PendingTakenUp ==
  Unattended /\ page.enabled /\ pending.id \notin page.resumed
    ~> ~Unattended \/ ~page.enabled \/ page.error # "" \/ pending.id \in lost

(* A worker that is not cancelled leaves its generation complete or failed, *)
(* and no worker runs, or keeps its lease and its place, for ever.          *)
LeftEnriching(g) ==
  Working(Server, g) /\ ~Working(Server, g)' /\ Enriching(g)'

EnrichmentEnds ==
  /\ [][\A g \in GenID : LeftEnriching(g) =>
           worker'[Server][g].cancelled \/ live'[Server] = "down"]_vars
  /\ []<>(\A g \in GenID : worker[Server][g].pc = "idle")
=============================================================================
