------------------------- MODULE MediaWorkspaceProofs -------------------------
(***************************************************************************)
(* Proofs about the media page and the Prime Video library it drives, for  *)
(* any generations, titles, archives and locales and any number of crashes *)
(* and closes: whatever the page asks for, and however its requests are    *)
(* aborted or fail, is something the library allows; a page that waits for *)
(* nothing shows the report of what is active, or an error of its own; and *)
(* what the user has cancelled is not begun again.                         *)
(***************************************************************************)
EXTENDS MediaWorkspace, PrimeLibraryProofs

LEMMA OneServer == Processes = {Server}
  BY OneServerAssumption DEF Server

-----------------------------------------------------------------------------
(***************************************************************************)
(* What more is true of the library: its file is valid, what waits for the *)
(* user is readable, and what is looked up has a locale.                   *)
(***************************************************************************)
Shaped(q) ==
  q # None =>
    /\ q.state = "awaiting_confirmation" => q.archive \in Archives
    /\ q.state = "enriching" => q.locale \in Locales

Sound(a, q) == ValidState(a, q) /\ Shaped(q)

Kept == Sound(active, pending)

LEMMA SavedSound ==
  ASSUME NEW a, NEW q, NEW ok, Sound(active, pending), Shaped(q), Save(a, q, ok)
  PROVE  Sound(active', pending')
<1>1. (active' = active /\ pending' = pending)
        \/ (active' = a /\ pending' = q /\ ValidState(a, q))
  BY DEF Save, file
<1> QED BY <1>1 DEF Sound

LEMMA NothingSound == Shaped(None) /\ Sound(None, None)
  BY DEF Shaped, Sound, ValidState

(* Requests save only what is sound. *)
LEMMA RequestSound ==
  ASSUME IInv, Kept, NEW p \in Processes, Request(p)
  PROVE  Sound(active', pending')
<1>1. CASE Look(p) \/ ResumeEnrichment(p)
  <2>1. active' = active /\ pending' = pending
    BY <1>1 DEF Look, ResumeEnrichment, file
  <2> QED BY <2>1 DEF Kept
<1>2. CASE Upload(p)
  <2>1. PICK ok \in BOOLEAN, a \in Archives, state \in {"awaiting_confirmation", "failed"} :
          Save(active,
               [pending EXCEPT !.state = state,
                               !.archive = IF state = "failed" THEN None ELSE a],
               ok)
    BY <1>2 DEF Upload
  <2> DEFINE new == [pending EXCEPT !.state = state,
                                    !.archive = IF state = "failed" THEN None ELSE a]
  <2>2. pending \in Generation
    BY <1>2 DEF Upload, IInv, TypeOK
  <2>3. new.state = state /\ new.archive = IF state = "failed" THEN None ELSE a
    BY <2>2 DEF Generation
  <2>4. Save(active, new, ok)
    BY <2>1
  <2> HIDE DEF new
  <2>5. Shaped(new)
    BY <2>3 DEF Shaped
  <2> QED BY <2>4, <2>5, SavedSound DEF Kept
<1>3. CASE \E sel \in SUBSET Titles : Select(p, sel)
  <2>1. ASSUME NEW a, NEW ok, Save(a, None, ok) PROVE Sound(active', pending')
    BY <2>1, SavedSound, NothingSound DEF Kept
  <2> QED BY <1>3, <2>1 DEF Select
<1>4. CASE DeleteProvider(p) \/ DeleteUser(p)
  BY <1>4, SavedSound, NothingSound DEF DeleteProvider, DeleteUser, Kept
<1>5. ASSUME NEW g \in GenID, Create(p, g) PROVE Sound(active', pending')
  <2>1. PICK ok \in BOOLEAN : Save(active, NewGeneration(g), ok)
    BY <1>5 DEF Create
  <2>2. Shaped(NewGeneration(g))
    BY DEF Shaped, NewGeneration
  <2> QED BY <2>1, <2>2, SavedSound DEF Kept
<1>6. ASSUME NEW g \in GenID, DeleteGeneration(p, g) PROVE Sound(active', pending')
  <2>1. CASE \E ok \in BOOLEAN : Save(active, None, ok)
    BY <2>1, SavedSound, NothingSound DEF Kept
  <2>2. CASE active' = active /\ pending' = pending
    BY <2>2 DEF Kept
  <2> QED BY <1>6, <2>1, <2>2 DEF DeleteGeneration, file
<1>7. ASSUME NEW g \in GenID, NEW l \in Locales, BeginEnrichment(p, g, l)
      PROVE  Sound(active', pending')
  <2>1. PICK ok \in BOOLEAN : Save(active, Replacement(g, active, l), ok)
    BY <1>7 DEF BeginEnrichment
  <2>2. active \in Generation
    BY <1>7 DEF BeginEnrichment, IInv, TypeOK
  <2>3. /\ Replacement(g, active, l).locale = l
        /\ Replacement(g, active, l).state = "enriching"
    BY <2>2, ReplacementFields
  <2>5. Shaped(Replacement(g, active, l))
    BY <2>3 DEF Shaped
  <2> QED BY <2>1, <2>5, SavedSound DEF Kept
<1> QED BY <1>1, <1>2, <1>3, <1>4, <1>5, <1>6, <1>7 DEF Request

(* Workers change the pending generation's state and outcomes only. *)
LEMMA RunSound ==
  ASSUME IInv, Kept, NEW p \in Processes, NEW g \in GenID, Run(p, g)
  PROVE  Sound(active', pending')
<1>1. ASSUME active' = active, pending' = pending PROVE Sound(active', pending')
  BY <1>1 DEF Kept
<1>2. CASE EnrichmentRecords(p, g) \/ ResolveTitle(p, g) \/ Release(p, g) \/ Forget(p, g)
  BY <1>1, <1>2 DEF EnrichmentRecords, ResolveTitle, Release, Forget, Unopened, Missing, file
<1>3. ASSUME NEW ok \in BOOLEAN, Enriching(g),
             \E t : Save(active, Checkpointed(t), ok)
      PROVE  Sound(active', pending')
  <2>1. PICK t : Save(active, Checkpointed(t), ok)
    BY <1>3
  <2>2. pending \in Generation /\ pending # None /\ pending.state = "enriching"
    BY <1>3, NoneAssumption DEF Enriching, IdOf, IInv, TypeOK
  <2>3. Checkpointed(t).state = "enriching" /\ Checkpointed(t).locale = pending.locale
    BY <2>2 DEF Checkpointed, Generation
  <2>4. Shaped(Checkpointed(t))
    BY <2>2, <2>3 DEF Shaped, Kept, Sound
  <2> QED BY <2>1, <2>4, SavedSound DEF Kept
<1>4. CASE Checkpoint(p, g)
  BY <1>1, <1>3, <1>4 DEF Checkpoint, Unopened, Missing, file
<1>5. CASE CompleteEnrichment(p, g)
  <2>1. CASE \E a, ok : Save(a, None, ok)
    BY <2>1, SavedSound, NothingSound DEF Kept
  <2>2. CASE active' = active /\ pending' = pending
    BY <1>1, <2>2
  <2> QED BY <1>5, <2>1, <2>2 DEF CompleteEnrichment, Unopened, Missing, file
<1>6. ASSUME NEW ok \in BOOLEAN, Enriching(g), Save(active, Discarded, ok)
      PROVE  Sound(active', pending')
  <2>1. pending \in Generation
    BY <1>6, NoneAssumption DEF Enriching, IdOf, IInv, TypeOK
  <2>2. Discarded.state = "failed"
    BY <2>1 DEF Discarded, Generation
  <2>3. Shaped(Discarded)
    BY <2>2 DEF Shaped
  <2> QED BY <1>6, <2>3, SavedSound DEF Kept
<1>7. CASE FailEnrichment(p, g)
  BY <1>1, <1>6, <1>7 DEF FailEnrichment, file
<1> QED BY <1>2, <1>4, <1>5, <1>7 DEF Run

(* A worker that runs does not begin to work, and no other one does.        *)
LEMMA RunBeginsNone ==
  ASSUME IInv, NEW p \in Processes, NEW g \in GenID, Run(p, g)
  PROVE  \A q \in Processes, h \in GenID : Working(q, h)' => Working(q, h)
<1>1. PICK w : Led(p, g, w)
  BY RunLeads
<1>2. \A q \in Processes, h \in GenID :
        worker'[q][h] = IF q = p /\ h = g THEN w ELSE worker[q][h]
  BY <1>1, BecomesTyped DEF IInv, TypeOK, Led
<1> QED BY <1>1, <1>2 DEF Working, Led

LEMMA ProcessSound ==
  ASSUME Kept, NEW p \in Processes, Process(p) PROVE Sound(active', pending')
<1>1. active' = active /\ pending' = pending
  BY DEF Process, Close, Closed, Crash, Restart, ProcessFrame, file
<1> QED BY <1>1 DEF Kept

LEMMA StepKept == IInv /\ Kept /\ [Next]_vars => Kept'
<1> SUFFICES ASSUME IInv, Kept, [Next]_vars PROVE Kept'
  OBVIOUS
<1>1. CASE Next
  BY <1>1, RequestSound, RunSound, ProcessSound DEF Next, Kept
<1>2. CASE UNCHANGED vars
  BY <1>2 DEF vars, Kept
<1> QED BY <1>1, <1>2

LEMMA InitKept == Init => Kept
  BY DEF Init, Kept, Sound, ValidState, Shaped

-----------------------------------------------------------------------------
(***************************************************************************)
(* The page: what it knows of a generation, and what a chain may ask of    *)
(* the server with it.                                                     *)
(***************************************************************************)
Fields ==
  {"enabled", "busy", "error", "timer", "first", "active", "pending", "report",
   "attempted", "resumed", "suspended"}

Known(b) ==
  b # None => b.id \in GenID /\ (b.state = "enriching" => b.locale \in Locales)

PageOK(pg) == DOMAIN pg = Fields /\ Known(pg.pending)

(* An enrichment the page asks to resume or cancel is one it shows; it asks *)
(* for no other while the analysis is suspended; and only a load is ahead   *)
(* of the first refresh.                                                    *)
Wanted(pg, fl) ==
  /\ fl.at = "resume" => pg.pending # None /\ pg.pending.state = "enriching"
  /\ fl.at = "drop" => pg.pending # None
  /\ fl.at = "begin" => ~pg.suspended
  /\ fl.task = "hydrate" => pg.first

(* Nobody works on what is pending. *)
Quiet == pending # None /\ pending.state = "enriching" => ~Attended

(* A page that asks for the report having seen nothing being built is told  *)
(* of a library in which nothing is being built, unless the snapshot before *)
(* it did not come: then an error is shown.                                 *)
Reporting ==
  flow.task = "refresh" /\ flow.at = "report" =>
    /\ missed => page.error = "analysis_failed"
    /\ ~missed /\ ~Building(page) => Quiet

Resting == page.enabled /\ flow = Idling /\ ~page.first /\ ~Excused

(* And a page that rests polls for what is built, or shows what is active.  *)
Shown ==
  Resting =>
    /\ Building(page) => page.timer
    /\ ~Building(page) => Quiet /\ page.report = IdOf(active)

PageInv ==
  PageOK(page) /\ Wanted(page, flow) /\ Reporting /\ Shown

MInv == IInv /\ Kept /\ PageInv

(* A chain that goes on, to anything but a report. *)
Onward ==
  /\ PageOK(page') /\ Wanted(page', flow')
  /\ flow'.at \notin {"none", "report"}

LEMMA OnwardKeeps == Onward => PageInv'
  BY DEF Onward, PageInv, Reporting, Shown, Resting, Idling

LEMMA GoesOnward ==
  ASSUME NEW pg, NEW task, NEW at, PageOK(pg), Goes(pg, task, at),
         at \notin {"none", "report", "resume", "drop", "begin"},
         task = "hydrate" => pg.first
  PROVE  Onward
  BY DEF Goes, Onward, Wanted

LEMMA DoneOnward == ASSUME NEW pg, PageOK(pg), Done(pg) PROVE Onward
<1>1. PageOK([pg EXCEPT !.busy = FALSE])
  BY DEF PageOK, Fields
<1> QED BY <1>1, GoesOnward DEF Done

(* What is due is begun only if the analysis is not suspended.              *)
LEMMA BeginDueOnward ==
  ASSUME NEW pg, NEW task, PageOK(pg), BeginDue(pg, task), task = "hydrate" => pg.first
  PROVE  Onward
<1> DEFINE tried == [pg EXCEPT !.attempted = @ \cup {pg.active.id}]
<1>1. PageOK(tried) /\ tried.first = pg.first /\ tried.suspended = pg.suspended
  BY DEF PageOK, Fields
<1>2. PageOK(Complaining(tried, "analysis_failed"))
        /\ Complaining(tried, "analysis_failed").first = pg.first
  BY <1>1 DEF PageOK, Fields, Complaining
<1> HIDE DEF tried
<1>3. CASE Due(pg) /\ Goes(tried, task, "begin")
  BY <1>1, <1>3 DEF Goes, Onward, Wanted, Due
<1>4. CASE Goes(Complaining(tried, "analysis_failed"), task, "last")
  BY <1>2, <1>4, GoesOnward
<1>5. CASE Goes(pg, task, "last")
  BY <1>5, GoesOnward
<1> QED BY <1>3, <1>4, <1>5 DEF BeginDue, tried

LEMMA AdvanceOnward ==
  ASSUME NEW pg, NEW task, PageOK(pg), Advance(pg, task), task = "hydrate" => pg.first
  PROVE  Onward
<1> DEFINE again == [pg EXCEPT !.resumed = @ \cup {pg.pending.id}]
<1>1. /\ PageOK(again) /\ again.first = pg.first /\ again.pending = pg.pending
  BY DEF PageOK, Fields
<1> HIDE DEF again
<1>2. CASE Goes(pg, task, "select")
  BY <1>2, GoesOnward
<1>3. CASE pg.pending # None /\ pg.pending.state = "enriching" /\ Goes(again, task, "resume")
  BY <1>1, <1>3 DEF Goes, Onward, Wanted
<1>4. CASE BeginDue(pg, task)
  BY <1>4, BeginDueOnward
<1> QED BY <1>2, <1>3, <1>4 DEF Advance, again

(* What a snapshot tells is what is stored. *)
LEMMA BriefKnown ==
  ASSUME NEW q \in Generation \cup {None}, Shaped(q)
  PROVE  /\ Known(Brief(q)) /\ (Brief(q) = None <=> q = None)
         /\ q # None => Brief(q).state = q.state /\ Brief(q).id = q.id
<1>1. CASE q = None
  BY <1>1 DEF Brief, Known
<1>2. CASE q # None
  <2>1. q \in Generation
    BY <1>2
  <2>2. Brief(q) = [id |-> q.id, state |-> q.state, locale |-> q.locale, src |-> q.src]
    BY <1>2 DEF Brief
  <2>3. Brief(q) \in [id : GenID, state : States, locale : Locales \cup {None},
                      src : GenID \cup {None}]
    BY <2>1, <2>2 DEF Generation
  <2>4. Brief(q) # None
    BY <2>3, BriefAssumption
  <2> QED BY <1>2, <2>1, <2>2, <2>4 DEF Known, Shaped, Generation
<1> QED BY <1>1, <1>2

LEMMA ShowingKnown ==
  ASSUME NEW pg, PageOK(pg), IInv', Kept'
  PROVE  /\ PageOK(Showing(pg))
         /\ Showing(pg).pending = Brief(pending')
         /\ \A f \in Fields \ {"active", "pending"} : Showing(pg)[f] = pg[f]
         /\ ~Building(Showing(pg)) => Quiet'
<1>1. /\ DOMAIN Showing(pg) = Fields /\ Showing(pg).pending = Brief(pending')
      /\ \A f \in Fields \ {"active", "pending"} : Showing(pg)[f] = pg[f]
  BY DEF Showing, PageOK, Fields
<1>2. pending' \in Generation \cup {None} /\ Shaped(pending')
  BY DEF IInv, TypeOK, Kept, Sound
<1>3. /\ Known(Brief(pending')) /\ (Brief(pending') = None <=> pending' = None)
      /\ pending' # None => Brief(pending').state = pending'.state
  BY <1>2, BriefKnown
<1>4. ~Building(Showing(pg)) => pending' = None \/ pending'.state = "failed"
  BY <1>1, <1>3 DEF Building
<1> QED BY <1>1, <1>3, <1>4 DEF PageOK, Quiet

-----------------------------------------------------------------------------
(***************************************************************************)
(* Whatever the page asks for is a request the library knows.              *)
(***************************************************************************)
LEMMA FreshDrawn == ASSUME IInv, used # GenID PROVE Fresh \in GenID \ used
<1>1. \E g \in GenID : g \notin used
  BY DEF IInv, TypeOK
<1> QED BY <1>1 DEF Fresh

LEMMA EnrichRequested ==
  ASSUME IInv, NEW source, NEW l \in Locales, NEW ok, EnrichServed(source, l, ok)
  PROVE  Request(Server)
<1>1. CASE used # GenID /\ BeginEnrichment(Server, Fresh, l)
  BY <1>1, FreshDrawn DEF Request
<1>2. CASE ResumeEnrichment(Server)
  BY <1>2 DEF Request
<1>3. CASE Look(Server)
  BY <1>3 DEF Request
<1> QED BY <1>1, <1>2, <1>3 DEF EnrichServed, TurnedDown

LEMMA ServedRequested ==
  ASSUME IInv, Kept, PageInv, NEW ok, Served(flow.at, ok)
  PROVE  Request(Server)
<1>1. CASE Look(Server)
  BY <1>1 DEF Request
<1>2. CASE flow.at = "create" /\ CreateServed(ok)
  BY <1>1, <1>2, FreshDrawn DEF Request, CreateServed, TurnedDown
<1>3. CASE flow.at = "upload" /\ UploadServed(page.pending.id, ok)
  BY <1>1, <1>3 DEF Request, UploadServed, TurnedDown
<1>4. CASE flow.at = "select" /\ SelectServed(page.pending.id, ok)
  <2>1. CASE Select(Server, Contained[pending.archive])
    <3>1. pending.archive \in Archives
      BY <2>1 DEF Select, Kept, Sound, Shaped
    <3>2. Contained[pending.archive] \in SUBSET Titles
      BY <3>1, ContainedAssumption
    <3> QED BY <2>1, <3>2 DEF Request
  <2> QED BY <1>1, <1>4, <2>1 DEF SelectServed, TurnedDown
<1>5. CASE flow.at = "resume" /\ EnrichServed(page.pending.src, page.pending.locale, ok)
  <2>1. page.pending.locale \in Locales
    BY <1>5 DEF PageInv, Wanted, PageOK, Known
  <2> QED BY <1>5, <2>1, EnrichRequested
<1>6. CASE flow.at = "begin" /\ EnrichServed(page.active.id, PageLocale, ok)
  BY <1>6, EnrichRequested, PageAssumption
<1>7. CASE flow.at = "drop" /\ DropServed(page.pending.id, ok)
  <2>1. page.pending.id \in GenID
    BY <1>7 DEF PageInv, Wanted, PageOK, Known
  <2> QED BY <1>1, <1>7, <2>1 DEF DropServed, Request, TurnedDown
<1>8. CASE DeleteProvider(Server)
  BY <1>8 DEF Request
<1> QED BY <1>1, <1>2, <1>3, <1>4, <1>5, <1>6, <1>7, <1>8 DEF Served

LEMMA ServedAllowed ==
  ASSUME IInv, Kept, PageInv, UNCHANGED vars \/ \E ok \in BOOLEAN : Served(flow.at, ok)
  PROVE  [Next]_vars /\ IInv' /\ Kept'
<1>1. [Next]_vars
  BY ServedRequested, OneServer DEF Next
<1> QED BY <1>1, StepInvariant, StepKept

(* No step of the page, the server or its fate is one the library forbids.  *)
LEMMA StepAllowed == MInv /\ [MediaNext]_allVars => [Next]_vars
<1> SUFFICES ASSUME MInv, [MediaNext]_allVars PROVE [Next]_vars
  OBVIOUS
<1>1. UNCHANGED vars \/ (\E ok \in BOOLEAN : Served(flow.at, ok)) => [Next]_vars
  BY ServedAllowed DEF MInv
<1>2. CASE Exchange
  BY <1>1, <1>2 DEF Exchange, Reached
<1>3. CASE User
  BY <1>1, <1>3 DEF User, Filter, UploadFiles, CancelBuild, DeleteData, RetryAnalysis, Leave,
    Load, Refreshes, Aborts, Reached
<1>4. CASE Timer
  BY <1>1, <1>4 DEF Timer, Refreshes, Aborts, Reached
<1>5. CASE GoesOn \/ Befalls
  <2>1. \/ Process(Server) \/ Request(Server) \/ \E g \in GenID : Run(Server, g)
    BY <1>5 DEF GoesOn, Befalls, Process, Request
  <2> QED BY <2>1, OneServer DEF Next
<1>6. CASE UNCHANGED allVars
  BY <1>6 DEF allVars
<1> QED BY <1>2, <1>3, <1>4, <1>5, <1>6 DEF MediaNext

-----------------------------------------------------------------------------
(***************************************************************************)
(* What an answer leads to.                                                *)
(***************************************************************************)
LEMMA ComplainingOK ==
  ASSUME NEW pg, NEW error, PageOK(pg)
  PROVE  /\ PageOK(Complaining(pg, error)) /\ Complaining(pg, error).error = error
         /\ Complaining(pg, error).first = pg.first
  BY DEF PageOK, Fields, Complaining

LEMMA ScheduledOK ==
  ASSUME NEW pg, PageOK(pg)
  PROVE  /\ PageOK(Scheduled(pg)) /\ (Building(Scheduled(pg)) <=> Building(pg))
         /\ pg.enabled /\ Building(pg) => Scheduled(pg).timer
         /\ \A f \in Fields \ {"timer"} : Scheduled(pg)[f] = pg[f]
<1>1. /\ DOMAIN Scheduled(pg) = Fields /\ Scheduled(pg).pending = pg.pending
      /\ pg.enabled /\ Building(pg) => Scheduled(pg).timer
      /\ \A f \in Fields \ {"timer"} : Scheduled(pg)[f] = pg[f]
  BY DEF PageOK, Fields, Scheduled
<1>2. Building(Scheduled(pg)) <=> Building(pg)
  BY <1>1 DEF Building
<1> QED BY <1>1, <1>2 DEF PageOK

(* A chain that ends without the report has not shown it. *)
LEMMA RestsUnshown ==
  ASSUME NEW pg, PageOK(pg), Rests(pg), pg.first \/ pg.error = "request_failed"
  PROVE  PageInv'
  BY DEF Rests, PageInv, Reporting, Shown, Resting, Excused, Idling, Wanted

LEMMA ErrorRests == ASSUME PageOK(page), ShowError PROVE PageInv'
<1> DEFINE pg == Complaining(page, "request_failed")
<1>1. PageOK(pg) /\ pg.error = "request_failed"
  BY ComplainingOK
<1> HIDE DEF pg
<1>2. PageOK(Scheduled(pg)) /\ Scheduled(pg).error = "request_failed"
  BY <1>1, ScheduledOK DEF Fields
<1> QED BY <1>2, RestsUnshown DEF ShowError, pg

(* The requests that only read change nothing, answered or not.             *)
LEMMA ReadLooks ==
  ASSUME NEW ok \in BOOLEAN, flow.at \in {"get", "report", "reget", "last"},
         Served(flow.at, ok) \/ (~ok /\ Reached(flow.at))
  PROVE  active' = active /\ pending' = pending /\ worker' = worker
  BY DEF Served, Reached, Look, file, vars

LEMMA SnapshotKeeps ==
  ASSUME PageInv, IInv', Kept', NEW ok \in BOOLEAN, GotProviders(ok)
  PROVE  PageInv'
<1>1. /\ PageOK(page) /\ PageOK(Showing(page)) /\ Showing(page).first = page.first
      /\ flow.task = "hydrate" => page.first
  BY ShowingKnown DEF PageInv, Wanted, Fields
<1>2. CASE flow.task = "hydrate" /\ Goes(Showing(page), "hydrate", "report")
  BY <1>1, <1>2 DEF Goes, PageInv, Reporting, Shown, Resting, Idling, Wanted
<1>3. CASE flow.task \in {"refresh", "retry"} /\ Advance(Showing(page), flow.task)
  BY <1>1, <1>3, AdvanceOnward, OnwardKeeps
<1>4. CASE flow.task = "hydrate" /\ Rests(Complaining(page, "workspace"))
  BY <1>1, <1>4, ComplainingOK, RestsUnshown
<1>5. CASE ShowError
  BY <1>1, <1>5, ErrorRests
<1>6. CASE Failing("analysis_failed")
  BY <1>1, <1>6, ComplainingOK, DoneOnward, OnwardKeeps DEF Failing
<1> QED BY <1>2, <1>3, <1>4, <1>5, <1>6 DEF GotProviders

LEMMA ReportKeeps ==
  ASSUME PageInv, NEW ok \in BOOLEAN, GotReport(ok),
         active' = active, pending' = pending, worker' = worker, missed' <=> missed
  PROVE  PageInv'
<1> DEFINE new == Reported(page)
           fetched == Recovered([new EXCEPT !.first = FALSE])
<1>1. PageOK(page) /\ (flow.task = "hydrate" => page.first) /\ flow.at = "report"
  BY DEF PageInv, Wanted, GotReport
<1>2. /\ PageOK(new) /\ new.first = page.first /\ new.report = IdOf(active')
      /\ new.pending = page.pending
  BY <1>1 DEF PageOK, Fields, Reported
<1> HIDE DEF new
<1>3. /\ PageOK(fetched) /\ fetched.report = IdOf(active')
      /\ fetched.pending = page.pending
      /\ page.error = "analysis_failed" => fetched.error = "analysis_failed"
  BY <1>2 DEF PageOK, Fields, Recovered, Reported, new
<1> HIDE DEF fetched
<1>4. CASE flow.task = "hydrate" /\ Advance(new, "hydrate")
  BY <1>1, <1>2, <1>4, AdvanceOnward, OnwardKeeps
<1>5. CASE flow.task = "refresh" /\ Rests(Scheduled(fetched))
  <2>1. page' = Scheduled(fetched) /\ flow' = Idling
    BY <1>5 DEF Rests
  <2>2. Building(fetched) <=> Building(page)
    BY <1>3 DEF Building
  <2> DEFINE last == Scheduled(fetched)
  <2>3. /\ PageOK(last) /\ (Building(last) <=> Building(fetched))
        /\ fetched.enabled /\ Building(fetched) => last.timer
        /\ \A f \in Fields \ {"timer"} : last[f] = fetched[f]
    BY <1>3, ScheduledOK
  <2> HIDE DEF last
  <2>4. last.report = IdOf(active') /\ last.enabled = fetched.enabled
    BY <1>3, <2>3 DEF Fields
  <2>5. page' = last
    BY <2>1 DEF last
  <2>6. PageOK(page') /\ page'.report = IdOf(active')
    BY <2>3, <2>4, <2>5
  <2>7. Building(page)' <=> Building(last)
    BY <2>5 DEF Building
  <2>8. Building(page)' <=> Building(page)
    BY <2>2, <2>3, <2>7
  <2>9. page'.enabled /\ Building(page) => page'.timer
    <3>1. ASSUME page'.enabled, Building(page) PROVE page'.timer
      <4>1. last.enabled
        BY <2>5, <3>1, Zenon
      <4>2. fetched.enabled
        BY <2>4, <4>1, Zenon
      <4>3. last.timer
        BY <2>2, <2>3, <3>1, <4>2, Zenon
      <4> QED BY <2>5, <4>3, Zenon
    <3> QED BY <3>1, Zenon
  <2>10. ~missed /\ ~Building(page) => Quiet'
    BY <1>1, <1>5 DEF PageInv, Reporting, Quiet, Attended, Working
  <2>11. missed => Excused'
    <3>1. missed => page.error = "analysis_failed"
      BY <1>1, <1>5 DEF PageInv, Reporting
    <3>2. page'.error = fetched.error
      BY <2>3, <2>5 DEF Fields
    <3> QED BY <1>3, <3>1, <3>2 DEF Excused
  <2>12. Shown'
    BY <2>1, <2>6, <2>8, <2>9, <2>10, <2>11 DEF Shown, Resting
  <2>13. Wanted(page', flow') /\ Reporting'
    BY <2>1 DEF Wanted, Reporting, Idling
  <2> QED BY <2>6, <2>12, <2>13 DEF PageInv
<1>6. CASE flow.task = "hydrate" /\ Rests(Complaining(page, "workspace"))
  BY <1>1, <1>6, ComplainingOK, RestsUnshown
<1>7. CASE ShowError
  BY <1>1, <1>7, ErrorRests
<1> QED BY <1>4, <1>5, <1>6, <1>7 DEF GotReport, new, fetched

LEMMA LastKeeps ==
  ASSUME MInv, IInv', Kept', NEW ok \in BOOLEAN, GotLast(ok), missed' = ~ok
  PROVE  PageInv'
<1> DEFINE pg == IF ok THEN Showing(page) ELSE Stumbling
<1>1. PageOK(page) /\ (flow.task = "hydrate" => page.first)
  BY DEF MInv, PageInv, Wanted
<1>2. PageOK(pg) /\ pg.first = page.first
  BY <1>1, ShowingKnown, ComplainingOK DEF Stumbling, Fields
<1>3. /\ ok /\ ~Building(pg) => Quiet'
      /\ ~ok => pg.error = "analysis_failed"
  BY <1>1, ShowingKnown, ComplainingOK DEF Stumbling
<1>4. Advanced(pg, flow.task)
  BY DEF GotLast
<1> HIDE DEF pg
<1>5. CASE flow.task = "hydrate" /\ Rests(Scheduled(pg))
  <2>1. PageOK(Scheduled(pg)) /\ Scheduled(pg).first
    BY <1>1, <1>2, <1>5, ScheduledOK DEF Fields
  <2> QED BY <1>5, <2>1, RestsUnshown
<1>6. CASE flow.task = "refresh" /\ Goes(pg, flow.task, "report")
  BY <1>2, <1>3, <1>6 DEF Goes, PageInv, Reporting, Shown, Resting, Idling, Wanted
<1>7. CASE Done(pg)
  BY <1>2, <1>7, DoneOnward, OnwardKeeps
<1> QED BY <1>4, <1>5, <1>6, <1>7 DEF Advanced

(* The other answers are each followed by another request. *)
LEMMA OtherKeeps ==
  ASSUME PageInv, IInv', Kept', NEW ok \in BOOLEAN,
         Confirmed(ok) \/ Resumed(ok) \/ Began(ok) \/ Imported(ok) \/ Removed(ok)
  PROVE  PageInv'
<1>1. PageOK(page) /\ (flow.task = "hydrate" => page.first)
  BY DEF PageInv, Wanted
<1>2. PageOK(Stumbling) /\ Stumbling.first = page.first
  BY <1>1, ComplainingOK DEF Stumbling
<1>3. PageOK(Showing(page)) /\ Showing(page).first = page.first
  BY <1>1, ShowingKnown DEF Fields
<1>4. Confirmed(ok) \/ Resumed(ok) => Onward
  BY <1>1, <1>2, <1>3, GoesOnward, BeginDueOnward DEF Confirmed, Resumed
<1>5. Began(ok) => Onward
  <2> DEFINE begun == [page EXCEPT !.resumed = @ \cup {pending'.id}]
  <2>1. PageOK(begun) /\ begun.first = page.first
    BY <1>1 DEF PageOK, Fields
  <2> HIDE DEF begun
  <2>2. Goes(begun, flow.task, "last") \/ Goes(Stumbling, flow.task, "last") => Onward
    BY <1>1, <1>2, <2>1, GoesOnward
  <2> QED BY <2>2 DEF Began, begun
<1>6. \A error : Failing(error) => Onward
  BY <1>1, ComplainingOK, DoneOnward DEF Failing
<1>7. Imported(ok) => Onward
  <2> DEFINE created == [page EXCEPT !.pending = Brief(pending')]
  <2>1. Known(Brief(pending'))
    BY BriefKnown DEF IInv, TypeOK, Kept, Sound
  <2>2. PageOK(created)
    BY <1>1, <2>1 DEF PageOK, Fields
  <2> HIDE DEF created
  <2>3. Goes(created, "upload", "upload") => Onward
    BY <2>2, GoesOnward
  <2> QED BY <1>1, <1>6, <2>3, DoneOnward DEF Imported, created
<1>8. Removed(ok) => Onward
  BY <1>1, <1>6, GoesOnward, DoneOnward DEF Removed
<1> QED BY <1>4, <1>5, <1>7, <1>8, OnwardKeeps

LEMMA ExchangeKeeps == ASSUME MInv, Exchange, IInv', Kept' PROVE PageInv'
<1>1. PICK ok \in BOOLEAN :
        /\ Served(flow.at, ok) \/ (~ok /\ Reached(flow.at))
        /\ missed' = IF flow.at = "last" THEN ~ok ELSE flow.at = "report" /\ missed
        /\ \/ GotProviders(ok) \/ GotReport(ok) \/ Confirmed(ok) \/ Resumed(ok)
           \/ Began(ok) \/ GotLast(ok) \/ Imported(ok) \/ Removed(ok)
  BY DEF Exchange
<1>2. CASE GotProviders(ok)
  BY <1>2, SnapshotKeeps DEF MInv
<1>3. CASE GotReport(ok)
  <2>1. flow.at = "report"
    BY <1>3 DEF GotReport
  <2>2. missed' <=> missed
    BY <1>1, <2>1
  <2> QED BY <1>1, <1>3, <2>1, <2>2, ReadLooks, ReportKeeps DEF MInv
<1>4. CASE GotLast(ok)
  <2>1. flow.at = "last"
    BY <1>4 DEF GotLast
  <2> QED BY <1>1, <1>4, <2>1, LastKeeps
<1> QED BY <1>1, <1>2, <1>3, <1>4, OtherKeeps DEF MInv

-----------------------------------------------------------------------------
(***************************************************************************)
(* What a click or the timer leads to.                                     *)
(***************************************************************************)
LEMMA BusyKeeps ==
  ASSUME PageInv, NEW pg, PageOK(pg), \A f \in Fields \ {"timer"} : pg[f] = page[f],
         page' = Scheduled(pg), UNCHANGED <<vars, flow, missed>>
  PROVE  PageInv'
<1> DEFINE last == Scheduled(pg)
<1>1. /\ PageOK(last) /\ (Building(last) <=> Building(pg))
      /\ pg.enabled /\ Building(pg) => last.timer
      /\ \A f \in Fields \ {"timer"} : last[f] = pg[f]
  BY ScheduledOK
<1>2. page' = last
  OBVIOUS
<1> HIDE DEF last
<1>3. /\ last.enabled = page.enabled /\ last.enabled = pg.enabled
      /\ last.error = page.error /\ last.first = page.first /\ last.report = page.report
      /\ last.pending = page.pending /\ last.suspended = page.suspended
  BY <1>1 DEF Fields
<1>4. (Building(page)' <=> Building(last)) /\ (Building(last) <=> Building(page))
  BY <1>2, <1>3 DEF Building
<1>5. /\ flow' = flow /\ active' = active /\ missed' = missed /\ (Quiet' <=> Quiet)
  BY DEF vars, Quiet, Attended, Working
<1>6. Resting' => Resting /\ page'.enabled
  BY <1>2, <1>3, <1>5 DEF Resting, Excused
<1>7. page'.enabled /\ Building(page)' => page'.timer
  <2>1. ASSUME page'.enabled, Building(page)' PROVE page'.timer
    <3>1. last.enabled
      BY <1>2, <2>1, Zenon
    <3>2. pg.enabled
      BY <1>3, <3>1, Zenon
    <3>3. last.timer
      BY <1>1, <1>4, <2>1, <3>2, Zenon
    <3> QED BY <1>2, <3>3, Zenon
  <2> QED BY <2>1, Zenon
<1>8. Shown'
  BY <1>2, <1>3, <1>4, <1>5, <1>6, <1>7 DEF PageInv, Shown
<1>9. Wanted(page, flow) => Wanted(page', flow')
  BY <1>2, <1>3, <1>5 DEF Wanted
<1>10. Reporting'
  BY <1>2, <1>3, <1>4, <1>5 DEF PageInv, Reporting
<1> QED BY <1>1, <1>2, <1>8, <1>9, <1>10 DEF PageInv

LEMMA RefreshesKeeps ==
  ASSUME PageInv, NEW pg, PageOK(pg), \A f \in Fields \ {"timer"} : pg[f] = page[f],
         Refreshes(pg)
  PROVE  PageInv'
<1>1. CASE Goes(pg, "refresh", "get")
  BY <1>1, GoesOnward, OnwardKeeps
<1>2. CASE page' = Scheduled(pg) /\ UNCHANGED <<vars, flow, lost, missed>>
  BY <1>2, BusyKeeps
<1> QED BY <1>1, <1>2 DEF Refreshes

(* A pending generation that is to be removed is one the page shows.        *)
LEMMA DropOnward ==
  ASSUME NEW pg, NEW task, PageOK(pg), pg.pending # None, task # "hydrate",
         Goes(pg, task, "drop")
  PROVE  Onward
  BY DEF Goes, Onward, Wanted

LEMMA ClearedOK == PageOK(Cleared) /\ Cleared.first
  BY DEF PageOK, Fields, Cleared, Known

LEMMA UserKeeps == ASSUME PageInv, User \/ Timer PROVE PageInv'
<1>1. PageOK(page)
  BY DEF PageInv
<1>2. CASE Filter
  BY <1>1, <1>2, RefreshesKeeps DEF Filter
<1>3. CASE Timer
  <2>1. /\ PageOK([page EXCEPT !.timer = FALSE])
        /\ \A f \in Fields \ {"timer"} : [page EXCEPT !.timer = FALSE][f] = page[f]
    BY <1>1 DEF PageOK, Fields
  <2> QED BY <1>3, <2>1, RefreshesKeeps DEF Timer
<1>4. CASE UploadFiles
  <2>1. PageOK([Acting EXCEPT !.suspended = FALSE])
    BY <1>1 DEF PageOK, Fields, Acting
  <2> QED BY <1>4, <2>1, GoesOnward, OnwardKeeps DEF UploadFiles
<1>5. CASE CancelBuild
  <2> DEFINE pg == [Acting EXCEPT !.suspended = TRUE]
  <2>1. PageOK(pg) /\ pg.pending = page.pending
    BY <1>1 DEF PageOK, Fields, Acting
  <2>2. Goes(pg, "cancel", "drop") /\ page.pending # None
    BY <1>5 DEF CancelBuild
  <2> HIDE DEF pg
  <2> QED BY <2>1, <2>2, DropOnward, OnwardKeeps
<1>6. CASE DeleteData
  <2>1. PageOK([Acting EXCEPT !.suspended = TRUE])
    BY <1>1 DEF PageOK, Fields, Acting
  <2> QED BY <1>6, <2>1, GoesOnward, OnwardKeeps DEF DeleteData
<1>7. CASE RetryAnalysis
  <2> DEFINE pg == [Acting EXCEPT !.suspended = FALSE, !.attempted = {}, !.resumed = {}]
  <2>1. PageOK(pg) /\ pg.pending = page.pending
    BY <1>1 DEF PageOK, Fields, Acting
  <2>2. Goes(pg, "retry", "get") \/ (Goes(pg, "retry", "drop") /\ page.pending # None)
    BY <1>7 DEF RetryAnalysis
  <2> HIDE DEF pg
  <2> QED BY <2>1, <2>2, DropOnward, GoesOnward, OnwardKeeps
<1>8. CASE Leave
  BY <1>8, ClearedOK, RestsUnshown DEF Leave
<1>9. CASE Load
  <2> DEFINE pg == [Cleared EXCEPT !.enabled = TRUE]
  <2>1. PageOK(pg) /\ pg.first
    BY ClearedOK DEF PageOK, Fields, Cleared
  <2>2. Goes(pg, "hydrate", "get")
    BY <1>9 DEF Load
  <2> HIDE DEF pg
  <2> QED BY <2>1, <2>2, GoesOnward, OnwardKeeps
<1> QED BY <1>2, <1>3, <1>4, <1>5, <1>6, <1>7, <1>8, <1>9 DEF User

-----------------------------------------------------------------------------
(***************************************************************************)
(* What the server does meanwhile.                                         *)
(***************************************************************************)
(* A worker that changes the file works on what is pending.                 *)
LEMMA QuietRun ==
  ASSUME Quiet, NEW g \in GenID, Run(Server, g)
  PROVE  active' = active /\ pending' = pending
<1>1. ~(Enriching(g) /\ Working(Server, g))
  BY NoneAssumption DEF Quiet, Attended, Enriching, IdOf
<1>2. CASE EnrichmentRecords(Server, g) \/ ResolveTitle(Server, g)
             \/ Release(Server, g) \/ Forget(Server, g)
  BY <1>2 DEF EnrichmentRecords, ResolveTitle, Release, Forget, Unopened, Missing, file
<1>3. CASE Checkpoint(Server, g)
  BY <1>1, <1>3 DEF Checkpoint, Unopened, Missing, Working, file
<1>4. CASE CompleteEnrichment(Server, g)
  BY <1>1, <1>4 DEF CompleteEnrichment, Unopened, Missing, Working, file
<1>5. CASE FailEnrichment(Server, g)
  BY <1>1, <1>5 DEF FailEnrichment, Working, file
<1> QED BY <1>2, <1>3, <1>4, <1>5 DEF Run

LEMMA ProcessBeginsNone ==
  ASSUME IInv, Process(Server)
  PROVE  /\ active' = active /\ pending' = pending
         /\ \A g \in GenID : Working(Server, g)' => Working(Server, g)
<1>1. active' = active /\ pending' = pending
  BY DEF Process, Close, Closed, Crash, Restart, ProcessFrame, file
<1>2. Server \in Processes /\ TypeOK
  BY OneServer DEF IInv
<1>3. CASE Close(Server)
  <2>1. \A g \in GenID : Tamed(Server, g)
    BY <1>2, <1>3, CancelTyped DEF Close
  <2> QED BY <1>1, <2>1 DEF Tamed
<1>4. CASE Closed(Server) \/ Restart(Server)
  <2>1. worker' = worker
    BY <1>4 DEF Closed, Restart
  <2> QED BY <1>1, <2>1 DEF Working
<1>5. CASE Crash(Server)
  <2>1. \A g \in GenID : worker'[Server][g] = Idle
    BY <1>2, <1>5 DEF Crash
  <2> QED BY <1>1, <2>1 DEF Working, Idle
<1> QED BY <1>3, <1>4, <1>5 DEF Process

LEMMA QuietStays ==
  ASSUME IInv, GoesOn \/ Befalls, Quiet
  PROVE  Quiet' /\ (page.enabled => active' = active)
<1>1. pending # None => pending.id \in GenID
  BY DEF IInv, TypeOK, Generation
<1>2. ASSUME active' = active, pending' = pending,
             \A g \in GenID : Working(Server, g)' => Working(Server, g)
      PROVE  Quiet' /\ (page.enabled => active' = active)
  BY <1>1, <1>2 DEF Quiet, Attended
<1>3. CASE \E g \in GenID : Run(Server, g)
  BY <1>2, <1>3, OneServer, QuietRun, RunBeginsNone
<1>4. CASE Process(Server)
  BY <1>2, <1>4, ProcessBeginsNone
<1>5. CASE ~page.enabled /\ DeleteUser(Server)
  BY <1>5 DEF DeleteUser, Quiet
<1> QED BY <1>3, <1>4, <1>5 DEF GoesOn, Befalls, Process

LEMMA ServerKeeps == ASSUME MInv, GoesOn \/ Befalls PROVE PageInv'
<1>1. page' = page /\ flow' = flow /\ missed' = missed
  BY DEF GoesOn, Befalls, pageVars
<1>2. Quiet => Quiet' /\ (page.enabled => active' = active)
  BY QuietStays DEF MInv
<1>3. (Resting' <=> Resting) /\ (Building(page)' <=> Building(page))
  BY <1>1 DEF Resting, Excused, Building
<1>4. Shown'
  BY <1>1, <1>2, <1>3 DEF MInv, PageInv, Shown, Resting
<1>5. Reporting'
  BY <1>1, <1>2, <1>3 DEF MInv, PageInv, Reporting
<1> QED BY <1>1, <1>4, <1>5 DEF MInv, PageInv

-----------------------------------------------------------------------------
(***************************************************************************)
(* The invariant, and what follows from it.                                *)
(***************************************************************************)
LEMMA InitMInv == Init /\ PageInit => MInv
<1>1. Init /\ PageInit => PageInv
  BY ClearedOK DEF PageInit, PageInv, Wanted, Reporting, Shown, Resting, Idling
<1> QED BY <1>1, InitKept, InitInvariant DEF MInv

LEMMA StepMInv == MInv /\ [MediaNext]_allVars => MInv'
<1> SUFFICES ASSUME MInv, [MediaNext]_allVars PROVE MInv'
  OBVIOUS
<1>1. IInv' /\ Kept'
  BY StepAllowed, StepInvariant, StepKept DEF MInv
<1>2. CASE Exchange
  BY <1>1, <1>2, ExchangeKeeps DEF MInv
<1>3. CASE User \/ Timer
  BY <1>1, <1>3, UserKeeps DEF MInv
<1>4. CASE GoesOn \/ Befalls
  BY <1>1, <1>4, ServerKeeps DEF MInv
<1>5. CASE UNCHANGED allVars
  <2>1. UNCHANGED <<vars, page, flow, missed>>
    BY <1>5 DEF allVars, pageVars
  <2>2. PageInv'
    BY <2>1 DEF vars, MInv, PageInv, Wanted, Reporting, Shown, Resting, Excused, Quiet,
      Attended, Working, Building, IdOf
  <2> QED BY <1>1, <2>2 DEF MInv
<1> QED BY <1>2, <1>3, <1>4, <1>5 DEF MediaNext

LEMMA AlwaysMInv == MediaSpec => []MInv
  BY InitMInv, StepMInv, PTL DEF MediaSpec

(***************************************************************************)
(* Whatever the page asks of the library, whatever the user clicks and     *)
(* however the requests of a chain are aborted, every step of the library  *)
(* under the page (media-workspace.js over the handlers of media.go) is    *)
(* one of PrimeLibrary's: the theorems proved there hold under the page.   *)
(***************************************************************************)
THEOREM LibraryFollowed == MediaSpec => Spec
<1>1. Init /\ PageInit => Init
  OBVIOUS
<1> QED BY <1>1, AlwaysMInv, StepAllowed, PTL DEF MediaSpec, Spec

(***************************************************************************)
(* A media page that waits for nothing shows the report of what is active  *)
(* in the library, whichever of its requests have failed: refresh fetches  *)
(* the report after the last snapshot, and schedulePoll polls while        *)
(* anything in that snapshot is being built.  The exceptions are named,    *)
(* and shown to the user as an error: a refresh that was not answered, and *)
(* one whose closing snapshot in advanceAnalysis did not come.             *)
(***************************************************************************)
THEOREM ReportStaysCurrent == MediaSpec => []ReportCurrent
<1>1. MInv => ReportCurrent
  <2> SUFFICES ASSUME MInv, Settled, ~Excused PROVE page.report = IdOf(active)
    BY DEF ReportCurrent
  <2>1. Resting /\ ~page.timer
    BY DEF Settled, Resting
  <2> QED BY <2>1 DEF MInv, PageInv, Shown
<1> QED BY <1>1, AlwaysMInv, PTL

(* Only a request to begin or to resume an enrichment begins one.           *)
LEMMA OtherSaves ==
  ASSUME NEW a, NEW q, NEW saved, Save(a, q, saved), q = None \/ q.state # "enriching"
  PROVE  ~EnrichmentBegun
  BY SaveOutcome DEF EnrichmentBegun

LEMMA BegunByRequest ==
  ASSUME MInv, NEW ok, Served(flow.at, ok), EnrichmentBegun
  PROVE  NothingPending /\ flow.at \in {"begin", "resume"}
<1>1. pending' # pending
  BY DEF EnrichmentBegun
<1>2. ~Look(Server)
  BY <1>1 DEF Look, file
<1>3. ~CreateServed(ok)
  <2>1. ASSUME NEW g, Create(Server, g) PROVE FALSE
    <3>1. PICK saved \in BOOLEAN : Save(active, NewGeneration(g), saved)
      BY <2>1 DEF Create
    <3>2. NewGeneration(g).state = "receiving"
      BY DEF NewGeneration
    <3> QED BY <3>1, <3>2, OtherSaves
  <2> QED BY <1>2, <2>1 DEF CreateServed, TurnedDown
<1>4. ~Upload(Server)
  <2> SUFFICES ASSUME Upload(Server) PROVE FALSE
    OBVIOUS
  <2>1. PICK saved \in BOOLEAN, a \in Archives, state \in {"awaiting_confirmation", "failed"} :
          Save(active,
               [pending EXCEPT !.state = state,
                               !.archive = IF state = "failed" THEN None ELSE a],
               saved)
    BY DEF Upload
  <2> DEFINE new == [pending EXCEPT !.state = state,
                                    !.archive = IF state = "failed" THEN None ELSE a]
  <2>2. pending \in Generation
    BY DEF Upload, MInv, IInv, TypeOK
  <2>3. new.state = state
    BY <2>2 DEF Generation
  <2>4. Save(active, new, saved)
    BY <2>1
  <2> HIDE DEF new
  <2> QED BY <2>3, <2>4, OtherSaves
<1>5. ~\E sel : Select(Server, sel)
  BY OtherSaves DEF Select
<1>6. ~(\E g : DeleteGeneration(Server, g)) /\ ~DeleteProvider(Server)
  BY <1>1, OtherSaves DEF DeleteGeneration, DeleteProvider, file
<1>7. ASSUME NEW source, NEW l, EnrichServed(source, l, ok) PROVE NothingPending
  BY <1>1, <1>2, <1>7 DEF EnrichServed, TurnedDown, BeginEnrichment, ResumeEnrichment, file
<1> QED BY <1>2, <1>3, <1>4, <1>5, <1>6, <1>7
        DEF Served, UploadServed, SelectServed, DropServed, TurnedDown

(* Nor does the server, of its own or by what befalls it.                   *)
LEMMA ServerBeginsNone ==
  ASSUME MInv, GoesOn \/ Befalls PROVE ~EnrichmentBegun
<1>1. ASSUME pending' = pending PROVE ~EnrichmentBegun
  BY <1>1 DEF EnrichmentBegun
<1>2. CASE Process(Server)
  BY <1>1, <1>2, ProcessBeginsNone DEF MInv
<1>3. CASE DeleteUser(Server)
  BY <1>3 DEF DeleteUser, EnrichmentBegun
<1>4. ASSUME NEW g \in GenID, Run(Server, g) PROVE ~EnrichmentBegun
  <2>1. CASE EnrichmentRecords(Server, g) \/ ResolveTitle(Server, g)
               \/ Release(Server, g) \/ Forget(Server, g)
    BY <1>1, <2>1
       DEF EnrichmentRecords, ResolveTitle, Release, Forget, Unopened, Missing, file
  <2>2. Enriching(g) => pending \in Generation /\ pending # None
    BY NoneAssumption DEF Enriching, IdOf, MInv, IInv, TypeOK
  <2>3. ASSUME Enriching(g), NEW t, NEW saved, Save(active, Checkpointed(t), saved)
        PROVE  ~EnrichmentBegun
    <3>1. Checkpointed(t) # None => IdOf(Checkpointed(t)) = IdOf(pending)
      BY <2>2, <2>3 DEF Checkpointed, Generation, IdOf
    <3> QED BY <1>1, <2>3, <3>1, SaveOutcome DEF EnrichmentBegun
  <2>4. CASE Checkpoint(Server, g)
    BY <1>1, <2>3, <2>4 DEF Checkpoint, Unopened, Missing, file
  <2>5. CASE CompleteEnrichment(Server, g)
    BY <1>1, <2>5, OtherSaves DEF CompleteEnrichment, Unopened, Missing, file
  <2>6. Enriching(g) => Discarded.state # "enriching"
    BY <2>2 DEF Discarded, Generation
  <2>7. CASE FailEnrichment(Server, g)
    BY <1>1, <2>6, <2>7, OtherSaves DEF FailEnrichment, file
  <2> QED BY <1>4, <2>1, <2>4, <2>5, <2>7 DEF Run
<1> QED BY <1>2, <1>3, <1>4 DEF GoesOn, Befalls, Process

LEMMA StepCancelled ==
  MInv /\ [MediaNext]_allVars =>
    [EnrichmentBegun => ~page.suspended \/ (flow.at = "resume" /\ NothingPending)]_allVars
<1> SUFFICES ASSUME MInv, MediaNext, EnrichmentBegun
             PROVE  ~page.suspended \/ (flow.at = "resume" /\ NothingPending)
  OBVIOUS
<1>1. ~UNCHANGED vars
  BY DEF vars, EnrichmentBegun
<1>2. \E ok \in BOOLEAN : Served(flow.at, ok)
  <2>1. ~(GoesOn \/ Befalls)
    BY ServerBeginsNone
  <2>2. Exchange \/ User \/ Timer
    BY <2>1 DEF MediaNext
  <2> QED BY <1>1, <2>2 DEF Exchange, User, Timer, Filter, UploadFiles, CancelBuild, DeleteData,
        RetryAnalysis, Leave, Load, Refreshes, Aborts, Reached
<1> QED BY <1>2, BegunByRequest DEF MInv, PageInv, Wanted

(***************************************************************************)
(* What the user has cancelled or deleted is not begun again by the page   *)
(* itself (cancelBuild and deleteData set analysisSuspended, which         *)
(* advanceAnalysis heeds), whatever chain was running at the click and     *)
(* whatever its aborted request did; a request to resume an enrichment     *)
(* begins one only in place of one that has failed meanwhile.              *)
(***************************************************************************)
THEOREM CancelledStaySo == MediaSpec => CancelledStays
  BY AlwaysMInv, StepCancelled, PTL DEF MediaSpec, CancelledStays
=============================================================================
