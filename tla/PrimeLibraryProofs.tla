-------------------------- MODULE PrimeLibraryProofs --------------------------
(***************************************************************************)
(* Proofs about the Prime Video library, for any processes, titles,        *)
(* archives and locales, and any number of faults, crashes and closes: the *)
(* types, one worker at a time, counters that agree with the outcomes, and *)
(* no title queried again.                                                 *)
(***************************************************************************)
EXTENDS PrimeLibrary, FiniteSetTheorems, TLAPS

-----------------------------------------------------------------------------
(***************************************************************************)
(* The file: what two generations have to be for the properties to hold of *)
(* them, whichever of them a save leaves behind.                           *)
(***************************************************************************)
CountsAgree(q) ==
  q # None /\ q.state = "enriching" =>
    /\ q.total = Cardinality(q.titles)
    /\ q.completed = Cardinality(q.done)
    /\ q.done \subseteq q.titles

(* An archive that is not yet confirmed has no locale. *)
Local(q) == q # None /\ q.state \in {"receiving", "awaiting_confirmation"} => q.locale = None

Complete(a) == a # None /\ a.locale # None => a.done = a.titles

(* A replacement is made from what is active now. *)
SourceOf(a, q) == q # None /\ q.state = "enriching" => a # None /\ q.src = a.id

FileOK(a, q) ==
  /\ a \in Generation \cup {None} /\ q \in Generation \cup {None}
  /\ CountsAgree(q) /\ Local(q) /\ Complete(a) /\ SourceOf(a, q)

(* Only what a save may leave counts.  ok says what the caller is told. *)
LEMMA SavedOK ==
  ASSUME NEW a, NEW q, NEW ok, FileOK(active, pending), FileOK(a, q), Save(a, q, ok)
  PROVE  FileOK(active', pending')
  BY DEF Save, file

LEMMA SavedFaults ==
  ASSUME NEW a, NEW q, NEW ok, faults \in 0..MaxFaults, Save(a, q, ok)
  PROVE  faults' \in 0..MaxFaults
  BY BoundsAssumption DEF Save

(* A worker keeps its fields, whatever it is changed in. *)
LEMMA IdleTyped == Idle \in Worker /\ Started \in Worker
  BY DEF Idle, Started, Worker, WorkerSteps

LEMMA CancelledTyped ==
  ASSUME NEW w \in Worker
  PROVE  Cancelled(w) \in Worker
  BY DEF Cancelled, Worker, WorkerSteps

LEMMA NewTyped == ASSUME NEW g \in GenID PROVE NewGeneration(g) \in Generation
  BY DEF NewGeneration, Generation, States

LEMMA ReplacementTyped ==
  ASSUME NEW g \in GenID, NEW source \in Generation, NEW l \in Locales
  PROVE  Replacement(g, source, l) \in Generation
<1> DEFINE kept == IF source.locale = l THEN source.done ELSE {}
<1>1. kept \in SUBSET Titles /\ source.titles \in SUBSET Titles
  BY DEF Generation
<1>2. Cardinality(kept) \in Nat /\ Cardinality(source.titles) \in Nat
  BY <1>1, FiniteAssumption, FS_Subset, FS_CardinalityType
<1>3. source.id \in GenID
  BY DEF Generation
<1> HIDE DEF kept
<1>4. [source EXCEPT !.id = g, !.state = "enriching", !.locale = l, !.src = source.id,
                 !.done = kept, !.total = Cardinality(source.titles),
                 !.completed = Cardinality(kept)] \in Generation
  BY <1>1, <1>2, <1>3 DEF Generation, States
<1> QED BY <1>4 DEF Replacement, kept

LEMMA BecomesTyped ==
  ASSUME NEW p \in Processes, NEW g \in GenID, NEW w \in Worker,
         worker \in [Processes -> [GenID -> Worker]], Becomes(p, g, w)
  PROVE  /\ worker' \in [Processes -> [GenID -> Worker]]
         /\ \A q \in Processes, h \in GenID :
              worker'[q][h] = IF q = p /\ h = g THEN w ELSE worker[q][h]
  BY DEF Becomes

-----------------------------------------------------------------------------
(***************************************************************************)
(* The workers: whose they are, who holds the lease, and what is left.     *)
(***************************************************************************)

(* What is stored, and what is worked on, was drawn before. *)
StoredDrawn == IdOf(active) \in used \cup {None} /\ IdOf(pending) \in used \cup {None}

WorkedDrawn == \A p \in Processes, g \in GenID : worker[p][g].pc # "idle" => g \in used

LeaseUnique ==
  \A p, q \in Processes, g, h \in GenID :
    worker[p][g].lease /\ worker[q][h].lease => p = q /\ g = h

(* Whoever works on the pending generation holds the lease.  One who works on a *)
(* generation that went with the user's directory does not, and no other        *)
(* worker of it is started.                                                     *)
LeaseHeld ==
  \A p \in Processes, g \in GenID :
    Working(p, g) /\ IdOf(pending) = g => worker[p][g].lease

TodoLeftFor(p, g) ==
  Working(p, g) /\ Enriching(g) =>
    /\ worker[p][g].pc \in {"lookup", "checkpoint"} =>
         worker[p][g].todo \subseteq pending.titles \ pending.done
    /\ worker[p][g].pc = "checkpoint" =>
         worker[p][g].title \in (pending.titles \ pending.done) \ worker[p][g].todo

TodoLeft == \A p \in Processes, g \in GenID : TodoLeftFor(p, g)

WorkersOK ==
  StoredDrawn /\ WorkedDrawn /\ LeaseUnique /\ LeaseHeld /\ OneWorker /\ TodoLeft

IInv == TypeOK /\ FileOK(active, pending) /\ WorkersOK

(* A step that starts no worker: leases are only given back, and a worker that *)
(* goes on with the pending generation keeps its lease.                        *)
Tamed(p, g) ==
  /\ worker'[p][g].lease => worker[p][g].lease
  /\ worker'[p][g].pc # "idle" => worker[p][g].pc # "idle"
  /\ Working(p, g)' => Working(p, g)
  /\ Working(p, g)' /\ IdOf(pending') = g => worker'[p][g].lease = worker[p][g].lease

NoOlder == IdOf(pending') \in {IdOf(pending), None} \cup (GenID \ used)

LEMMA TameStep ==
  ASSUME WorkersOK, used \subseteq used', StoredDrawn', NoOlder, TodoLeft',
         \A p \in Processes, g \in GenID : Tamed(p, g)
  PROVE  WorkersOK'
<1>1. WorkedDrawn'
  BY DEF WorkersOK, WorkedDrawn, Tamed
<1>2. LeaseUnique'
  BY DEF WorkersOK, LeaseUnique, Tamed
<1>3. LeaseHeld'
  <2> SUFFICES ASSUME NEW p \in Processes, NEW g \in GenID,
                      Working(p, g)', IdOf(pending') = g
               PROVE  worker'[p][g].lease
    BY DEF LeaseHeld
  <2>1. Working(p, g) /\ worker'[p][g].lease = worker[p][g].lease
    BY DEF Tamed
  <2>2. g \in used
    BY <2>1 DEF WorkersOK, WorkedDrawn, Working
  <2>3. g # None
    BY NoneAssumption
  <2>4. IdOf(pending) = g
    BY <2>2, <2>3 DEF NoOlder
  <2> QED BY <2>1, <2>4 DEF WorkersOK, LeaseHeld
<1>4. OneWorker'
  BY DEF WorkersOK, OneWorker, Tamed
<1> QED BY <1>1, <1>2, <1>3, <1>4 DEF WorkersOK

(* What is left stays left if the pending generation stays, is new, or is not  *)
(* enriched, and the workers that go on are where they were.                   *)
SamePlace(p, g) ==
  Working(p, g)' =>
    /\ Working(p, g)
    /\ worker'[p][g].pc = worker[p][g].pc
    /\ worker'[p][g].todo = worker[p][g].todo
    /\ worker'[p][g].title = worker[p][g].title

PendingSettled ==
  \/ pending' = pending
  \/ IdOf(pending') \in GenID \ used
  \/ ~(pending' # None /\ pending'.state = "enriching")
  \/ pending' = None

LEMMA SettledStep ==
  ASSUME WorkersOK, PendingSettled, \A p \in Processes, g \in GenID : SamePlace(p, g)
  PROVE  TodoLeft'
<1> SUFFICES ASSUME NEW p \in Processes, NEW g \in GenID, Working(p, g)', Enriching(g)'
             PROVE  TodoLeftFor(p, g)'
  BY DEF TodoLeft, TodoLeftFor
<1>1. /\ Working(p, g)
      /\ worker'[p][g].pc = worker[p][g].pc
      /\ worker'[p][g].todo = worker[p][g].todo
      /\ worker'[p][g].title = worker[p][g].title
  BY DEF SamePlace
<1>2. g \in used
  BY <1>1 DEF WorkersOK, WorkedDrawn, Working
<1>3. IdOf(pending') = g /\ pending'.state = "enriching" /\ g # None
  BY NoneAssumption DEF Enriching
<1>4. pending' # None
  BY <1>3 DEF IdOf
<1>5. pending' = pending
  BY <1>2, <1>3, <1>4 DEF PendingSettled
<1>6. Enriching(g)
  BY <1>3, <1>5 DEF Enriching
<1>7. TodoLeftFor(p, g)
  BY DEF WorkersOK, TodoLeft
<1> QED BY <1>1, <1>5, <1>6, <1>7 DEF TodoLeftFor

(* A worker that is started, for what is pending or for a new ID. *)
LEMMA StartedStep ==
  ASSUME TypeOK, WorkersOK, NEW p \in Processes, NEW g \in GenID,
         worker[p][g].pc = "idle", LeaseFree, Becomes(p, g, Started),
         g = IdOf(pending) \/ g \notin used, IdOf(pending') = g,
         g = IdOf(pending) => pending' = pending,
         g \in used', used \subseteq used', StoredDrawn'
  PROVE  WorkersOK'
<1>1. /\ worker' \in [Processes -> [GenID -> Worker]]
      /\ \A q \in Processes, h \in GenID :
           worker'[q][h] = IF q = p /\ h = g THEN Started ELSE worker[q][h]
  BY IdleTyped, BecomesTyped DEF TypeOK
<1>2. Started.pc = "read" /\ Started.lease /\ ~Started.cancelled
  BY DEF Started, Idle
<1>3. \A q \in Processes, h \in GenID : ~worker[q][h].lease
  BY DEF LeaseFree
<1>4. \A q \in Processes : ~Working(q, g)
  <2> SUFFICES ASSUME NEW q \in Processes, Working(q, g) PROVE FALSE
    OBVIOUS
  <2>1. g \in used
    BY DEF WorkersOK, WorkedDrawn, Working
  <2> QED BY <2>1, <1>3 DEF WorkersOK, LeaseHeld
<1>5. \A q \in Processes, h \in GenID :
        ~(q = p /\ h = g) => worker'[q][h] = worker[q][h] /\ (Working(q, h)' <=> Working(q, h))
  BY <1>1 DEF Working
<1>6. worker'[p][g] = Started
  BY <1>1
<1>7. WorkedDrawn'
  BY <1>5 DEF WorkersOK, WorkedDrawn
<1>8. LeaseUnique'
  BY <1>3, <1>5 DEF LeaseUnique
<1>9. LeaseHeld'
  BY <1>2, <1>4, <1>5, <1>6 DEF LeaseHeld
<1>10. OneWorker'
  BY <1>4, <1>5 DEF WorkersOK, OneWorker
<1>11. TodoLeft'
  <2> SUFFICES ASSUME NEW q \in Processes, NEW h \in GenID, Working(q, h)', Enriching(h)'
               PROVE  TodoLeftFor(q, h)'
    BY DEF TodoLeft, TodoLeftFor
  <2>1. h = g
    BY DEF Enriching
  <2>2. q = p
    BY <2>1, <1>4, <1>5
  <2> QED BY <2>1, <2>2, <1>2, <1>6 DEF TodoLeftFor
<1> QED BY <1>7, <1>8, <1>9, <1>10, <1>11 DEF WorkersOK

LEMMA StartStep ==
  ASSUME TypeOK, WorkersOK, NEW p \in Processes, NEW g \in GenID, StartOrRefuse(p, g),
         g = IdOf(pending) \/ g \notin used, IdOf(pending') = g,
         g = IdOf(pending) => pending' = pending,
         g \in used', used \subseteq used', StoredDrawn'
  PROVE  WorkersOK' /\ worker' \in [Processes -> [GenID -> Worker]]
<1>1. CASE worker[p][g].pc = "idle" /\ LeaseFree /\ Becomes(p, g, Started)
  BY <1>1, StartedStep, IdleTyped, BecomesTyped DEF TypeOK
<1>2. CASE UNCHANGED worker
  <2>1. NoOlder /\ PendingSettled
    BY DEF NoOlder, PendingSettled
  <2>2. \A q \in Processes, h \in GenID : Tamed(q, h) /\ SamePlace(q, h)
    BY <1>2 DEF Tamed, SamePlace, Working
  <2>3. WorkersOK'
    BY <2>1, <2>2, SettledStep, TameStep
  <2> QED BY <1>2, <2>3 DEF TypeOK
<1> QED BY <1>1, <1>2 DEF StartOrRefuse, Start

(* Steps that cancel workers, or leave them alone, and set no other work. *)
LEMMA CancelTyped ==
  ASSUME TypeOK, NEW p \in Processes, NEW S \in SUBSET GenID, Cancel(p, S)
  PROVE  /\ worker' \in [Processes -> [GenID -> Worker]]
         /\ \A q \in Processes, h \in GenID : Tamed(q, h) /\ SamePlace(q, h)
<1>1. \A q \in Processes, h \in GenID :
        /\ worker[q][h] \in Worker
        /\ worker'[q][h] = IF q = p /\ h \in S THEN Cancelled(worker[q][h]) ELSE worker[q][h]
  BY DEF Cancel, TypeOK
<1>2. \A q \in Processes, h \in GenID : worker'[q][h] \in Worker
  BY <1>1, CancelledTyped
<1>3. worker' \in [Processes -> [GenID -> Worker]]
  BY <1>2 DEF Cancel
<1>4. ASSUME NEW w \in Worker
      PROVE  /\ Cancelled(w).pc = w.pc /\ Cancelled(w).lease = w.lease
             /\ w.pc = "idle" \/ Cancelled(w).cancelled
  BY DEF Cancelled, Worker
<1>5. ASSUME NEW q \in Processes, NEW h \in GenID
      PROVE  Tamed(q, h) /\ SamePlace(q, h)
  <2>1. CASE q = p /\ h \in S
    <3>1. worker'[q][h].pc = worker[q][h].pc /\ worker'[q][h].lease = worker[q][h].lease
      BY <2>1, <1>1, <1>4
    <3>2. ~Working(q, h)'
      BY <2>1, <1>1, <1>4 DEF Working
    <3> QED BY <3>1, <3>2 DEF Tamed, SamePlace
  <2>2. CASE ~(q = p /\ h \in S)
    <3>1. worker'[q][h] = worker[q][h]
      BY <2>2, <1>1
    <3> QED BY <3>1 DEF Tamed, SamePlace, Working
  <2> QED BY <2>1, <2>2
<1> QED BY <1>3, <1>5

LEMMA UnchangedTame ==
  ASSUME UNCHANGED worker
  PROVE  \A q \in Processes, h \in GenID : Tamed(q, h) /\ SamePlace(q, h)
  BY DEF Tamed, SamePlace, Working

-----------------------------------------------------------------------------
(***************************************************************************)
(* Requests.                                                               *)
(***************************************************************************)
LEMMA SaveOutcome ==
  ASSUME NEW a, NEW q, NEW ok, Save(a, q, ok)
  PROVE  (active' = active /\ pending' = pending) \/ (active' = a /\ pending' = q)
  BY DEF Save, file

LEMMA QuietRequest ==
  ASSUME IInv, NEW p \in Processes, Serving(p), FileOK(active', pending'),
         used \subseteq used', used' \in SUBSET GenID, faults' \in 0..MaxFaults,
         worker' \in [Processes -> [GenID -> Worker]],
         \A q \in Processes, h \in GenID : Tamed(q, h) /\ SamePlace(q, h),
         NoOlder, PendingSettled, StoredDrawn'
  PROVE  IInv'
<1>1. TypeOK'
  BY DEF IInv, TypeOK, Serving, Opened, FileOK
<1>2. WorkersOK'
  BY TameStep, SettledStep DEF IInv
<1> QED BY <1>1, <1>2 DEF IInv

LEMMA CreateKeeps ==
  ASSUME IInv, NEW p \in Processes, NEW g \in GenID, Create(p, g)
  PROVE  IInv'
<1>1. PICK ok \in BOOLEAN : Save(active, NewGeneration(g), ok)
  BY DEF Create
<1>2. FileOK(active, NewGeneration(g))
  BY NewTyped DEF IInv, FileOK, SourceOf, CountsAgree, Local, NewGeneration
<1>3. FileOK(active', pending') /\ faults' \in 0..MaxFaults
  BY <1>1, <1>2, SavedOK, SavedFaults DEF IInv, TypeOK
<1>4. \/ active' = active /\ pending' = pending
      \/ active' = active /\ pending' = NewGeneration(g)
  BY <1>1, SaveOutcome
<1>5. IdOf(NewGeneration(g)) \in {g, None}
  BY DEF IdOf, NewGeneration
<1>6. g \notin used /\ used' = used \cup {g}
  BY DEF Create
<1>7. StoredDrawn /\ used \in SUBSET GenID
  BY DEF IInv, WorkersOK, TypeOK
<1>8. IdOf(active') = IdOf(active) /\ IdOf(pending') \in {IdOf(pending), g, None}
  BY <1>4, <1>5 DEF IdOf
<1>9. NoOlder /\ StoredDrawn'
  BY <1>6, <1>7, <1>8 DEF NoOlder, StoredDrawn
<1>10. PendingSettled
  BY <1>4, <1>5, <1>6 DEF PendingSettled, NewGeneration
<1>11. Serving(p) /\ UNCHANGED worker
  BY DEF Create
<1> QED BY <1>3, <1>6, <1>7, <1>9, <1>10, <1>11, UnchangedTame, QuietRequest DEF IInv, TypeOK

LEMMA UploadKeeps == ASSUME IInv, NEW p \in Processes, Upload(p) PROVE IInv'
<1>1. PICK ok \in BOOLEAN, a \in Archives, state \in {"awaiting_confirmation", "failed"} :
        Save(active,
             [pending EXCEPT !.state = state,
                             !.archive = IF state = "failed" THEN None ELSE a],
             ok)
  BY DEF Upload
<1> DEFINE new == [pending EXCEPT !.state = state,
                                  !.archive = IF state = "failed" THEN None ELSE a]
<1>2. pending \in Generation /\ pending # None /\ pending.state = "receiving"
  BY DEF IInv, TypeOK, Upload
<1>3. /\ new \in Generation /\ new.id = pending.id /\ new.state = state
      /\ new.locale = pending.locale
  BY <1>2 DEF Generation, States
<1>4. Save(active, new, ok)
  BY <1>1
<1> HIDE DEF new
<1>5. FileOK(active, new)
  BY <1>2, <1>3 DEF IInv, FileOK, SourceOf, CountsAgree, Local
<1>6. FileOK(active', pending') /\ faults' \in 0..MaxFaults
  BY <1>4, <1>5, SavedOK, SavedFaults DEF IInv, TypeOK
<1>7. (active' = active /\ pending' = pending) \/ (active' = active /\ pending' = new)
  BY <1>4, SaveOutcome
<1>8. IdOf(active') = IdOf(active) /\ IdOf(pending') \in {IdOf(pending), None}
  BY <1>2, <1>3, <1>7 DEF IdOf
<1>9. Serving(p) /\ UNCHANGED <<worker, used>>
  BY DEF Upload
<1>10. NoOlder /\ StoredDrawn'
  BY <1>8, <1>9 DEF NoOlder, StoredDrawn, IInv, WorkersOK
<1>11. PendingSettled
  BY <1>3, <1>7 DEF PendingSettled
<1> QED BY <1>6, <1>9, <1>10, <1>11, UnchangedTame, QuietRequest DEF IInv, TypeOK

LEMMA SelectKeeps ==
  ASSUME IInv, NEW p \in Processes, NEW sel \in SUBSET Titles, Select(p, sel)
  PROVE  IInv'
<1> DEFINE new == [pending EXCEPT !.state = "ready", !.titles = sel]
<1>1. PICK ok \in BOOLEAN : Save(active, None, ok) \/ Save(new, None, ok)
  BY DEF Select
<1>2. /\ pending \in Generation /\ pending # None
      /\ pending.state = "awaiting_confirmation" /\ pending.locale = None
  BY DEF IInv, TypeOK, Select, FileOK, Local
<1>3. new \in Generation /\ new.id = pending.id /\ new.locale = None
  BY <1>2 DEF Generation, States
<1> HIDE DEF new
<1>4. FileOK(active, None) /\ FileOK(new, None)
  BY <1>3 DEF IInv, FileOK, SourceOf, CountsAgree, Local, Complete
<1>5. FileOK(active', pending') /\ faults' \in 0..MaxFaults
  BY <1>1, <1>4, SavedOK, SavedFaults DEF IInv, TypeOK
<1>6. \/ active' = active /\ pending' = pending
      \/ active' \in {active, new} /\ pending' = None
  BY <1>1, SaveOutcome
<1>7. /\ IdOf(active') \in {IdOf(active), IdOf(pending), None}
      /\ IdOf(pending') \in {IdOf(pending), None}
  BY <1>2, <1>3, <1>6 DEF IdOf
<1>8. Serving(p) /\ UNCHANGED <<worker, used>>
  BY DEF Select
<1>9. NoOlder /\ StoredDrawn'
  BY <1>7, <1>8 DEF NoOlder, StoredDrawn, IInv, WorkersOK
<1>10. PendingSettled
  BY <1>6 DEF PendingSettled
<1> QED BY <1>5, <1>8, <1>9, <1>10, UnchangedTame, QuietRequest DEF IInv, TypeOK

LEMMA ReplacementFields ==
  ASSUME NEW g \in GenID, NEW source \in Generation, NEW l \in Locales
  PROVE  LET r == Replacement(g, source, l) IN
         /\ r.id = g /\ r.state = "enriching" /\ r.titles = source.titles
         /\ r.src = source.id /\ r.locale = l
         /\ r.total = Cardinality(source.titles)
         /\ r.done \in {source.done, {}} /\ r.completed = Cardinality(r.done)
         /\ r.done # {} => source.locale = l
<1>1. source = [id |-> source.id, state |-> source.state, locale |-> source.locale,
                src |-> source.src, archive |-> source.archive, titles |-> source.titles,
                done |-> source.done, total |-> source.total, completed |-> source.completed]
  BY DEF Generation
<1> DEFINE kept == IF source.locale = l THEN source.done ELSE {}
<1> DEFINE r == Replacement(g, source, l)
<1>2. /\ r.id = g /\ r.state = "enriching" /\ r.titles = source.titles
      /\ r.src = source.id /\ r.locale = l
      /\ r.total = Cardinality(source.titles)
      /\ r.done = kept /\ r.completed = Cardinality(kept)
  BY <1>1 DEF Replacement
<1> QED BY <1>2

LEMMA BeginKeeps ==
  ASSUME IInv, NEW p \in Processes, NEW g \in GenID, NEW l \in Locales,
         BeginEnrichment(p, g, l)
  PROVE  IInv'
<1> DEFINE new == Replacement(g, active, l)
<1>1. PICK ok \in BOOLEAN : /\ Save(active, new, ok)
                            /\ IF ok THEN StartOrRefuse(p, g) ELSE UNCHANGED worker
  BY DEF BeginEnrichment
<1>2. active \in Generation /\ active # None
  BY DEF IInv, TypeOK, BeginEnrichment
<1>3. /\ new \in Generation /\ new.id = g /\ new.state = "enriching"
      /\ new.src = active.id /\ new.titles = active.titles /\ new.total = Cardinality(new.titles)
      /\ new.completed = Cardinality(new.done)
      /\ new.done \in {active.done, {}} /\ (new.done # {} => active.locale = l)
  BY <1>2, ReplacementTyped, ReplacementFields
<1> HIDE DEF new
<1>4. new.done \subseteq new.titles
  <2>1. CASE new.done = {}
    BY <2>1
  <2>2. CASE new.done # {}
    <3>1. active.locale # None
      BY <2>2, <1>3, NoneAssumption
    <3> QED BY <3>1, <2>2, <1>2, <1>3 DEF IInv, FileOK, Complete
  <2> QED BY <2>1, <2>2
<1>5. FileOK(active, new)
  BY <1>2, <1>3, <1>4 DEF IInv, FileOK, SourceOf, CountsAgree, Local
<1>6. FileOK(active', pending') /\ faults' \in 0..MaxFaults
  BY <1>1, <1>5, SavedOK, SavedFaults DEF IInv, TypeOK
<1>7. IdOf(new) = g
  BY <1>3, GenerationAssumption DEF IdOf
<1>8. (active' = active /\ pending' = pending) \/ (active' = active /\ pending' = new)
  BY <1>1, SaveOutcome
<1>9. g \notin used /\ used' = used \cup {g} /\ Serving(p)
  BY DEF BeginEnrichment
<1>10. IdOf(active') = IdOf(active) /\ IdOf(pending') \in {IdOf(pending), g}
  BY <1>7, <1>8 DEF IdOf
<1>11. NoOlder /\ StoredDrawn'
  BY <1>9, <1>10 DEF NoOlder, StoredDrawn, IInv, WorkersOK
<1>12. used' \in SUBSET GenID
  BY <1>9 DEF IInv, TypeOK
<1>13. CASE ok
  <2>1. pending' = new
    BY <1>13, <1>1 DEF Save
  <2>2. IdOf(pending') = g
    BY <2>1, <1>7 DEF IdOf
  <2>3. g # IdOf(pending)
    BY <1>9, NoneAssumption DEF IInv, WorkersOK, StoredDrawn
  <2>4. WorkersOK' /\ worker' \in [Processes -> [GenID -> Worker]]
    BY <1>13, <1>1, <1>9, <1>11, <2>2, <2>3, StartStep DEF IInv
  <2>5. TypeOK'
    BY <2>4, <1>6, <1>9, <1>12 DEF IInv, TypeOK, Serving, Opened, FileOK
  <2> QED BY <2>4, <2>5, <1>6 DEF IInv
<1>14. CASE ~ok
  <2>1. UNCHANGED worker
    BY <1>14, <1>1
  <2>2. PendingSettled
    BY <1>8, <1>7, <1>9 DEF PendingSettled, IdOf
  <2> QED BY <1>6, <1>9, <1>11, <1>12, <2>1, <2>2, UnchangedTame, QuietRequest DEF IInv, TypeOK
<1> QED BY <1>13, <1>14

LEMMA ResumeKeeps == ASSUME IInv, NEW p \in Processes, ResumeEnrichment(p) PROVE IInv'
<1>1. /\ pending # None /\ StartOrRefuse(p, pending.id)
      /\ UNCHANGED <<active, pending, used, faults>> /\ Serving(p)
  BY DEF ResumeEnrichment, file
<1>2. pending.id \in GenID /\ IdOf(pending) = pending.id
  BY <1>1 DEF IInv, TypeOK, Generation, IdOf
<1>3. pending.id \in used /\ StoredDrawn
  BY <1>2, NoneAssumption DEF IInv, WorkersOK, StoredDrawn
<1>4. IdOf(pending') = pending.id /\ StoredDrawn'
  BY <1>1, <1>2, <1>3 DEF IdOf, StoredDrawn
<1>5. WorkersOK' /\ worker' \in [Processes -> [GenID -> Worker]]
  BY <1>1, <1>2, <1>3, <1>4, StartStep DEF IInv
<1>6. FileOK(active', pending')
  BY <1>1 DEF IInv, FileOK, SourceOf, CountsAgree, Local, Complete
<1>7. TypeOK'
  BY <1>1, <1>5, <1>6 DEF IInv, TypeOK, Serving, Opened, FileOK
<1> QED BY <1>5, <1>6, <1>7 DEF IInv

LEMMA DeleteGenerationKeeps ==
  ASSUME IInv, NEW p \in Processes, NEW g \in GenID, DeleteGeneration(p, g)
  PROVE  IInv'
<1>1. PICK ok \in BOOLEAN :
        /\ IF IdOf(pending) = g THEN Save(active, None, ok)
                                ELSE ok /\ UNCHANGED <<file, faults>>
        /\ IF ok THEN Cancel(p, {g}) ELSE UNCHANGED worker
  BY DEF DeleteGeneration
<1>2. FileOK(active, None) /\ FileOK(active, pending)
  BY DEF IInv, FileOK, SourceOf, CountsAgree, Local
<1>3. /\ FileOK(active', pending') /\ faults' \in 0..MaxFaults
      /\ active' = active /\ pending' \in {pending, None}
  <2>1. CASE Save(active, None, ok)
    BY <2>1, <1>2, SavedOK, SavedFaults, SaveOutcome DEF IInv, TypeOK
  <2>2. CASE UNCHANGED <<file, faults>>
    BY <2>2, <1>2 DEF file, IInv, TypeOK
  <2> QED BY <2>1, <2>2, <1>1
<1>4. /\ worker' \in [Processes -> [GenID -> Worker]]
      /\ \A q \in Processes, h \in GenID : Tamed(q, h) /\ SamePlace(q, h)
  BY <1>1, CancelTyped, UnchangedTame DEF IInv, TypeOK
<1>5. Serving(p) /\ used' = used
  BY DEF DeleteGeneration
<1>6. NoOlder /\ StoredDrawn' /\ PendingSettled
  BY <1>3, <1>5 DEF NoOlder, StoredDrawn, PendingSettled, IdOf, IInv, WorkersOK
<1> QED BY <1>3, <1>4, <1>5, <1>6, QuietRequest DEF IInv, TypeOK

LEMMA DeleteProviderKeeps ==
  ASSUME IInv, NEW p \in Processes, DeleteProvider(p) PROVE IInv'
<1>1. PICK ok \in BOOLEAN : Save(None, None, ok)
  BY DEF DeleteProvider
<1>2. FileOK(None, None)
  BY DEF FileOK, SourceOf, CountsAgree, Local, Complete
<1>3. /\ FileOK(active', pending') /\ faults' \in 0..MaxFaults
      /\ active' \in {active, None} /\ pending' \in {pending, None}
  BY <1>1, <1>2, SavedOK, SavedFaults, SaveOutcome DEF IInv, TypeOK
<1>4. /\ worker' \in [Processes -> [GenID -> Worker]]
      /\ \A q \in Processes, h \in GenID : Tamed(q, h) /\ SamePlace(q, h)
  BY CancelTyped DEF DeleteProvider, IInv
<1>5. Serving(p) /\ used' = used
  BY DEF DeleteProvider
<1>6. NoOlder /\ StoredDrawn' /\ PendingSettled
  BY <1>3, <1>5 DEF NoOlder, StoredDrawn, PendingSettled, IdOf, IInv, WorkersOK
<1> QED BY <1>3, <1>4, <1>5, <1>6, QuietRequest DEF IInv, TypeOK

LEMMA DeleteUserKeeps == ASSUME IInv, NEW p \in Processes, DeleteUser(p) PROVE IInv'
<1> DEFINE Unlocked(w) == [w EXCEPT !.lease = FALSE]
<1>1. /\ root' = FALSE /\ active' = None /\ pending' = None
      /\ worker' = [q \in Processes |-> [h \in GenID |->
           Unlocked(IF q = p THEN Cancelled(worker[q][h]) ELSE worker[q][h])]]
      /\ UNCHANGED <<live, used, faults, stops>>
  BY DEF DeleteUser, bounds
<1>2. ASSUME NEW w \in Worker
      PROVE  /\ Unlocked(w) \in Worker /\ Unlocked(w).pc = w.pc /\ ~Unlocked(w).lease
             /\ Unlocked(w).cancelled = w.cancelled
             /\ Unlocked(w).todo = w.todo /\ Unlocked(w).title = w.title
  BY DEF Worker
<1>3. ASSUME NEW w \in Worker
      PROVE  /\ Cancelled(w).pc = w.pc
             /\ Cancelled(w) = w \/ Cancelled(w).cancelled
  BY DEF Cancelled, Worker
<1> HIDE DEF Unlocked
<1>4. ASSUME NEW q \in Processes, NEW h \in GenID
      PROVE  worker'[q][h] \in Worker /\ Tamed(q, h) /\ SamePlace(q, h)
  <2> DEFINE w == IF q = p THEN Cancelled(worker[q][h]) ELSE worker[q][h]
  <2>1. worker[q][h] \in Worker
    BY DEF IInv, TypeOK
  <2>2. w \in Worker /\ w.pc = worker[q][h].pc /\ (w = worker[q][h] \/ w.cancelled)
    BY <2>1, <1>3, CancelledTyped
  <2>3. worker'[q][h] = Unlocked(w)
    BY <1>1
  <2> HIDE DEF w
  <2>4. /\ worker'[q][h] \in Worker /\ worker'[q][h].pc = worker[q][h].pc
        /\ ~worker'[q][h].lease
        /\ \/ worker'[q][h].cancelled
           \/ /\ worker'[q][h].cancelled = worker[q][h].cancelled
              /\ worker'[q][h].todo = worker[q][h].todo
              /\ worker'[q][h].title = worker[q][h].title
    BY <2>2, <2>3, <1>2
  <2>5. IdOf(pending') # h
    BY <1>1, NoneAssumption DEF IdOf
  <2> QED BY <2>4, <2>5 DEF Tamed, SamePlace, Working
<1>5. worker' \in [Processes -> [GenID -> Worker]]
  BY <1>1, <1>4
<1>6. FileOK(active', pending')
  BY <1>1 DEF FileOK, SourceOf, CountsAgree, Local, Complete
<1>7. NoOlder /\ StoredDrawn' /\ PendingSettled
  BY <1>1 DEF NoOlder, StoredDrawn, PendingSettled, IdOf
<1>8. WorkersOK'
  BY <1>1, <1>4, <1>7, TameStep, SettledStep DEF IInv
<1>9. TypeOK'
  BY <1>1, <1>5, <1>6 DEF IInv, TypeOK, FileOK
<1> QED BY <1>6, <1>8, <1>9 DEF IInv

-----------------------------------------------------------------------------
(***************************************************************************)
(* The steps of a worker.                                                  *)
(***************************************************************************)
AtWork == {"read", "lookup", "checkpoint", "complete", "fail"}

(* What a worker may become: it keeps its context and, while it works, its lease. *)
Following(v, w) ==
  /\ w \in Worker /\ v.pc # "idle"
  /\ w.lease => v.lease
  /\ w.pc \in AtWork /\ ~w.cancelled =>
       v.pc \in AtWork /\ ~v.cancelled /\ w.lease = v.lease

(* And what may become of the pending generation. *)
PendingFollows(p, g) ==
  \/ pending' = pending
  \/ pending' = None
  \/ pending'.state # "enriching" /\ IdOf(pending') \in {IdOf(pending), None}
  \/ Working(p, g) /\ Enriching(g) /\ IdOf(pending') \in {g, None}

LEMMA WorkerStep ==
  ASSUME IInv, NEW p \in Processes, NEW g \in GenID, NEW w,
         Following(worker[p][g], w), Becomes(p, g, w), PendingFollows(p, g),
         IdOf(active') \in {IdOf(active), IdOf(pending), None}, used' = used,
         TodoLeftFor(p, g)'
  PROVE  WorkersOK' /\ worker' \in [Processes -> [GenID -> Worker]]
<1>1. /\ worker' \in [Processes -> [GenID -> Worker]]
      /\ \A q \in Processes, h \in GenID :
           worker'[q][h] = IF q = p /\ h = g THEN w ELSE worker[q][h]
  BY BecomesTyped DEF IInv, TypeOK, Following
<1>2. worker[p][g] \in Worker
  BY DEF IInv, TypeOK
<1>3. ASSUME NEW q \in Processes, NEW h \in GenID PROVE Tamed(q, h)
  <2>1. CASE q = p /\ h = g
    <3>1. worker'[q][h] = w
      BY <2>1, <1>1
    <3>2. Working(p, g)' => w.pc \in AtWork /\ ~w.cancelled
      BY <2>1, <3>1 DEF Working, Following, Worker, WorkerSteps, AtWork
    <3>3. worker[p][g].pc \in AtWork /\ ~worker[p][g].cancelled => Working(p, g)
      BY DEF Working, AtWork
    <3> QED BY <2>1, <3>1, <3>2, <3>3 DEF Tamed, Following
  <2>2. CASE ~(q = p /\ h = g)
    <3>1. worker'[q][h] = worker[q][h]
      BY <2>2, <1>1
    <3> QED BY <3>1 DEF Tamed, Working
  <2> QED BY <2>1, <2>2
<1>4. IdOf(pending') \in {IdOf(pending), None}
  BY DEF PendingFollows, IdOf, Enriching
<1>5. NoOlder /\ StoredDrawn'
  BY <1>4 DEF NoOlder, StoredDrawn, IInv, WorkersOK
<1>6. TodoLeft'
  <2> SUFFICES ASSUME NEW q \in Processes, NEW h \in GenID, Working(q, h)', Enriching(h)',
                      ~(q = p /\ h = g)
               PROVE  TodoLeftFor(q, h)'
    BY DEF TodoLeft, TodoLeftFor
  <2>1. worker'[q][h] = worker[q][h] /\ Working(q, h)
    BY <1>1 DEF Working
  <2>2. IdOf(pending') = h /\ pending'.state = "enriching" /\ h # None
    BY NoneAssumption DEF Enriching
  <2>3. pending' = pending
    <3>1. ~(Working(p, g) /\ Enriching(g) /\ IdOf(pending') \in {g, None})
      BY <2>1, <2>2 DEF IInv, WorkersOK, OneWorker
    <3>2. pending' # None
      BY <2>2 DEF IdOf
    <3> QED BY <2>2, <3>1, <3>2 DEF PendingFollows
  <2>4. Enriching(h) /\ TodoLeftFor(q, h)
    BY <2>2, <2>3 DEF Enriching, IInv, WorkersOK, TodoLeft
  <2> QED BY <2>1, <2>3, <2>4 DEF TodoLeftFor
<1>7. WorkersOK'
  BY <1>3, <1>5, <1>6, TameStep DEF IInv
<1> QED BY <1>1, <1>7

LEMMA WorkerKeeps ==
  ASSUME IInv, NEW p \in Processes, NEW g \in GenID, NEW w,
         Following(worker[p][g], w), Becomes(p, g, w), PendingFollows(p, g),
         IdOf(active') \in {IdOf(active), IdOf(pending), None}, WorkerFrame,
         TodoLeftFor(p, g)', FileOK(active', pending'), faults' \in 0..MaxFaults,
         root' \in BOOLEAN
  PROVE  IInv'
<1>1. WorkersOK' /\ worker' \in [Processes -> [GenID -> Worker]]
  BY WorkerStep DEF WorkerFrame
<1>2. TypeOK'
  BY <1>1 DEF IInv, TypeOK, WorkerFrame, FileOK
<1> QED BY <1>1, <1>2 DEF IInv

(* A worker that only goes to another step, and not to its titles. *)
LEMMA GoFollows ==
  ASSUME IInv, NEW p \in Processes, NEW g \in GenID, NEW pc \in WorkerSteps, Go(p, g, pc),
         worker[p][g].pc \in AtWork, pc \notin {"idle", "lookup", "checkpoint"}
  PROVE  LET w == [worker[p][g] EXCEPT !.pc = pc] IN
         Following(worker[p][g], w) /\ Becomes(p, g, w) /\ TodoLeftFor(p, g)'
<1> DEFINE w == [worker[p][g] EXCEPT !.pc = pc]
<1>1. worker[p][g] \in Worker
  BY DEF IInv, TypeOK
<1>2. /\ w \in Worker /\ w.pc = pc /\ w.lease = worker[p][g].lease
      /\ w.cancelled = worker[p][g].cancelled
  BY <1>1 DEF Worker
<1> HIDE DEF w
<1>3. Becomes(p, g, w)
  BY DEF Go, w
<1>4. Following(worker[p][g], w)
  BY <1>2 DEF Following, AtWork
<1>5. worker'[p][g].pc = pc
  BY <1>2, <1>3, BecomesTyped DEF IInv, TypeOK
<1> QED BY <1>3, <1>4, <1>5 DEF TodoLeftFor, w

(* An error, or another generation, ends the work; the files are left alone. *)
LEMMA LeavesKeeps ==
  ASSUME IInv, NEW p \in Processes, NEW g \in GenID, NEW pc \in WorkerSteps, Go(p, g, pc),
         worker[p][g].pc \in AtWork, pc \notin {"idle", "lookup", "checkpoint"},
         UNCHANGED <<file, faults>>, root' \in BOOLEAN, WorkerFrame
  PROVE  IInv'
<1>1. active' = active /\ pending' = pending /\ faults' = faults
  BY DEF file
<1>2. FileOK(active', pending') /\ faults' \in 0..MaxFaults
  BY <1>1 DEF IInv, TypeOK, FileOK, SourceOf, CountsAgree, Local, Complete
<1>3. PendingFollows(p, g) /\ IdOf(active') \in {IdOf(active), IdOf(pending), None}
  BY <1>1 DEF PendingFollows, IdOf
<1> QED BY <1>2, <1>3, GoFollows, WorkerKeeps

LEMMA UnopenedKeeps ==
  ASSUME IInv, NEW p \in Processes, NEW g \in GenID, worker[p][g].pc \in AtWork,
         Unopened(p, g) \/ Missing(p, g), WorkerFrame
  PROVE  IInv'
<1>1. UNCHANGED <<file, faults>> /\ root' \in BOOLEAN
  BY DEF Unopened, Missing, Opened, IInv, TypeOK
<1>2. Go(p, g, "release") \/ Go(p, g, "fail")
  BY DEF Unopened, Missing, Stop
<1>3. "release" \in WorkerSteps /\ "fail" \in WorkerSteps
  BY DEF WorkerSteps
<1>4. CASE Go(p, g, "release")
  BY <1>1, <1>3, <1>4, LeavesKeeps
<1>5. CASE Go(p, g, "fail")
  BY <1>1, <1>3, <1>5, LeavesKeeps
<1> QED BY <1>2, <1>4, <1>5

LEMMA RecordsKeep ==
  ASSUME IInv, NEW p \in Processes, NEW g \in GenID, EnrichmentRecords(p, g)
  PROVE  IInv'
<1>1. worker[p][g].pc = "read" /\ WorkerFrame
  BY DEF EnrichmentRecords
<1>2. CASE Unopened(p, g) \/ Missing(p, g)
  BY <1>1, <1>2, UnopenedKeeps DEF AtWork
<1> DEFINE left == pending.titles \ pending.done
<1> DEFINE w == [worker[p][g] EXCEPT !.pc = "lookup", !.todo = left]
<1>3. CASE /\ ~worker[p][g].cancelled /\ Enriching(g)
           /\ Becomes(p, g, w) /\ Opened /\ UNCHANGED <<file, faults>>
  <2>1. pending \in Generation
    BY <1>3, NoneAssumption DEF Enriching, IdOf, IInv, TypeOK
  <2>2. left \in SUBSET Titles
    BY <2>1 DEF Generation
  <2> HIDE DEF left
  <2>3. worker[p][g] \in Worker
    BY DEF IInv, TypeOK
  <2>4. /\ w \in Worker /\ w.pc = "lookup" /\ w.lease = worker[p][g].lease
        /\ w.cancelled = worker[p][g].cancelled /\ w.todo = left
    BY <2>2, <2>3 DEF Worker, WorkerSteps
  <2> HIDE DEF w
  <2>5. Following(worker[p][g], w)
    BY <1>1, <2>4 DEF Following, AtWork
  <2>6. active' = active /\ pending' = pending /\ faults' = faults /\ root' = TRUE
    BY <1>3 DEF file, Opened
  <2>7. worker'[p][g] = w
    BY <1>3, <2>4, BecomesTyped DEF IInv, TypeOK
  <2>8. TodoLeftFor(p, g)'
    BY <2>4, <2>6, <2>7 DEF TodoLeftFor, left
  <2>9. FileOK(active', pending') /\ faults' \in 0..MaxFaults
    BY <2>6 DEF IInv, TypeOK, FileOK, SourceOf, CountsAgree, Local, Complete
  <2>10. PendingFollows(p, g) /\ IdOf(active') \in {IdOf(active), IdOf(pending), None}
    BY <2>6 DEF PendingFollows, IdOf
  <2> QED BY <1>1, <1>3, <2>5, <2>6, <2>8, <2>9, <2>10, WorkerKeeps
<1> QED BY <1>2, <1>3 DEF EnrichmentRecords

LEMMA ResolveKeeps ==
  ASSUME IInv, NEW p \in Processes, NEW g \in GenID, ResolveTitle(p, g)
  PROVE  IInv'
<1>1. /\ worker[p][g].pc = "lookup" /\ WorkerFrame /\ UNCHANGED <<file, root, faults>>
      /\ worker[p][g] \in Worker
  BY DEF ResolveTitle, IInv, TypeOK
<1>2. root' \in BOOLEAN
  BY <1>1 DEF IInv, TypeOK
<1>3. {"complete", "release", "fail"} \subseteq WorkerSteps
  BY DEF WorkerSteps
<1>4. CASE Go(p, g, "complete") \/ Go(p, g, "release") \/ Go(p, g, "fail")
  <2>1. CASE Go(p, g, "complete")
    BY <1>1, <1>2, <1>3, <2>1, LeavesKeeps DEF AtWork
  <2>2. CASE Go(p, g, "release")
    BY <1>1, <1>2, <1>3, <2>2, LeavesKeeps DEF AtWork
  <2>3. CASE Go(p, g, "fail")
    BY <1>1, <1>2, <1>3, <2>3, LeavesKeeps DEF AtWork
  <2> QED BY <1>4, <2>1, <2>2, <2>3
<1>5. ASSUME NEW t \in worker[p][g].todo,
             Becomes(p, g, [worker[p][g] EXCEPT !.pc = "checkpoint", !.title = t,
                                                !.todo = @ \ {t}])
      PROVE  IInv'
  <2> DEFINE w == [worker[p][g] EXCEPT !.pc = "checkpoint", !.title = t, !.todo = @ \ {t}]
  <2>1. /\ w \in Worker /\ w.pc = "checkpoint" /\ w.lease = worker[p][g].lease
        /\ w.cancelled = worker[p][g].cancelled /\ w.title = t
        /\ w.todo = worker[p][g].todo \ {t}
    BY <1>1 DEF Worker, WorkerSteps
  <2>2. Becomes(p, g, w)
    BY <1>5
  <2> HIDE DEF w
  <2>3. Following(worker[p][g], w)
    BY <1>1, <2>1 DEF Following, AtWork
  <2>4. active' = active /\ pending' = pending /\ faults' = faults
    BY <1>1 DEF file
  <2>5. worker'[p][g] = w
    BY <2>1, <2>2, BecomesTyped DEF IInv, TypeOK
  <2>6. TodoLeftFor(p, g)'
    <3> SUFFICES ASSUME Working(p, g)', Enriching(g)' PROVE TodoLeftFor(p, g)'
      BY DEF TodoLeftFor
    <3>1. Working(p, g)
      BY <1>1, <2>1, <2>5 DEF Working
    <3>2. Enriching(g)
      BY <2>4 DEF Enriching, IdOf
    <3>3. worker[p][g].todo \subseteq pending.titles \ pending.done
      BY <1>1, <3>1, <3>2 DEF IInv, WorkersOK, TodoLeft, TodoLeftFor
    <3> QED BY <2>1, <2>4, <2>5, <3>3 DEF TodoLeftFor
  <2>7. FileOK(active', pending') /\ faults' \in 0..MaxFaults
    BY <2>4 DEF IInv, TypeOK, FileOK, SourceOf, CountsAgree, Local, Complete
  <2>8. PendingFollows(p, g) /\ IdOf(active') \in {IdOf(active), IdOf(pending), None}
    BY <2>4 DEF PendingFollows, IdOf
  <2> QED BY <1>1, <1>2, <2>2, <2>3, <2>6, <2>7, <2>8, WorkerKeeps
<1> QED BY <1>4, <1>5 DEF ResolveTitle, Stop

LEMMA CheckpointedFields ==
  ASSUME NEW t \in Titles, pending \in Generation
  PROVE  LET new == Checkpointed(t) IN
         /\ new \in Generation /\ new.id = pending.id /\ new.state = pending.state
         /\ new.titles = pending.titles /\ new.done = pending.done \cup {t}
         /\ new.total = pending.total /\ new.completed = pending.completed + 1
         /\ new.src = pending.src
<1> DEFINE done == pending.done \cup {t}
<1> DEFINE completed == pending.completed + 1
<1>1. done \in SUBSET Titles /\ completed \in Nat
  BY DEF Generation
<1>2. Checkpointed(t) = [pending EXCEPT !.done = done, !.completed = completed]
  BY DEF Checkpointed
<1> HIDE DEF done, completed
<1> DEFINE new == [pending EXCEPT !.done = done, !.completed = completed]
<1>3. new \in Generation
  BY <1>1 DEF Generation
<1>4. /\ new.id = pending.id /\ new.state = pending.state /\ new.titles = pending.titles
      /\ new.total = pending.total /\ new.done = done /\ new.completed = completed
      /\ new.src = pending.src
  BY DEF Generation
<1> QED BY <1>2, <1>3, <1>4 DEF done, completed

(* An outcome is added for a title that had none, and counted.               *)
LEMMA CheckpointedOK ==
  ASSUME IInv, NEW p \in Processes, NEW g \in GenID, worker[p][g].pc = "checkpoint",
         Working(p, g), Enriching(g), pending # None
  PROVE  LET new == Checkpointed(worker[p][g].title) IN
         /\ FileOK(active, new)
         /\ new.id = g /\ new.state = "enriching" /\ new.titles = pending.titles
         /\ new.done = pending.done \cup {worker[p][g].title}
<1> DEFINE t == worker[p][g].title
<1> DEFINE new == Checkpointed(t)
<1>1. pending \in Generation /\ pending.state = "enriching" /\ pending.id = g
  BY DEF Enriching, IdOf, IInv, TypeOK
<1>2. t \in pending.titles \ pending.done
  BY DEF IInv, WorkersOK, TodoLeft, TodoLeftFor
<1>3. pending.titles \in SUBSET Titles /\ pending.done \in SUBSET Titles
  BY <1>1 DEF Generation
<1>4. IsFiniteSet(pending.done)
  BY <1>3, FiniteAssumption, FS_Subset
<1>5. Cardinality(pending.done \cup {t}) = Cardinality(pending.done) + 1
  BY <1>2, <1>4, FS_AddElement
<1> HIDE DEF t
<1>6. /\ new \in Generation /\ new.id = g /\ new.state = "enriching"
      /\ new.titles = pending.titles /\ new.done = pending.done \cup {t}
      /\ new.total = pending.total /\ new.completed = pending.completed + 1
      /\ new.src = pending.src
  BY <1>1, <1>2, <1>3, CheckpointedFields
<1> HIDE DEF new
<1>7. CountsAgree(pending)
  BY DEF IInv, FileOK
<1>8. CountsAgree(new)
  BY <1>1, <1>2, <1>5, <1>6, <1>7 DEF SourceOf, CountsAgree
<1>9. SourceOf(active, new)
  BY <1>1, <1>6 DEF IInv, FileOK, SourceOf
<1>10. FileOK(active, new)
  BY <1>6, <1>8, <1>9 DEF IInv, FileOK, Local
<1> QED BY <1>6, <1>10 DEF new, t

LEMMA CheckpointKeeps ==
  ASSUME IInv, NEW p \in Processes, NEW g \in GenID, Checkpoint(p, g)
  PROVE  IInv'
<1>1. worker[p][g].pc = "checkpoint" /\ WorkerFrame /\ worker[p][g] \in Worker
  BY DEF Checkpoint, IInv, TypeOK
<1>2. CASE Unopened(p, g) \/ Missing(p, g)
  BY <1>1, <1>2, UnopenedKeeps DEF AtWork
<1> DEFINE new == Checkpointed(worker[p][g].title)
<1>3. ASSUME NEW ok \in BOOLEAN, ~worker[p][g].cancelled, Enriching(g), Opened,
             Save(active, new, ok), Go(p, g, IF ok THEN "lookup" ELSE "fail")
      PROVE  IInv'
  <2>1. Working(p, g) /\ pending # None
    BY <1>1, <1>3, NoneAssumption DEF Working, Enriching, IdOf
  <2>2. /\ FileOK(active, new) /\ new.id = g /\ new.state = "enriching"
        /\ new.titles = pending.titles /\ new.done = pending.done \cup {worker[p][g].title}
    BY <1>1, <1>3, <2>1, CheckpointedOK
  <2>3. FileOK(active', pending') /\ faults' \in 0..MaxFaults
    BY <1>3, <2>2, SavedOK, SavedFaults DEF IInv, TypeOK
  <2> HIDE DEF new
  <2>4. (active' = active /\ pending' = pending) \/ (active' = active /\ pending' = new)
    BY <1>3, SaveOutcome
  <2>5. IdOf(new) \in {g, None} /\ IdOf(pending) = g
    BY <1>3, <2>2 DEF IdOf, Enriching
  <2>6. PendingFollows(p, g) /\ IdOf(active') \in {IdOf(active), IdOf(pending), None}
    BY <1>3, <2>1, <2>4, <2>5 DEF PendingFollows, IdOf
  <2>7. root' \in BOOLEAN
    BY <1>3 DEF Opened
  <2>8. CASE ~ok
    <3>1. Go(p, g, "fail") /\ "fail" \in WorkerSteps
      BY <1>3, <2>8 DEF WorkerSteps
    <3> QED BY <1>1, <2>3, <2>6, <2>7, <3>1, GoFollows, WorkerKeeps DEF AtWork
  <2>9. CASE ok
    <3> DEFINE w == [worker[p][g] EXCEPT !.pc = "lookup"]
    <3>1. /\ w \in Worker /\ w.pc = "lookup" /\ w.lease = worker[p][g].lease
          /\ w.cancelled = worker[p][g].cancelled /\ w.todo = worker[p][g].todo
      BY <1>1 DEF Worker, WorkerSteps
    <3>2. Becomes(p, g, w)
      BY <1>3, <2>9 DEF Go
    <3> HIDE DEF w
    <3>3. Following(worker[p][g], w)
      BY <1>1, <3>1 DEF Following, AtWork
    <3>4. worker'[p][g] = w
      BY <3>1, <3>2, BecomesTyped DEF IInv, TypeOK
    <3>5. pending' = new
      BY <1>3, <2>9 DEF Save
    <3>6. /\ worker[p][g].todo \subseteq pending.titles \ pending.done
          /\ worker[p][g].title \notin worker[p][g].todo
      BY <1>1, <1>3, <2>1 DEF IInv, WorkersOK, TodoLeft, TodoLeftFor
    <3>7. TodoLeftFor(p, g)'
      BY <2>2, <3>1, <3>4, <3>5, <3>6 DEF TodoLeftFor
    <3> QED BY <1>1, <2>3, <2>6, <2>7, <3>2, <3>3, <3>7, WorkerKeeps
  <2> QED BY <2>8, <2>9
<1> QED BY <1>2, <1>3 DEF Checkpoint

(* Equal counters mean that every title has an outcome.                      *)
LEMMA CompletedOK ==
  ASSUME IInv, NEW g \in GenID, Enriching(g), pending # None,
         pending.completed = pending.total
  PROVE  LET new == [pending EXCEPT !.state = "ready"] IN
         FileOK(new, None) /\ new.id = g
<1> DEFINE new == [pending EXCEPT !.state = "ready"]
<1>1. pending \in Generation /\ pending.state = "enriching" /\ pending.id = g
  BY DEF Enriching, IdOf, IInv, TypeOK
<1>2. /\ pending.done \subseteq pending.titles
      /\ Cardinality(pending.done) = Cardinality(pending.titles)
  BY <1>1 DEF IInv, FileOK, SourceOf, CountsAgree
<1>3. IsFiniteSet(pending.titles)
  BY <1>1, FiniteAssumption, FS_Subset DEF Generation
<1>4. pending.done = pending.titles
  BY <1>2, <1>3, FS_Subset
<1>5. new \in Generation /\ new.id = g /\ new.done = pending.done /\ new.titles = pending.titles
  BY <1>1 DEF Generation, States
<1> HIDE DEF new
<1>6. FileOK(new, None)
  BY <1>4, <1>5 DEF FileOK, SourceOf, CountsAgree, Local, Complete
<1> QED BY <1>5, <1>6 DEF new

LEMMA CompleteKeeps ==
  ASSUME IInv, NEW p \in Processes, NEW g \in GenID, CompleteEnrichment(p, g)
  PROVE  IInv'
<1>1. worker[p][g].pc = "complete" /\ WorkerFrame
  BY DEF CompleteEnrichment
<1>2. CASE Unopened(p, g) \/ Missing(p, g)
  BY <1>1, <1>2, UnopenedKeeps DEF AtWork
<1>3. {"release", "fail"} \subseteq WorkerSteps
  BY DEF WorkerSteps
<1>4. CASE Opened /\ Go(p, g, "fail") /\ UNCHANGED <<file, faults>>
  BY <1>1, <1>3, <1>4, LeavesKeeps DEF AtWork, Opened
<1> DEFINE new == [pending EXCEPT !.state = "ready"]
<1>5. ASSUME NEW ok \in BOOLEAN, ~worker[p][g].cancelled, Enriching(g), Opened,
             pending.completed = pending.total,
             Save(new, None, ok), Go(p, g, IF ok THEN "release" ELSE "fail")
      PROVE  IInv'
  <2>1. pending # None /\ IdOf(pending) = g
    BY <1>5, NoneAssumption DEF Enriching, IdOf
  <2>2. FileOK(new, None) /\ new.id = g
    BY <1>5, <2>1, CompletedOK
  <2>3. FileOK(active', pending') /\ faults' \in 0..MaxFaults
    BY <1>5, <2>2, SavedOK, SavedFaults DEF IInv, TypeOK
  <2> HIDE DEF new
  <2>4. (active' = active /\ pending' = pending) \/ (active' = new /\ pending' = None)
    BY <1>5, SaveOutcome
  <2>5. PendingFollows(p, g) /\ IdOf(active') \in {IdOf(active), IdOf(pending), None}
    BY <2>1, <2>2, <2>4 DEF PendingFollows, IdOf
  <2>6. root' \in BOOLEAN
    BY <1>5 DEF Opened
  <2>7. CASE ok
    <3>1. Go(p, g, "release")
      BY <1>5, <2>7
    <3> QED BY <1>1, <1>3, <2>3, <2>5, <2>6, <3>1, GoFollows, WorkerKeeps DEF AtWork
  <2>8. CASE ~ok
    <3>1. Go(p, g, "fail")
      BY <1>5, <2>8
    <3> QED BY <1>1, <1>3, <2>3, <2>5, <2>6, <3>1, GoFollows, WorkerKeeps DEF AtWork
  <2> QED BY <2>7, <2>8
<1> QED BY <1>2, <1>4, <1>5 DEF CompleteEnrichment

LEMMA FailKeeps ==
  ASSUME IInv, NEW p \in Processes, NEW g \in GenID, FailEnrichment(p, g)
  PROVE  IInv'
<1>1. worker[p][g].pc = "fail" /\ Go(p, g, "release") /\ WorkerFrame
  BY DEF FailEnrichment
<1>2. "release" \in WorkerSteps
  BY DEF WorkerSteps
<1>3. CASE UNCHANGED <<file, faults>> /\ root' \in BOOLEAN
  BY <1>1, <1>2, <1>3, LeavesKeeps DEF AtWork
<1>4. ASSUME NEW ok \in BOOLEAN, Opened, Enriching(g), Save(active, Discarded, ok)
      PROVE  IInv'
  <2> DEFINE new == [pending EXCEPT !.state = "failed", !.titles = {}, !.done = {}]
  <2>1. pending # None /\ IdOf(pending) = g /\ pending \in Generation /\ pending.id = g
    BY <1>4, NoneAssumption DEF Enriching, IdOf, IInv, TypeOK
  <2>2. new \in Generation /\ new.id = g /\ new.state = "failed"
    BY <2>1 DEF Generation, States
  <2>3. Save(active, new, ok)
    BY <1>4 DEF Discarded
  <2> HIDE DEF new
  <2>4. FileOK(active, new)
    BY <2>2 DEF IInv, FileOK, SourceOf, CountsAgree, Local
  <2>5. FileOK(active', pending') /\ faults' \in 0..MaxFaults
    BY <2>3, <2>4, SavedOK, SavedFaults DEF IInv, TypeOK
  <2>6. (active' = active /\ pending' = pending) \/ (active' = active /\ pending' = new)
    BY <2>3, SaveOutcome
  <2>7. PendingFollows(p, g) /\ IdOf(active') \in {IdOf(active), IdOf(pending), None}
    BY <2>1, <2>2, <2>6 DEF PendingFollows, IdOf
  <2>8. root' \in BOOLEAN
    BY <1>4 DEF Opened
  <2> QED BY <1>1, <1>2, <2>5, <2>7, <2>8, GoFollows, WorkerKeeps DEF AtWork
<1>5. root \in BOOLEAN
  BY DEF IInv, TypeOK
<1> QED BY <1>3, <1>4, <1>5 DEF FailEnrichment, Opened

LEMMA EndKeeps ==
  ASSUME IInv, NEW p \in Processes, NEW g \in GenID, Release(p, g) \/ Forget(p, g)
  PROVE  IInv'
<1>1. /\ worker[p][g] \in Worker /\ worker[p][g].pc \in {"release", "forget"}
      /\ WorkerFrame /\ active' = active /\ pending' = pending
      /\ faults' = faults /\ root' = root
  BY DEF Release, Forget, file, IInv, TypeOK
<1>2. FileOK(active', pending') /\ faults' \in 0..MaxFaults /\ root' \in BOOLEAN
  BY <1>1 DEF IInv, TypeOK, FileOK, SourceOf, CountsAgree, Local, Complete
<1>3. PendingFollows(p, g) /\ IdOf(active') \in {IdOf(active), IdOf(pending), None}
  BY <1>1 DEF PendingFollows, IdOf
<1> DEFINE released == [worker[p][g] EXCEPT !.pc = "forget", !.lease = FALSE]
<1>4. released \in Worker /\ released.pc = "forget" /\ ~released.lease
  BY <1>1 DEF Worker, WorkerSteps
<1>5. Idle.pc = "idle" /\ ~Idle.lease /\ Idle \in Worker
  BY IdleTyped DEF Idle
<1>6. Becomes(p, g, released) \/ Becomes(p, g, Idle)
  BY DEF Release, Forget
<1> HIDE DEF released
<1>7. ASSUME NEW w \in Worker, w.pc \in {"idle", "forget"}, ~w.lease, Becomes(p, g, w)
      PROVE  IInv'
  <2>1. Following(worker[p][g], w)
    BY <1>1, <1>7 DEF Following, AtWork
  <2>2. worker'[p][g] = w
    BY <1>7, BecomesTyped DEF IInv, TypeOK
  <2>3. TodoLeftFor(p, g)'
    BY <1>7, <2>2 DEF TodoLeftFor
  <2> QED BY <1>1, <1>2, <1>3, <1>7, <2>1, <2>3, WorkerKeeps
<1> QED BY <1>4, <1>5, <1>6, <1>7
-----------------------------------------------------------------------------
(***************************************************************************)
(* Processes.                                                              *)
(***************************************************************************)
LEMMA ProcessKeeps ==
  ASSUME IInv, ProcessFrame, live' \in [Processes -> {"up", "closing", "down"}],
         stops' \in 0..MaxStops, worker' \in [Processes -> [GenID -> Worker]],
         \A q \in Processes, h \in GenID : Tamed(q, h) /\ SamePlace(q, h)
  PROVE  IInv'
<1>1. /\ active' = active /\ pending' = pending /\ root' = root
      /\ used' = used /\ faults' = faults
  BY DEF ProcessFrame, file
<1>2. TypeOK'
  BY <1>1 DEF IInv, TypeOK
<1>3. FileOK(active', pending')
  BY <1>1 DEF IInv, FileOK, SourceOf, CountsAgree, Local, Complete
<1>4. StoredDrawn' /\ NoOlder /\ PendingSettled
  BY <1>1 DEF IInv, WorkersOK, StoredDrawn, NoOlder, PendingSettled, IdOf
<1>5. WorkersOK'
  BY <1>1, <1>4, TameStep, SettledStep DEF IInv
<1> QED BY <1>2, <1>3, <1>5 DEF IInv

LEMMA CloseKeeps == ASSUME IInv, NEW p \in Processes, Close(p) PROVE IInv'
<1>1. /\ Cancel(p, GenID) /\ ProcessFrame
      /\ live' = [live EXCEPT ![p] = "closing"] /\ stops' = stops + 1 /\ stops < MaxStops
  BY DEF Close
<1>2. stops' \in 0..MaxStops /\ live' \in [Processes -> {"up", "closing", "down"}]
  BY <1>1, BoundsAssumption DEF IInv, TypeOK
<1> QED BY <1>1, <1>2, CancelTyped, ProcessKeeps DEF IInv

LEMMA ClosedKeeps ==
  ASSUME IInv, NEW p \in Processes, Closed(p) \/ Restart(p)
  PROVE  IInv'
<1>1. ProcessFrame /\ UNCHANGED worker /\ stops' = stops
  BY DEF Closed, Restart
<1>2. live' \in [Processes -> {"up", "closing", "down"}]
  BY DEF Closed, Restart, IInv, TypeOK
<1>3. stops' \in 0..MaxStops /\ worker' \in [Processes -> [GenID -> Worker]]
  BY <1>1 DEF IInv, TypeOK
<1> QED BY <1>1, <1>2, <1>3, UnchangedTame, ProcessKeeps

LEMMA CrashKeeps == ASSUME IInv, NEW p \in Processes, Crash(p) PROVE IInv'
<1>1. /\ worker' = [q \in Processes |-> IF q = p THEN [g \in GenID |-> Idle] ELSE worker[q]]
      /\ live' = [live EXCEPT ![p] = "down"] /\ ProcessFrame
      /\ stops' = stops + 1 /\ stops < MaxStops
  BY DEF Crash
<1>2. stops' \in 0..MaxStops /\ live' \in [Processes -> {"up", "closing", "down"}]
  BY <1>1, BoundsAssumption DEF IInv, TypeOK
<1>3. worker' \in [Processes -> [GenID -> Worker]]
  BY <1>1, IdleTyped DEF IInv, TypeOK
<1>4. ASSUME NEW q \in Processes, NEW h \in GenID
      PROVE  Tamed(q, h) /\ SamePlace(q, h)
  <2>1. CASE q = p
    <3>1. worker'[q][h] = Idle
      BY <1>1, <2>1
    <3>2. Idle.pc = "idle" /\ ~Idle.lease
      BY DEF Idle
    <3> QED BY <3>1, <3>2 DEF Tamed, SamePlace, Working
  <2>2. CASE q # p
    <3>1. worker'[q][h] = worker[q][h]
      BY <1>1, <2>2
    <3> QED BY <3>1 DEF Tamed, SamePlace, Working
  <2> QED BY <2>1, <2>2
<1> QED BY <1>1, <1>2, <1>3, <1>4, ProcessKeeps

-----------------------------------------------------------------------------
(***************************************************************************)
(* The theorems.                                                           *)
(***************************************************************************)
LEMMA InitInvariant == Init => IInv
<1> SUFFICES ASSUME Init PROVE IInv
  OBVIOUS
<1>1. /\ active = None /\ pending = None /\ used = {} /\ root = FALSE
      /\ worker = [p \in Processes |-> [g \in GenID |-> Idle]]
      /\ live = [p \in Processes |-> "up"] /\ faults = 0 /\ stops = 0
  BY DEF Init
<1>2. TypeOK
  <2>1. worker \in [Processes -> [GenID -> Worker]]
    BY <1>1, IdleTyped
  <2>2. live \in [Processes -> {"up", "closing", "down"}]
    BY <1>1
  <2>3. faults \in 0..MaxFaults /\ stops \in 0..MaxStops
    BY <1>1, BoundsAssumption
  <2> QED BY <1>1, <2>1, <2>2, <2>3 DEF TypeOK
<1>3. FileOK(active, pending)
  BY <1>1 DEF FileOK, SourceOf, CountsAgree, Local, Complete
<1>4. \A p \in Processes, g \in GenID :
        /\ worker[p][g].pc = "idle" /\ ~worker[p][g].lease /\ ~Working(p, g)
  BY <1>1 DEF Idle, Working
<1>5. WorkersOK
  BY <1>1, <1>4 DEF WorkersOK, StoredDrawn, WorkedDrawn, LeaseUnique, LeaseHeld,
                    OneWorker, TodoLeft, TodoLeftFor, IdOf
<1> QED BY <1>2, <1>3, <1>5 DEF IInv

LEMMA LookKeeps == ASSUME IInv, NEW p \in Processes, Look(p) PROVE IInv'
<1>1. /\ Serving(p) /\ active' = active /\ pending' = pending /\ UNCHANGED worker
      /\ used' = used /\ faults' = faults
  BY DEF Look, file
<1>2. FileOK(active', pending')
  BY <1>1 DEF IInv, FileOK, SourceOf, CountsAgree, Local, Complete
<1>3. NoOlder /\ PendingSettled /\ StoredDrawn'
  BY <1>1 DEF NoOlder, PendingSettled, IInv, WorkersOK, StoredDrawn, IdOf
<1> QED BY <1>1, <1>2, <1>3, UnchangedTame, QuietRequest DEF IInv, TypeOK

LEMMA RequestKeeps == ASSUME IInv, NEW p \in Processes, Request(p) PROVE IInv'
<1>1. CASE Upload(p)
  BY <1>1, UploadKeeps
<1>2. CASE ResumeEnrichment(p)
  BY <1>2, ResumeKeeps
<1>3. CASE DeleteProvider(p)
  BY <1>3, DeleteProviderKeeps
<1>4. CASE DeleteUser(p)
  BY <1>4, DeleteUserKeeps
<1>5. CASE \E sel \in SUBSET Titles : Select(p, sel)
  BY <1>5, SelectKeeps
<1>6. ASSUME NEW g \in GenID, Create(p, g)
      PROVE  IInv'
  BY <1>6, CreateKeeps
<1>7. ASSUME NEW g \in GenID, DeleteGeneration(p, g)
      PROVE  IInv'
  BY <1>7, DeleteGenerationKeeps
<1>8. ASSUME NEW g \in GenID, NEW l \in Locales, BeginEnrichment(p, g, l)
      PROVE  IInv'
  BY <1>8, BeginKeeps
<1>9. CASE Look(p)
  BY <1>9, LookKeeps
<1> QED BY <1>1, <1>2, <1>3, <1>4, <1>5, <1>6, <1>7, <1>8, <1>9 DEF Request

LEMMA RunKeeps ==
  ASSUME IInv, NEW p \in Processes, NEW g \in GenID, Run(p, g)
  PROVE  IInv'
  BY RecordsKeep, ResolveKeeps, CheckpointKeeps, CompleteKeeps, FailKeeps, EndKeeps DEF Run

LEMMA StepInvariant == IInv /\ [Next]_vars => IInv'
<1> SUFFICES ASSUME IInv, [Next]_vars PROVE IInv'
  OBVIOUS
<1>1. ASSUME NEW p \in Processes, Request(p)
      PROVE  IInv'
  BY <1>1, RequestKeeps
<1>2. ASSUME NEW p \in Processes, Process(p)
      PROVE  IInv'
  BY <1>2, CloseKeeps, ClosedKeeps, CrashKeeps DEF Process
<1>3. ASSUME NEW p \in Processes, NEW g \in GenID, Run(p, g)
      PROVE  IInv'
  BY <1>3, RunKeeps
<1>4. CASE UNCHANGED vars
  <2>1. ProcessFrame /\ UNCHANGED worker /\ live' = live /\ stops' = stops
    BY <1>4 DEF vars, ProcessFrame, file
  <2> QED BY <2>1, UnchangedTame, ProcessKeeps DEF IInv, TypeOK
<1> QED BY <1>1, <1>2, <1>3, <1>4 DEF Next

LEMMA InvariantHolds == Spec => []IInv
  BY InitInvariant, StepInvariant, PTL DEF Spec

(* The state file, the workers and the counters always have their types: a  *)
(* stored generation is well formed whatever failed, crashed or raced.      *)
THEOREM PrimeTyped == Spec => []TypeOK
<1>1. IInv => TypeOK
  BY DEF IInv
<1> QED BY <1>1, InvariantHolds, PTL

(* The counters that Checkpoint adds to one by one always agree with the    *)
(* outcomes stored, so CompleteEnrichment, which compares only counters,    *)
(* makes active what has an outcome for every title.                        *)
THEOREM OutcomesCounted == Spec => []Counted
<1>1. IInv => Counted
  BY DEF IInv, FileOK, SourceOf, CountsAgree, Complete, Counted
<1> QED BY <1>1, InvariantHolds, PTL

(* The worker lease of the user's directory keeps the workers of all        *)
(* processes apart, also when that directory is deleted and made again.     *)
THEOREM WorkersApart == Spec => []OneWorker
<1>1. IInv => OneWorker
  BY DEF IInv, WorkersOK
<1> QED BY <1>1, InvariantHolds, PTL

(* A title that has an outcome is not queried again by a worker that works  *)
(* on the pending enrichment, whatever was cancelled or resumed before.     *)
THEOREM QueriedOnce == Spec => []NoRepeatedQuery
<1>1. ASSUME IInv PROVE NoRepeatedQuery
  BY <1>1 DEF IInv, WorkersOK, TodoLeft, TodoLeftFor, NoRepeatedQuery
<1>2. IInv => NoRepeatedQuery
  BY <1>1
<1> QED BY <1>2, InvariantHolds, PTL

(* What makes an enriched generation active is the completion of the        *)
(* enrichment of the generation it replaces.                                *)
LEMMA OthersActivateNone ==
  ASSUME IInv, NEW p \in Processes,
         \/ Request(p) \/ Process(p)
         \/ \E g \in GenID : Run(p, g) /\ ~CompleteEnrichment(p, g)
  PROVE  active' = active \/ active' = None \/ active'.locale = None
<1>1. ASSUME NEW q, NEW ok, Save(active, q, ok)
      PROVE  active' = active
  BY <1>1, SaveOutcome
<1>2. ASSUME NEW q, NEW ok, Save(None, q, ok)
      PROVE  active' \in {active, None}
  BY <1>2, SaveOutcome
<1>3. CASE \E sel \in SUBSET Titles : Select(p, sel)
  <2>1. PICK sel \in SUBSET Titles, ok \in BOOLEAN :
          \/ Save(active, None, ok)
          \/ Save([pending EXCEPT !.state = "ready", !.titles = sel], None, ok)
    BY <1>3 DEF Select
  <2> DEFINE new == [pending EXCEPT !.state = "ready", !.titles = sel]
  <2>2. pending \in Generation /\ pending # None /\ pending.state = "awaiting_confirmation"
    BY <1>3 DEF Select, IInv, TypeOK
  <2>3. new.locale = None
    BY <2>2 DEF IInv, FileOK, Local, Generation
  <2>4. active' = active \/ active' = new
    BY <2>1, SaveOutcome
  <2> QED BY <2>3, <2>4
<1>4. CASE Look(p) \/ Upload(p) \/ ResumeEnrichment(p)
  BY <1>1, <1>4 DEF Look, Upload, ResumeEnrichment, file
<1>5. CASE DeleteProvider(p) \/ DeleteUser(p)
  BY <1>2, <1>5 DEF DeleteProvider, DeleteUser
<1>6. ASSUME NEW g \in GenID,
             Create(p, g) \/ DeleteGeneration(p, g) \/ \E l \in Locales : BeginEnrichment(p, g, l)
      PROVE  active' = active
  <2>1. CASE Create(p, g)
    BY <1>1, <2>1 DEF Create
  <2>2. CASE DeleteGeneration(p, g)
    BY <1>1, <2>2 DEF DeleteGeneration, file
  <2>3. CASE \E l \in Locales : BeginEnrichment(p, g, l)
    BY <1>1, <2>3 DEF BeginEnrichment
  <2> QED BY <1>6, <2>1, <2>2, <2>3
<1>7. CASE Process(p)
  BY <1>7 DEF Process, Close, Closed, Crash, Restart, ProcessFrame, file
<1>8. ASSUME NEW g \in GenID, Run(p, g), ~CompleteEnrichment(p, g)
      PROVE  active' = active
  <2>1. CASE EnrichmentRecords(p, g)
    BY <2>1 DEF EnrichmentRecords, Unopened, Missing, file
  <2>2. CASE ResolveTitle(p, g) \/ Release(p, g) \/ Forget(p, g)
    BY <2>2 DEF ResolveTitle, Release, Forget, file
  <2>3. CASE Checkpoint(p, g)
    BY <1>1, <2>3 DEF Checkpoint, Unopened, Missing, file
  <2>4. CASE FailEnrichment(p, g)
    BY <1>1, <2>4 DEF FailEnrichment, file
  <2> QED BY <1>8, <2>1, <2>2, <2>3, <2>4 DEF Run
<1> QED BY <1>3, <1>4, <1>5, <1>6, <1>7, <1>8 DEF Request

LEMMA CompletionReplaces ==
  ASSUME IInv, NEW p \in Processes, NEW g \in GenID, CompleteEnrichment(p, g)
  PROVE  SourceReplaced
<1>1. CASE active' = active
  BY <1>1 DEF SourceReplaced
<1>2. CASE active' # active
  <2> DEFINE new == [pending EXCEPT !.state = "ready"]
  <2>1. PICK ok \in BOOLEAN : Enriching(g) /\ Save(new, None, ok)
    BY <1>2 DEF CompleteEnrichment, Unopened, Missing, file
  <2>2. active' = new
    BY <1>2, <2>1, SaveOutcome
  <2>3. /\ pending \in Generation /\ pending # None
        /\ pending.state = "enriching" /\ pending.id = g
    BY <2>1, NoneAssumption DEF Enriching, IdOf, IInv, TypeOK
  <2>4. new.id = g /\ new.src = pending.src
    BY <2>3 DEF Generation
  <2>5. active # None /\ pending.src = active.id
    BY <2>3 DEF IInv, FileOK, SourceOf
  <2> HIDE DEF new
  <2> QED BY <2>2, <2>3, <2>4, <2>5 DEF SourceReplaced, IdOf
<1> QED BY <1>1, <1>2

LEMMA StepReplaces == IInv /\ [Next]_vars => [SourceReplaced]_vars
<1> SUFFICES ASSUME IInv, Next PROVE SourceReplaced
  OBVIOUS
<1>1. PICK p \in Processes : Request(p) \/ Process(p) \/ \E g \in GenID : Run(p, g)
  BY DEF Next
<1>2. CASE \E g \in GenID : CompleteEnrichment(p, g)
  BY <1>2, CompletionReplaces
<1>3. CASE ~ \E g \in GenID : CompleteEnrichment(p, g)
  BY <1>1, <1>3, OthersActivateNone DEF SourceReplaced
<1> QED BY <1>2, <1>3

(* An enriched generation replaces the very generation it was made from,    *)
(* even when others were imported, selected or deleted while it was made.   *)
THEOREM SourcesReplaced == Spec => ReplacesItsSource
  BY InvariantHolds, StepReplaces, PTL DEF Spec, ReplacesItsSource

-----------------------------------------------------------------------------
(***************************************************************************)
(* A worker that was cancelled with the directory does not make it again.  *)
(***************************************************************************)
(* A worker that runs does not begin to work, and leaves nothing of itself. *)
Led(p, g, w) ==
  /\ w \in Worker /\ Becomes(p, g, w)
  /\ ~w.cancelled /\ w.pc \notin {"idle", "release", "forget"} => Working(p, g)
  /\ w.pc = "idle" => w = Idle

LEMMA RunLeads ==
  ASSUME IInv, NEW p \in Processes, NEW g \in GenID, Run(p, g)
  PROVE  \E w : Led(p, g, w)
<1> DEFINE v == worker[p][g]
<1>1. v \in Worker
  BY DEF IInv, TypeOK
<1>3. ASSUME NEW pc \in WorkerSteps, Go(p, g, pc), v.pc \in AtWork, pc # "idle"
      PROVE  \E w : Led(p, g, w)
  <2> DEFINE w == [v EXCEPT !.pc = pc]
  <2>1. w \in Worker /\ w.cancelled = v.cancelled /\ w.pc = pc
    BY <1>1 DEF Worker
  <2>2. Becomes(p, g, w)
    BY <1>3 DEF Go
  <2> HIDE DEF w
  <2>3. Led(p, g, w)
    BY <1>3, <2>1, <2>2 DEF Working, AtWork, Led
  <2> QED BY <2>3
<1>4. {"lookup", "checkpoint", "complete", "fail", "release", "forget"} \subseteq WorkerSteps
  BY DEF WorkerSteps
<1>5. CASE EnrichmentRecords(p, g)
  <2>1. v.pc = "read"
    BY <1>5 DEF EnrichmentRecords
  <2>2. CASE \E pc \in {"fail", "release"} : Go(p, g, pc)
    BY <1>3, <1>4, <2>1, <2>2 DEF AtWork
  <2>3. CASE ~v.cancelled /\ Becomes(p, g, [v EXCEPT !.pc = "lookup",
                                                      !.todo = pending.titles \ pending.done])
              /\ Enriching(g)
    <3>1. pending \in Generation
      BY <2>3, NoneAssumption DEF Enriching, IdOf, IInv, TypeOK
    <3>2. [v EXCEPT !.pc = "lookup", !.todo = pending.titles \ pending.done] \in Worker
      BY <1>1, <3>1 DEF Worker, WorkerSteps, Generation
    <3>3. Led(p, g, [v EXCEPT !.pc = "lookup", !.todo = pending.titles \ pending.done])
      BY <2>1, <2>3, <3>2 DEF Working, Led
    <3> QED BY <3>3
  <2> QED BY <1>5, <2>2, <2>3 DEF EnrichmentRecords, Unopened, Missing, Stop
<1>6. CASE ResolveTitle(p, g)
  <2>1. v.pc = "lookup"
    BY <1>6 DEF ResolveTitle
  <2>2. CASE \E pc \in {"complete", "fail", "release"} : Go(p, g, pc)
    BY <1>3, <1>4, <2>1, <2>2 DEF AtWork
  <2>3. ASSUME NEW t \in v.todo,
               Becomes(p, g, [v EXCEPT !.pc = "checkpoint", !.title = t, !.todo = @ \ {t}])
        PROVE  \E w : Led(p, g, w)
    <3> DEFINE w == [v EXCEPT !.pc = "checkpoint", !.title = t, !.todo = @ \ {t}]
    <3>1. w \in Worker /\ w.cancelled = v.cancelled /\ w.pc = "checkpoint"
      BY <1>1 DEF Worker, WorkerSteps
    <3>2. Becomes(p, g, w)
      BY <2>3
    <3> HIDE DEF w
    <3>3. Led(p, g, w)
      BY <2>1, <3>1, <3>2 DEF Working, Led
    <3> QED BY <3>3
  <2> QED BY <1>6, <2>2, <2>3 DEF ResolveTitle, Stop
<1>7. CASE Checkpoint(p, g)
  <2>1. v.pc \in AtWork /\ \E pc \in {"lookup", "fail", "release"} : Go(p, g, pc)
    BY <1>7 DEF Checkpoint, Unopened, Missing, Stop, AtWork
  <2> QED BY <1>3, <1>4, <2>1
<1>8. CASE CompleteEnrichment(p, g)
  <2>1. v.pc \in AtWork /\ \E pc \in {"fail", "release"} : Go(p, g, pc)
    BY <1>8 DEF CompleteEnrichment, Unopened, Missing, Stop, AtWork
  <2> QED BY <1>3, <1>4, <2>1
<1>9. CASE FailEnrichment(p, g)
  <2>1. v.pc \in AtWork /\ Go(p, g, "release")
    BY <1>9 DEF FailEnrichment, AtWork
  <2> QED BY <1>3, <1>4, <2>1
<1>10. CASE Release(p, g)
  <2> DEFINE w == [v EXCEPT !.pc = "forget", !.lease = FALSE]
  <2>1. w \in Worker /\ w.pc = "forget" /\ Becomes(p, g, w)
    BY <1>1, <1>10 DEF Worker, WorkerSteps, Release
  <2> HIDE DEF w
  <2>2. Led(p, g, w)
    BY <2>1 DEF Led
  <2> QED BY <2>2
<1>11. CASE Forget(p, g)
  <2>1. Led(p, g, Idle)
    BY <1>11, IdleTyped DEF Forget, Idle, Led
  <2> QED BY <2>1
<1> QED BY <1>5, <1>6, <1>7, <1>8, <1>9, <1>10, <1>11 DEF Run

(* A job that is not there is not cancelled either.                         *)
IdleFresh ==
  \A p \in Processes, g \in GenID : worker[p][g].pc = "idle" => ~worker[p][g].cancelled

(* A step that takes a worker away leaves no trace of it, and cancels none   *)
(* that is not there.                                                       *)
Traceless(p, g) ==
  worker'[p][g].pc = "idle" =>
    \/ ~worker'[p][g].cancelled
    \/ worker[p][g].pc = "idle" /\ worker[p][g].cancelled

LEMMA CancelTraceless ==
  ASSUME TypeOK, NEW p \in Processes, NEW S \in SUBSET GenID, Cancel(p, S)
  PROVE  \A q \in Processes, h \in GenID :
           /\ Traceless(q, h)
           /\ worker[q][h].cancelled => worker'[q][h] = worker[q][h]
<1> SUFFICES ASSUME NEW q \in Processes, NEW h \in GenID
             PROVE  /\ Traceless(q, h)
                    /\ worker[q][h].cancelled => worker'[q][h] = worker[q][h]
  OBVIOUS
<1> DEFINE v == worker[q][h]
<1>1. v \in Worker
  BY DEF TypeOK
<1>2. worker'[q][h] = v \/ (v.pc # "idle" /\ worker'[q][h] = [v EXCEPT !.cancelled = TRUE])
  BY DEF Cancel, Cancelled
<1>3. CASE worker'[q][h] = v
  BY <1>3 DEF Traceless
<1>4. CASE v.pc # "idle" /\ worker'[q][h] = [v EXCEPT !.cancelled = TRUE]
  <2>1. [v EXCEPT !.cancelled = TRUE].pc = v.pc
    BY <1>1 DEF Worker
  <2>2. v.cancelled => [v EXCEPT !.cancelled = TRUE] = v
    BY <1>1 DEF Worker
  <2> QED BY <1>4, <2>1, <2>2 DEF Traceless
<1> QED BY <1>2, <1>3, <1>4

LEMMA StartTraceless ==
  ASSUME TypeOK, IdleFresh, NEW p \in Processes, NEW g \in GenID, StartOrRefuse(p, g)
  PROVE  \A q \in Processes, h \in GenID :
           /\ Traceless(q, h)
           /\ worker[q][h].cancelled => worker'[q][h] = worker[q][h]
<1>1. CASE UNCHANGED worker
  BY <1>1 DEF Traceless
<1>2. CASE worker[p][g].pc = "idle" /\ Becomes(p, g, Started)
  <2>1. Started \in Worker /\ Started.pc = "read"
    BY IdleTyped DEF Started, Idle
  <2>2. \A q \in Processes, h \in GenID :
          worker'[q][h] = IF q = p /\ h = g THEN Started ELSE worker[q][h]
    BY <1>2, <2>1, BecomesTyped DEF TypeOK
  <2> QED BY <1>2, <2>1, <2>2 DEF IdleFresh, Traceless
<1> QED BY <1>1, <1>2 DEF StartOrRefuse, Start

LEMMA RequestTraceless ==
  ASSUME TypeOK, IdleFresh, NEW p \in Processes, Request(p)
  PROVE  Recreated /\ \A q \in Processes, h \in GenID : Traceless(q, h)
<1>1. ASSUME \A q \in Processes, h \in GenID :
               /\ Traceless(q, h)
               /\ worker[q][h].cancelled => worker'[q][h] = worker[q][h]
      PROVE  Recreated /\ \A q \in Processes, h \in GenID : Traceless(q, h)
  BY <1>1 DEF Recreated
<1>2. CASE UNCHANGED worker
  BY <1>1, <1>2 DEF Traceless
<1>3. CASE ResumeEnrichment(p)
  <2>1. pending.id \in GenID /\ StartOrRefuse(p, pending.id)
    BY <1>3 DEF ResumeEnrichment, TypeOK, Generation
  <2> QED BY <1>1, <2>1, StartTraceless
<1>4. CASE \E g \in GenID, l \in Locales : BeginEnrichment(p, g, l)
  BY <1>1, <1>2, <1>4, StartTraceless DEF BeginEnrichment
<1>5. CASE DeleteProvider(p) \/ \E g \in GenID : DeleteGeneration(p, g)
  BY <1>1, <1>2, <1>5, CancelTraceless DEF DeleteProvider, DeleteGeneration
<1>6. CASE DeleteUser(p)
  <2>1. Recreated
    BY <1>6 DEF DeleteUser, Recreated
  <2>2. ASSUME NEW q \in Processes, NEW h \in GenID PROVE Traceless(q, h)
    <3> DEFINE v == worker[q][h]
               c == IF q = p THEN Cancelled(v) ELSE v
    <3>1. worker'[q][h] = [c EXCEPT !.lease = FALSE]
      BY <1>6 DEF DeleteUser
    <3>2. v \in Worker /\ c \in Worker
      BY CancelledTyped DEF TypeOK
    <3>3. c.pc = v.pc /\ (v.pc = "idle" => c = v)
      BY <3>2 DEF Cancelled, Worker
    <3> HIDE DEF c
    <3>4. worker'[q][h].pc = c.pc /\ worker'[q][h].cancelled = c.cancelled
      BY <3>1, <3>2 DEF Worker
    <3> QED BY <3>3, <3>4 DEF Traceless
  <2> QED BY <2>1, <2>2
<1> QED BY <1>2, <1>3, <1>4, <1>5, <1>6 DEF Request, Look, Upload, Select, Create

LEMMA RunTraceless ==
  ASSUME IInv, NEW p \in Processes, NEW g \in GenID, Run(p, g)
  PROVE  Recreated /\ \A q \in Processes, h \in GenID : Traceless(q, h)
<1>1. PICK w : Led(p, g, w)
  BY RunLeads
<1>2. \A q \in Processes, h \in GenID :
        worker'[q][h] = IF q = p /\ h = g THEN w ELSE worker[q][h]
  BY <1>1, BecomesTyped DEF IInv, TypeOK, Led
<1>3. \A q \in Processes, h \in GenID : Traceless(q, h)
  BY <1>1, <1>2 DEF Led, Traceless, Idle
<1>4. root' = root \/ ~worker[p][g].cancelled
  BY DEF Run, EnrichmentRecords, ResolveTitle, Checkpoint, CompleteEnrichment, FailEnrichment,
    Release, Forget, Unopened, Missing
<1>5. Recreated
  BY <1>2, <1>4 DEF Recreated
<1> QED BY <1>3, <1>5

LEMMA ProcessTraceless ==
  ASSUME TypeOK, NEW p \in Processes, Process(p)
  PROVE  Recreated /\ \A q \in Processes, h \in GenID : Traceless(q, h)
<1>1. Recreated
  BY DEF Process, Close, Closed, Crash, Restart, ProcessFrame, Recreated
<1>2. CASE Close(p)
  BY <1>1, <1>2, CancelTraceless DEF Close
<1>3. CASE Closed(p) \/ Restart(p)
  BY <1>1, <1>3 DEF Closed, Restart, Traceless
<1>4. CASE Crash(p)
  <2>1. \A q \in Processes, h \in GenID :
          worker'[q][h] = IF q = p THEN Idle ELSE worker[q][h]
    BY <1>4 DEF Crash
  <2> QED BY <1>1, <2>1 DEF Traceless, Idle
<1> QED BY <1>2, <1>3, <1>4 DEF Process

LEMMA StepTraceless ==
  IInv /\ IdleFresh /\ [Next]_vars => IdleFresh' /\ [Recreated]_vars
<1>1. ASSUME IInv, IdleFresh, Next PROVE IdleFresh' /\ Recreated
  <2>1. Recreated /\ \A q \in Processes, h \in GenID : Traceless(q, h)
    BY <1>1, RequestTraceless, RunTraceless, ProcessTraceless DEF Next, IInv
  <2> QED BY <1>1, <2>1 DEF IdleFresh, Traceless
<1>2. ASSUME IdleFresh, UNCHANGED vars PROVE IdleFresh'
  BY <1>2 DEF vars, IdleFresh
<1> QED BY <1>1, <1>2

(* A worker cancelled with the deletion of the user's directory never makes  *)
(* it again, wherever the cancellation found it: after a query, before a     *)
(* transaction, or on its way to note a failure.                             *)
THEOREM DeletedStays == Spec => StaysDeleted
<1>1. Init => IdleFresh
  BY DEF Init, IdleFresh, Idle
<1> QED BY <1>1, InvariantHolds, StepTraceless, PTL DEF Spec, StaysDeleted
=============================================================================
