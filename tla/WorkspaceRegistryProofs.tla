------------------------- MODULE WorkspaceRegistryProofs -------------------------
(***************************************************************************)
(* Proofs about the locks and the registry of WorkspaceRegistry, for every *)
(* number of goroutines, users and shards, and every capacity: the         *)
(* deletion of a user is alone in its shard, and therefore never finds the *)
(* workspace in use, never takes the directory from under a request, and   *)
(* the registry knows exactly the open workspaces.                         *)
(***************************************************************************)
EXTENDS WorkspaceRegistry, FiniteSetTheorems, TLAPS

(* The steps at which a request holds no lock. *)
Outside == {"idle", "shard", "blocked"}

(* The steps of a deletion that has the lock of its shard to itself. *)
Alone == {"cancel", "deregister", "close", "remove", "leave"}

KindsFit ==
  \A t \in Threads :
    /\ req[t].pc \in {"drain", "cancel", "deregister", "close", "remove"} => req[t].kind = "delete"
    /\ req[t].pc \in {"blocked", "tx", "store", "work", "acquire", "use"} => req[t].kind # "delete"

(* One writer per shard, and no reader beside one that has the lock. *)
LocksHeld ==
  /\ \A t, r \in Threads :
       /\ req[t].kind = "delete" /\ req[t].pc \notin {"idle", "shard"}
       /\ req[r].kind = "delete" /\ req[r].pc \notin {"idle", "shard"}
       /\ Shard(r) = Shard(t)
       => t = r
  /\ \A t, r \in Threads :
       /\ req[t].kind = "delete" /\ req[t].pc \in Alone
       /\ req[r].kind # "delete" /\ Shard(r) = Shard(t)
       => req[r].pc \in Outside

MutexHeld ==
  /\ \A t \in Threads : req[t].pc \in {"close", "remove"} <=> mutex = t
  /\ mutex = Server => server = "closed"
  /\ mutex \in Threads => ~RegistryClosed

(* Where the registry and the open workspaces may differ: between the two  *)
(* halves of a deletion, and after the registry is closed.                 *)
EntriesOpen ==
  /\ mutex = None /\ ~RegistryClosed => open = entries
  /\ mutex = Server => open = entries
  /\ server = "closed" /\ mutex # Server => entries = {}
  /\ \A t \in Threads :
       /\ At(t, "close") => req[t].user \notin entries /\ open = entries \cup {req[t].user}
       /\ At(t, "remove") => req[t].user \notin entries /\ open = entries

UsesHeld ==
  /\ \A u \in entries : inUse[u] = Cardinality(Using(u))
  /\ \A t \in Threads : At(t, "use") =>
       /\ req[t].user \in open
       /\ ~RegistryClosed \/ mutex = Server => req[t].user \in entries

(* The order of last use is a strict one, so that a workspace can always be *)
(* evicted when one is idle.                                                *)
Ordered ==
  /\ IsFiniteSet(entries)
  /\ \A u \in entries : <<u, u>> \notin older
  /\ \A u, v, w \in entries : <<u, v>> \in older /\ <<v, w>> \in older => <<u, w>> \in older

NeedsDirectory(x) == x.pc = "work" \/ (x.kind = "history" /\ x.pc \in {"acquire", "use"})

Housed ==
  /\ open \subseteq dir
  /\ \A t \in Threads : NeedsDirectory(req[t]) => req[t].user \in dir

ShutDown ==
  /\ server \in {"closing", "closed", "down"} => workers = {}
  /\ server = "down" =>
       /\ \A t \in Threads : At(t, "idle")
       /\ open = {} /\ entries = {} /\ busy = {}

IInv ==
  /\ TypeOK /\ KindsFit /\ LocksHeld /\ MutexHeld /\ EntriesOpen /\ UsesHeld
  /\ Ordered /\ Housed /\ ShutDown /\ busy \subseteq open /\ NeverInUse

-----------------------------------------------------------------------------
(***************************************************************************)
(* What the parts of the invariant depend on.                              *)
(***************************************************************************)
Pinned == {"use", "close", "remove"}

(* Request r keeps its place at the registry, and whoever comes to need a   *)
(* directory has one.                                                       *)
Tame(r) ==
  /\ req[r].pc \in Pinned \/ req'[r].pc \in Pinned =>
       req'[r].pc = req[r].pc /\ req'[r].user = req[r].user
  /\ NeedsDirectory(req'[r]) => req'[r].user \in dir'

(* Request r keeps the locks it has. *)
KeepsLocks(r) ==
  /\ req'[r].kind = req[r].kind /\ req'[r].user = req[r].user
  /\ req'[r].pc \in {"idle", "shard"} <=> req[r].pc \in {"idle", "shard"}
  /\ req'[r].pc \in Outside <=> req[r].pc \in Outside
  /\ req[r].kind = "delete" /\ req'[r].pc \in Alone => req[r].pc \in Alone

LEMMA LockFrame ==
  ASSUME LocksHeld, \A r \in Threads : KeepsLocks(r)
  PROVE  LocksHeld'
BY DEF LocksHeld, KeepsLocks, Shard

LEMMA UsingFrame ==
  ASSUME \A r \in Threads : Tame(r)
  PROVE  \A u : Using(u)' = Using(u)
BY DEF Tame, Using, At, Pinned

LEMMA RegistryFrame ==
  ASSUME TypeOK, MutexHeld, EntriesOpen, UsesHeld, Ordered, 
         UNCHANGED <<mutex, entries, older, inUse, open>>,
         server' = server \/ {server, server'} \cap {"closed", "down"} = {},
         \A r \in Threads : Tame(r)
  PROVE  MutexHeld' /\ EntriesOpen' /\ UsesHeld' /\ Ordered'
<1>1. MutexHeld'
  BY DEF MutexHeld, Tame, Pinned, RegistryClosed
<1>2. EntriesOpen'
  BY DEF EntriesOpen, Tame, Pinned, RegistryClosed, At
<1>3. UsesHeld'
  <2>1. \A u \in entries' : inUse'[u] = Cardinality(Using(u)')
    BY UsingFrame DEF UsesHeld
  <2>2. \A r \in Threads : At(r, "use")' =>
          /\ req'[r].user \in open'
          /\ ~RegistryClosed' \/ mutex' = Server => req'[r].user \in entries'
    BY DEF UsesHeld, Tame, Pinned, RegistryClosed, At
  <2> QED
    BY <2>1, <2>2 DEF UsesHeld
<1>4. Ordered'
  BY DEF Ordered
<1> QED
  BY <1>1, <1>2, <1>3, <1>4

(* A step of a request that leaves the registry alone. *)
LEMMA QuietStep ==
  ASSUME IInv, NEW t \in Threads, ~At(t, "idle"), req' \in [Threads -> Request],
         tx' \in [Shards -> Threads \cup {None}], dir' \in SUBSET Users, dir \subseteq dir',
         UNCHANGED <<registry, open, busy, server, refused>>,
         workers' \in SUBSET Users,
         server \in {"serving", "draining"} \/ workers' \subseteq workers,
         KindsFit', LocksHeld', \A r \in Threads : Tame(r)
  PROVE  IInv'
<1>1. TypeOK'
  BY DEF IInv, TypeOK, registry
<1>2. MutexHeld' /\ EntriesOpen' /\ UsesHeld' /\ Ordered'
  BY RegistryFrame DEF IInv, registry
<1>3. Housed'
  BY DEF IInv, Housed, Tame
<1>4. ShutDown'
  BY DEF IInv, ShutDown, At
<1> QED
  BY <1>1, <1>2, <1>3, <1>4 DEF IInv, NeverInUse

LEMMA GoFields ==
  ASSUME TypeOK, NEW t \in Threads, NEW pc \in Steps, Go(t, pc)
  PROVE  /\ req' \in [Threads -> Request]
         /\ req'[t].pc = pc /\ req'[t].kind = req[t].kind /\ req'[t].user = req[t].user
         /\ \A r \in Threads \ {t} : req'[r] = req[r]
BY DEF TypeOK, Go, Request

LEMMA CancelledFields ==
  ASSUME NEW x \in Request
  PROVE  LET y == [x EXCEPT !.cancelled = TRUE] IN
         y \in Request /\ y.pc = x.pc /\ y.kind = x.kind /\ y.user = x.user
BY DEF Request

LEMMA MovedFields ==
  ASSUME NEW x \in Request, NEW pc \in Steps
  PROVE  LET y == [x EXCEPT !.pc = pc] IN
         y \in Request /\ y.pc = pc /\ y.kind = x.kind /\ y.user = x.user
BY DEF Request

LEMMA EnteredFields ==
  ASSUME NEW x \in Request
  PROVE  /\ Entered(x) \in Request
         /\ Entered(x).kind = x.kind /\ Entered(x).user = x.user
         /\ Entered(x).pc = IF x.kind = "netflix" THEN "acquire" ELSE "tx"
BY DEF Entered, Request, Steps

-----------------------------------------------------------------------------
(***************************************************************************)
(* The locks.                                                              *)
(***************************************************************************)
LEMMA ArriveStep ==
  ASSUME IInv, NEW t \in Threads, NEW kind \in Kinds, NEW u \in Users, Arrive(t, kind, u)
  PROVE  IInv'
<1>1. /\ req' \in [Threads -> Request] /\ req'[t].pc = "shard"
      /\ \A r \in Threads \ {t} : req'[r] = req[r]
  BY DEF IInv, TypeOK, Arrive, Request, Steps
<1>2. \A r \in Threads : Tame(r)
  BY <1>1 DEF IInv, Arrive, At, Tame, Pinned, NeedsDirectory, Housed, disk
<1>3. TypeOK'
  BY <1>1 DEF IInv, TypeOK, Arrive, registry, disk
<1>4. KindsFit'
  BY <1>1 DEF IInv, KindsFit
<1>5. LocksHeld'
  BY <1>1 DEF IInv, LocksHeld, Alone, Outside, Shard
<1>6. MutexHeld' /\ EntriesOpen' /\ UsesHeld' /\ Ordered'
  BY <1>2, RegistryFrame DEF IInv, Arrive, registry, disk
<1>7. Housed'
  BY <1>2 DEF IInv, Housed, Arrive, disk, Tame
<1>8. ShutDown'
  BY DEF IInv, ShutDown, Arrive, disk, registry
<1> QED
  BY <1>3, <1>4, <1>5, <1>6, <1>7, <1>8 DEF IInv, NeverInUse, Arrive, disk

LEMMA RLockStep ==
  ASSUME IInv, NEW t \in Threads, RLock(t)
  PROVE  IInv'
<1> DEFINE e == Entered(req[t])
           b == [req[t] EXCEPT !.pc = "blocked"]
<1>1. req \in [Threads -> Request] /\ req[t] \in Request
  BY DEF IInv, TypeOK
<1>2. /\ e \in Request /\ e.kind = req[t].kind /\ e.user = req[t].user /\ e.pc \in {"acquire", "tx"}
      /\ e.pc = "acquire" => e.kind = "netflix"
  BY <1>1, EnteredFields
<1>3. b \in Request /\ b.kind = req[t].kind /\ b.user = req[t].user /\ b.pc = "blocked"
  BY <1>1 DEF Request, Steps
<1>4. req' = [req EXCEPT ![t] = IF Writers(Shard(t)) = {} THEN e ELSE b]
  BY DEF RLock
<1> HIDE DEF e, b
<1>5. /\ req' \in [Threads -> Request] /\ \A r \in Threads \ {t} : req'[r] = req[r]
      /\ req'[t] = IF Writers(Shard(t)) = {} THEN e ELSE b
  BY <1>1, <1>2, <1>3, <1>4
<1>6. req[t].pc = "shard" /\ req[t].kind # "delete"
  BY DEF RLock, At
<1>7. KindsFit'
  BY <1>2, <1>3, <1>5, <1>6 DEF IInv, KindsFit
<1>8. LocksHeld'
  <2>1. CASE Writers(Shard(t)) = {}
    <3>1. \A r \in Threads : ~(req[r].kind = "delete" /\ req[r].pc \in Alone /\ Shard(r) = Shard(t))
      BY <2>1 DEF Writers, Alone
    <3> QED
      BY <2>1, <3>1, <1>2, <1>5, <1>6 DEF IInv, LocksHeld, Shard
  <2>2. CASE Writers(Shard(t)) # {}
    BY <2>2, <1>3, <1>5, <1>6 DEF IInv, LocksHeld, Shard, Outside
  <2> QED
    BY <2>1, <2>2
<1>9. \A r \in Threads : Tame(r)
  BY <1>2, <1>3, <1>5, <1>6 DEF IInv, RLock, Tame, Pinned, NeedsDirectory, Housed, disk
<1> QED
  BY <1>5, <1>6, <1>7, <1>8, <1>9, QuietStep DEF IInv, TypeOK, RLock, At, disk

LEMMA LockStep ==
  ASSUME IInv, NEW t \in Threads, Lock(t)
  PROVE  IInv'
<1>1. /\ req' \in [Threads -> Request]
      /\ req'[t].pc = "drain" /\ req'[t].kind = req[t].kind /\ req'[t].user = req[t].user
      /\ \A r \in Threads \ {t} : req'[r] = req[r]
  BY GoFields DEF IInv, Lock, Steps
<1>2. /\ req[t].pc = "shard" /\ req[t].kind = "delete"
      /\ \A r \in Threads : ~(req[r].kind = "delete" /\ req[r].pc \notin {"idle", "shard"} /\ Shard(r) = Shard(t))
  BY DEF Lock, At, Writers
<1>3. KindsFit'
  BY <1>1, <1>2 DEF IInv, KindsFit
<1>4. LocksHeld'
  BY <1>1, <1>2 DEF IInv, LocksHeld, Shard, Alone
<1>5. \A r \in Threads : Tame(r)
  BY <1>1, <1>2 DEF IInv, Lock, Tame, Pinned, NeedsDirectory, Housed, disk
<1> QED
  BY <1>1, <1>2, <1>3, <1>4, <1>5, QuietStep DEF IInv, TypeOK, Lock, At, disk

LEMMA DrainedStep ==
  ASSUME IInv, NEW t \in Threads, Drained(t)
  PROVE  IInv'
<1>1. /\ req' \in [Threads -> Request]
      /\ req'[t].pc = "cancel" /\ req'[t].kind = req[t].kind /\ req'[t].user = req[t].user
      /\ \A r \in Threads \ {t} : req'[r] = req[r]
  BY GoFields DEF IInv, Drained, Steps
<1>2. /\ req[t].pc = "drain" /\ req[t].kind = "delete"
      /\ \A r \in Threads : req[r].kind # "delete" /\ Shard(r) = Shard(t) => req[r].pc \in Outside
  BY DEF Drained, At, Readers, Outside, IInv, KindsFit
<1>3. KindsFit'
  BY <1>1, <1>2 DEF IInv, KindsFit
<1>4. LocksHeld'
  BY <1>1, <1>2 DEF IInv, LocksHeld, Shard
<1>5. \A r \in Threads : Tame(r)
  BY <1>1, <1>2 DEF IInv, Drained, Tame, Pinned, NeedsDirectory, Housed, disk
<1> QED
  BY <1>1, <1>2, <1>3, <1>4, <1>5, QuietStep DEF IInv, TypeOK, Drained, At, disk

LEMMA LeaveStep ==
  ASSUME IInv, NEW t \in Threads, Leave(t)
  PROVE  IInv'
<1> DEFINE let(r) == req[t].kind = "delete" /\ At(r, "blocked") /\ Shard(r) = Shard(t)
<1>1. req \in [Threads -> Request] /\ Idle \in Request /\ Idle.pc = "idle"
  BY UsersAssumption DEF IInv, TypeOK, Idle, Request, Steps, Kinds
<1>2. \A r \in Threads : Entered(req[r]) \in Request
  BY <1>1, EnteredFields
<1>3. /\ req' \in [Threads -> Request]
      /\ req'[t].pc = "idle"
      /\ \A r \in Threads \ {t} : req'[r] = IF let(r) THEN Entered(req[r]) ELSE req[r]
  BY <1>1, <1>2 DEF Leave
<1>4. \A r \in Threads \ {t} :
        /\ req'[r].kind = req[r].kind /\ req'[r].user = req[r].user
        /\ let(r) => /\ req[r].pc = "blocked" /\ req[r].kind # "delete"
                     /\ req'[r].pc = IF req[r].kind = "netflix" THEN "acquire" ELSE "tx"
        /\ ~let(r) => req'[r] = req[r]
  BY <1>1, <1>3, EnteredFields DEF IInv, KindsFit, At
<1>5. req[t].pc = "leave"
  BY DEF Leave, At
<1>6. \A r \in Threads \ {t} : let(r) =>
        \A w \in Threads \ {t} : ~(req[w].kind = "delete" /\ req[w].pc \in Alone /\ Shard(w) = Shard(r))
  BY <1>5 DEF IInv, LocksHeld, Alone
<1> HIDE DEF let
<1>7. KindsFit'
  BY <1>3, <1>4 DEF IInv, KindsFit
<1>8. LocksHeld'
  <2>1. ASSUME NEW w \in Threads, NEW r \in Threads,
               req'[w].kind = "delete", req'[w].pc \notin {"idle", "shard"},
               req'[r].kind = "delete", req'[r].pc \notin {"idle", "shard"}, Shard(r)' = Shard(w)'
        PROVE  w = r
    BY <2>1, <1>3, <1>4 DEF IInv, LocksHeld, Shard
  <2>2. ASSUME NEW w \in Threads, NEW r \in Threads, req'[w].kind = "delete", req'[w].pc \in Alone,
               req'[r].kind # "delete", Shard(r)' = Shard(w)'
        PROVE  req'[r].pc \in Outside
    <3>1. w # t
      BY <2>2, <1>3 DEF Alone
    <3>2. CASE r = t
      BY <3>2, <1>3 DEF Outside
    <3>3. CASE r # t /\ let(r)
      BY <3>1, <3>3, <2>2, <1>4, <1>6 DEF Shard
    <3>4. CASE r # t /\ ~let(r)
      BY <3>1, <3>4, <2>2, <1>4 DEF IInv, LocksHeld, Shard
    <3> QED
      BY <3>2, <3>3, <3>4
  <2> QED
    BY <2>1, <2>2 DEF LocksHeld
<1>9. \A r \in Threads : Tame(r)
  BY <1>3, <1>4, <1>5 DEF IInv, Leave, Tame, Pinned, NeedsDirectory, Housed, disk
<1> QED
  BY <1>3, <1>5, <1>7, <1>8, <1>9, QuietStep DEF IInv, TypeOK, Leave, At, disk

-----------------------------------------------------------------------------
(***************************************************************************)
(* Transactions and workers.                                               *)
(***************************************************************************)
(* A step of a request inside its locks that leaves the registry alone.     *)
LEMMA InsideStep ==
  ASSUME IInv, NEW t \in Threads, NEW pc \in {"store", "work", "acquire", "leave"}, Go(t, pc),
         req[t].pc \in {"tx", "store", "work"},
         tx' \in [Shards -> Threads \cup {None}], dir' \in SUBSET Users, dir \subseteq dir',
         pc \in {"work", "acquire"} => req[t].user \in dir',
         UNCHANGED <<registry, open, busy, server, refused>>,
         workers' \in SUBSET Users,
         server \in {"serving", "draining"} \/ workers' \subseteq workers
  PROVE  IInv'
<1>1. /\ req' \in [Threads -> Request]
      /\ req'[t].pc = pc /\ req'[t].kind = req[t].kind /\ req'[t].user = req[t].user
      /\ \A r \in Threads \ {t} : req'[r] = req[r]
  BY GoFields DEF IInv, Steps
<1>2. KindsFit'
  BY <1>1 DEF IInv, KindsFit
<1>3. LocksHeld'
  BY <1>1, LockFrame DEF IInv, KindsFit, KeepsLocks, Outside, Alone
<1>4. \A r \in Threads : Tame(r)
  BY <1>1 DEF IInv, Tame, Pinned, NeedsDirectory, Housed
<1> QED
  BY <1>1, <1>2, <1>3, <1>4, QuietStep DEF At

LEMMA TxLockStep ==
  ASSUME IInv, NEW t \in Threads, TxLock(t)
  PROVE  IInv'
<1>1. tx' \in [Shards -> Threads \cup {None}]
  BY DEF IInv, TypeOK, TxLock
<1> QED
  BY <1>1, InsideStep DEF IInv, TypeOK, TxLock, At, disk

LEMMA OpenStoreStep ==
  ASSUME IInv, NEW t \in Threads, OpenStore(t)
  PROVE  IInv'
<1>1. req[t].user \in Users /\ dir \in SUBSET Users
  BY DEF IInv, TypeOK, Request
<1>2. /\ req[t].pc \in {"tx", "store", "work"} /\ tx' \in [Shards -> Threads \cup {None}]
      /\ workers' \in SUBSET Users /\ workers' \subseteq workers
      /\ UNCHANGED <<registry, open, busy, server, refused>>
  BY DEF IInv, TypeOK, OpenStore, At
<1>3. CASE dir' = dir \cup {req[t].user} /\ Go(t, IF req[t].kind = "history" THEN "acquire" ELSE "work")
  <2>1. Go(t, "acquire") \/ Go(t, "work")
    BY <1>3
  <2>2. req[t].user \in dir' /\ dir' \in SUBSET Users /\ dir \subseteq dir'
    BY <1>1, <1>3
  <2> QED
    BY <1>2, <2>1, <2>2, InsideStep
<1>4. CASE Go(t, "leave") /\ UNCHANGED dir
  <2>1. dir' \in SUBSET Users /\ dir \subseteq dir'
    BY <1>1, <1>4
  <2> QED
    BY <1>4, <1>2, <2>1, InsideStep
<1> QED
  BY <1>3, <1>4 DEF OpenStore

LEMMA TransactStep ==
  ASSUME IInv, NEW t \in Threads, Transact(t)
  PROVE  IInv'
<1>1. workers' \in SUBSET Users /\ (server \in {"serving", "draining"} \/ workers' \subseteq workers)
  BY DEF IInv, TypeOK, Transact, Request
<1>2. /\ Go(t, "leave") /\ req[t].pc \in {"tx", "store", "work"}
      /\ tx' \in [Shards -> Threads \cup {None}] /\ dir' \in SUBSET Users /\ dir \subseteq dir'
      /\ UNCHANGED <<registry, open, busy, server, refused>>
  BY DEF IInv, TypeOK, Transact, At, disk
<1> QED
  BY <1>1, <1>2, InsideStep

(* Steps that only cancel workers or move the shutdown on.                  *)
LEMMA CancelStep ==
  ASSUME IInv, req' \in [Threads -> Request],
         \A r \in Threads : /\ req'[r].pc = req[r].pc /\ req'[r].kind = req[r].kind
                            /\ req'[r].user = req[r].user,
         workers' \subseteq workers, UNCHANGED <<tx, registry, disk, refused>>,
         \/ UNCHANGED server
         \/ server = "serving" /\ server' = "draining"
         \/ server = "draining" /\ server' = "closing" /\ workers' = {}
  PROVE  IInv'
<1>1. TypeOK'
  BY DEF IInv, TypeOK, registry, disk
<1>2. KindsFit'
  BY DEF IInv, KindsFit
<1>3. LocksHeld'
  BY LockFrame DEF IInv, KeepsLocks
<1>4. \A r \in Threads : Tame(r)
  BY DEF IInv, Tame, NeedsDirectory, Housed, disk
<1>5. MutexHeld' /\ EntriesOpen' /\ UsesHeld' /\ Ordered'
  <2>1. server' = server \/ {server, server'} \cap {"closed", "down"} = {}
    OBVIOUS
  <2> QED
    BY <2>1, <1>4, RegistryFrame DEF IInv, registry, disk
<1>6. Housed'
  BY <1>4 DEF IInv, Housed, Tame, disk
<1>7. ShutDown'
  BY DEF IInv, ShutDown, disk, registry, At
<1> QED
  BY <1>1, <1>2, <1>3, <1>5, <1>6, <1>7 DEF IInv, NeverInUse, disk

LEMMA WorkerEndsStep ==
  ASSUME IInv, NEW u \in Users, WorkerEnds(u)
  PROVE  IInv'
BY CancelStep DEF IInv, TypeOK, WorkerEnds

LEMMA ShutdownStep ==
  ASSUME IInv, Shutdown
  PROVE  IInv'
BY CancelStep DEF IInv, TypeOK, Shutdown

LEMMA ClosePrimeStep ==
  ASSUME IInv, ClosePrime
  PROVE  IInv'
<1> DEFINE c(r) == [req[r] EXCEPT !.cancelled = TRUE]
<1>1. \A r \in Threads : req[r] \in Request
  BY DEF IInv, TypeOK
<1>2. \A r \in Threads :
        c(r) \in Request /\ c(r).pc = req[r].pc /\ c(r).kind = req[r].kind /\ c(r).user = req[r].user
  BY <1>1, CancelledFields
<1>3. /\ DOMAIN req' = Threads /\ req' = [r \in Threads |-> req'[r]]
      /\ \A r \in Threads : req'[r] = req[r] \/ req'[r] = c(r)
  BY DEF ClosePrime, CancelWorkers
<1>4. req' \in [Threads -> Request]
  BY <1>1, <1>2, <1>3
<1>5. \A r \in Threads : /\ req'[r].pc = req[r].pc /\ req'[r].kind = req[r].kind
                         /\ req'[r].user = req[r].user
  BY <1>2, <1>3
<1>6. workers' = {}
  BY DEF IInv, TypeOK, ClosePrime, CancelWorkers
<1> QED
  BY <1>4, <1>5, <1>6, CancelStep DEF ClosePrime

LEMMA CancelUserStep ==
  ASSUME IInv, NEW t \in Threads, CancelUser(t)
  PROVE  IInv'
<1> DEFINE c(r) == [req[r] EXCEPT !.cancelled = TRUE]
           m == [req[t] EXCEPT !.pc = "deregister"]
<1>1. \A r \in Threads : req[r] \in Request
  BY DEF IInv, TypeOK
<1>2. \A r \in Threads :
        c(r) \in Request /\ c(r).pc = req[r].pc /\ c(r).kind = req[r].kind /\ c(r).user = req[r].user
  BY <1>1, CancelledFields
<1>3. m \in Request /\ m.pc = "deregister" /\ m.kind = req[t].kind /\ m.user = req[t].user
  BY <1>1, MovedFields DEF Steps
<1>4. /\ req' = [r \in Threads |-> req'[r]] /\ req'[t] = m
      /\ \A r \in Threads \ {t} : req'[r] = req[r] \/ req'[r] = c(r)
  BY DEF CancelUser
<1> HIDE DEF c, m
<1>5. req' \in [Threads -> Request]
  BY <1>1, <1>2, <1>3, <1>4
<1>6. /\ req'[t].pc = "deregister" /\ req'[t].kind = req[t].kind /\ req'[t].user = req[t].user
      /\ \A r \in Threads \ {t} :
           req'[r].pc = req[r].pc /\ req'[r].kind = req[r].kind /\ req'[r].user = req[r].user
  BY <1>2, <1>3, <1>4
<1>7. req[t].pc = "cancel"
  BY DEF CancelUser, At
<1>8. KindsFit'
  BY <1>6, <1>7 DEF IInv, KindsFit
<1>9. LocksHeld'
  BY <1>6, <1>7, LockFrame DEF IInv, KeepsLocks, Outside, Alone
<1>10. \A r \in Threads : Tame(r)
  BY <1>6, <1>7 DEF IInv, CancelUser, Tame, Pinned, NeedsDirectory, Housed, disk
<1>11. workers' \in SUBSET Users /\ workers' \subseteq workers
  BY DEF IInv, TypeOK, CancelUser
<1> QED
  BY <1>5, <1>7, <1>8, <1>9, <1>10, <1>11, QuietStep DEF IInv, TypeOK, CancelUser, At, disk

-----------------------------------------------------------------------------
(***************************************************************************)
(* The order of last use.                                                  *)
(***************************************************************************)
(* R is a strict total order on S. *)
StrictOrder(R, S) ==
  /\ R \in SUBSET (S \X S)
  /\ \A u, v \in S : u # v => (<<u, v>> \in R <=> <<v, u>> \notin R)
  /\ \A u \in S : <<u, u>> \notin R
  /\ \A u, v, w \in S : <<u, v>> \in R /\ <<v, w>> \in R => <<u, w>> \in R

(* An idle workspace that none was used before exists whenever one is idle. *)
LEMMA OldestExists ==
  ASSUME IsFiniteSet(entries), StrictOrder(older, entries), NEW S \in SUBSET entries, S # {}
  PROVE  Oldest(S) \in S
<1> DEFINE before(u) == {v \in S : <<v, u>> \in older}
           B == {before(u) : u \in S}
           R == StrictSubsetOrdering(entries)
<1>1. IsWellFoundedOn(R, SUBSET entries)
  BY FS_StrictSubsetOrderingWellFounded, FS_FiniteSubsetsOfFinite
<1>2. B \subseteq SUBSET entries /\ B # {}
  OBVIOUS
<1>3. \E x \in B : \A y \in B : ~(<<y, x>> \in R)
  BY <1>1, <1>2, WFMin
<1>4. PICK u \in S : \A w \in S : ~(<<before(w), before(u)>> \in R)
  BY <1>3
<1>5. \A v \in S : <<v, u>> \notin older
  <2> SUFFICES ASSUME NEW v \in S, <<v, u>> \in older PROVE FALSE
    OBVIOUS
  <2>1. before(v) \subseteq before(u)
    BY DEF StrictOrder
  <2>2. v \in before(u) /\ v \notin before(v)
    BY DEF StrictOrder
  <2>3. <<before(v), before(u)>> \in R
    BY <2>1, <2>2, <1>2 DEF StrictSubsetOrdering
  <2> QED
    BY <2>3, <1>4
<1> QED
  BY <1>5 DEF Oldest

LEMMA AmongOrdered ==
  ASSUME StrictOrder(older, entries), NEW K \in SUBSET entries
  PROVE  StrictOrder(Among(K), K)
BY DEF StrictOrder, Among

LEMMA UsedLastOrdered ==
  ASSUME StrictOrder(older, entries), NEW K \in SUBSET entries, NEW u
  PROVE  StrictOrder(UsedLast(u, K), K \cup {u})
<1> DEFINE L == K \ {u}
<1>1. StrictOrder(Among(L), L)
  BY AmongOrdered
<1>2. UsedLast(u, K) = Among(L) \cup (L \X {u}) /\ K \cup {u} = L \cup {u} /\ u \notin L
  BY DEF UsedLast
<1> HIDE DEF L
<1> QED
  BY <1>1, <1>2 DEF StrictOrder

LEMMA OrderKnown ==
  ASSUME IInv
  PROVE  IsFiniteSet(entries) /\ StrictOrder(older, entries)
BY DEF IInv, TypeOK, Ordered, StrictOrder

-----------------------------------------------------------------------------
(***************************************************************************)
(* The registry.                                                           *)
(***************************************************************************)
LEMMA GoLocks ==
  ASSUME IInv, NEW t \in Threads, NEW pc \in Steps \ Outside, Go(t, pc),
         req[t].pc \notin Outside,
         req[t].kind = "delete" /\ pc \in Alone => req[t].pc \in Alone
  PROVE  LocksHeld'
<1>1. /\ req'[t].pc = pc /\ req'[t].kind = req[t].kind /\ req'[t].user = req[t].user
      /\ \A r \in Threads \ {t} : req'[r] = req[r]
  BY GoFields DEF IInv
<1> QED
  BY <1>1, LockFrame DEF IInv, KeepsLocks, Outside

LEMMA StartOperationStep ==
  ASSUME IInv, NEW t \in Threads, StartOperation(t)
  PROVE  IInv'
<1>1. TypeOK'
  BY DEF IInv, TypeOK, StartOperation, registry, Request
<1>2. busy' \subseteq open' /\ server # "down"
  BY DEF IInv, UsesHeld, ShutDown, StartOperation, At
<1>3. \A r \in Threads : Tame(r)
  BY DEF IInv, StartOperation, Tame, Housed
<1>4. MutexHeld' /\ EntriesOpen' /\ UsesHeld' /\ Ordered'
  BY <1>3, RegistryFrame DEF IInv, StartOperation, registry
<1>5. KindsFit' /\ LocksHeld' /\ Housed' /\ NeverInUse'
  BY DEF IInv, KindsFit, LocksHeld, Housed, NeverInUse, StartOperation, Shard
<1>6. ShutDown'
  BY <1>2 DEF IInv, ShutDown, StartOperation
<1> QED
  BY <1>1, <1>2, <1>4, <1>5, <1>6 DEF IInv

LEMMA OperationEndsStep ==
  ASSUME IInv, NEW u \in Users, OperationEnds(u)
  PROVE  IInv'
<1>1. TypeOK' /\ busy' \subseteq open'
  BY DEF IInv, TypeOK, OperationEnds, registry
<1>2. \A r \in Threads : Tame(r)
  BY DEF IInv, OperationEnds, Tame, Housed
<1>3. MutexHeld' /\ EntriesOpen' /\ UsesHeld' /\ Ordered'
  BY <1>2, RegistryFrame DEF IInv, OperationEnds, registry
<1>4. KindsFit' /\ LocksHeld' /\ Housed' /\ NeverInUse'
  BY DEF IInv, KindsFit, LocksHeld, Housed, NeverInUse, OperationEnds, Shard
<1>5. ShutDown'
  BY DEF IInv, ShutDown, OperationEnds, registry, At
<1> QED
  BY <1>1, <1>3, <1>4, <1>5 DEF IInv

(* The users of a workspace when one request comes to it or leaves it.      *)
LEMMA UsingFinite ==
  \A u : IsFiniteSet(Using(u)) /\ Cardinality(Using(u)) \in Nat
<1>1. \A u : IsFiniteSet(Using(u))
  BY ThreadsAssumption, FS_Subset DEF Using
<1> QED
  BY <1>1, FS_CardinalityType

LEMMA UseStarts ==
  ASSUME NEW t \in Threads, NEW u, \A r \in Threads \ {t} : req'[r] = req[r],
         ~At(t, "use"), At(t, "use")', req'[t].user = u
  PROVE  /\ \A v : v # u => Using(v)' = Using(v)
         /\ Cardinality(Using(u)') = Cardinality(Using(u)) + 1
<1>1. Using(u)' = Using(u) \cup {t} /\ t \notin Using(u) /\ \A v : v # u => Using(v)' = Using(v)
  BY DEF Using, At
<1>2. IsFiniteSet(Using(u))
  BY UsingFinite
<1>3. Cardinality(Using(u) \cup {t}) = Cardinality(Using(u)) + 1
  BY <1>1, <1>2, FS_AddElement
<1> QED
  BY <1>1, <1>3

LEMMA UseEnds ==
  ASSUME NEW t \in Threads, NEW u, \A r \in Threads \ {t} : req'[r] = req[r],
         At(t, "use"), ~At(t, "use")', req[t].user = u
  PROVE  /\ \A v : v # u => Using(v)' = Using(v)
         /\ Cardinality(Using(u)') = Cardinality(Using(u)) - 1
         /\ Cardinality(Using(u)) \in Nat \ {0}
<1>1. Using(u)' = Using(u) \ {t} /\ t \in Using(u) /\ \A v : v # u => Using(v)' = Using(v)
  BY DEF Using, At
<1>2. Cardinality(Using(u)') = Cardinality(Using(u)) - 1
  <2>1. IsFiniteSet(Using(u))
    BY UsingFinite
  <2>2. Cardinality(Using(u) \ {t}) = Cardinality(Using(u)) - 1
    BY <1>1, <2>1, FS_RemoveElement
  <2> QED
    BY <1>1, <2>2
<1>3. Cardinality(Using(u)) # 0
  BY <1>1, UsingFinite, FS_EmptySet
<1> QED
  BY <1>1, <1>2, <1>3, UsingFinite

LEMMA releaseStep ==
  ASSUME IInv, NEW t \in Threads, release(t)
  PROVE  IInv'
<1>1. /\ req' \in [Threads -> Request]
      /\ req'[t].pc = "leave" /\ req'[t].kind = req[t].kind /\ req'[t].user = req[t].user
      /\ \A r \in Threads \ {t} : req'[r] = req[r]
  BY GoFields DEF IInv, release, Steps
<1>2. PICK u \in Users : u = req[t].user
  BY DEF IInv, TypeOK, Request
<1>3. req[t].pc = "use" /\ mutex = None /\ req[t].kind # "delete" /\ server # "down"
  BY DEF release, At, IInv, KindsFit, ShutDown
<1>4. /\ \A v : v # u => Using(v)' = Using(v)
      /\ Cardinality(Using(u)') = Cardinality(Using(u)) - 1
      /\ Cardinality(Using(u)) \in Nat \ {0}
  <2>1. At(t, "use") /\ ~At(t, "use")'
    BY <1>1, <1>3 DEF At
  <2> QED
    BY <1>1, <1>2, <2>1, UseEnds
<1>5. inUse' = IF u \in entries THEN [inUse EXCEPT ![u] = inUse[u] - 1] ELSE inUse
  BY <1>2 DEF release
<1>6. /\ inUse' \in [Users -> Nat]
      /\ \A v \in entries : inUse'[v] = Cardinality(Using(v)')
  BY <1>4, <1>5 DEF IInv, TypeOK, UsesHeld
<1>7. UNCHANGED <<tx, mutex, entries, older, open, busy, dir, workers, server, refused>>
  BY DEF release, disk
<1>8. TypeOK'
  BY <1>1, <1>6, <1>7 DEF IInv, TypeOK
<1>9. KindsFit' /\ LocksHeld'
  BY <1>1, <1>3, GoLocks DEF IInv, KindsFit, release, Steps, Outside
<1>10. MutexHeld' /\ EntriesOpen' /\ Ordered' /\ ShutDown' /\ Housed' /\ NeverInUse'
  <2>1. MutexHeld' /\ EntriesOpen'
    BY <1>1, <1>3, <1>7 DEF IInv, MutexHeld, EntriesOpen, At, RegistryClosed
  <2>2. Ordered' /\ NeverInUse' /\ ShutDown'
    BY <1>3, <1>7 DEF IInv, Ordered, NeverInUse, ShutDown
  <2>3. Housed'
    BY <1>1, <1>7 DEF IInv, Housed, NeedsDirectory
  <2> QED
    BY <2>1, <2>2, <2>3
<1>11. UsesHeld'
  BY <1>1, <1>6, <1>7 DEF IInv, UsesHeld, At, RegistryClosed
<1> QED
  BY <1>7, <1>8, <1>9, <1>10, <1>11 DEF IInv

(* The first half of an acquisition: the entries that an eviction leaves.   *)
LEMMA KeptEntries ==
  ASSUME IInv, mutex = None, ~RegistryClosed,
         NEW kept, 
         \/ Cardinality(entries) < MaxOpen /\ kept = entries
         \/ Evictable # {} /\ kept = entries \ {Oldest(Evictable)}
  PROVE  /\ kept \in SUBSET entries /\ IsFiniteSet(kept)
         /\ Cardinality(kept) \in Nat /\ Cardinality(kept) < MaxOpen
         /\ open = entries /\ open \ (entries \ kept) = kept
         /\ \A u \in entries \ kept : inUse[u] = 0 /\ u \notin busy
<1>1. IsFiniteSet(entries) /\ StrictOrder(older, entries) /\ Cardinality(entries) <= MaxOpen
  BY OrderKnown DEF IInv, TypeOK
<1>2. Cardinality(entries) \in Nat /\ MaxOpen \in Nat
  BY <1>1, FS_CardinalityType, OpenAssumption
<1>3. open = entries
  BY DEF IInv, EntriesOpen
<1>4. CASE Cardinality(entries) < MaxOpen /\ kept = entries
  BY <1>1, <1>2, <1>3, <1>4
<1>5. CASE Evictable # {} /\ kept = entries \ {Oldest(Evictable)}
  <2> DEFINE o == Oldest(Evictable)
  <2>1. o \in Evictable
    BY <1>1, <1>5, OldestExists DEF Evictable
  <2>2. o \in entries /\ inUse[o] = 0 /\ o \notin busy
    BY <2>1 DEF Evictable
  <2> HIDE DEF o
  <2>3. IsFiniteSet(kept) /\ Cardinality(kept) = Cardinality(entries) - 1
    BY <1>1, <1>5, <2>2, FS_RemoveElement DEF o
  <2>4. entries \ kept = {o} /\ kept \in SUBSET entries
    BY <1>5, <2>2 DEF o
  <2>5. Cardinality(kept) \in Nat
    BY <2>3, FS_CardinalityType
  <2> QED
    BY <1>1, <1>2, <1>3, <2>2, <2>3, <2>4, <2>5
<1> QED
  BY <1>4, <1>5

(* A workspace with a request in it is counted, and one that is not counted *)
(* has none.                                                                *)
LEMMA Counted ==
  ASSUME IInv, NEW u \in entries
  PROVE  inUse[u] = 0 <=> Using(u) = {}
BY UsingFinite, FS_EmptySet DEF IInv, UsesHeld

LEMMA ReuseStep ==
  ASSUME IInv, NEW t \in Threads, At(t, "acquire"), mutex = None, ~RegistryClosed, Reuse(t),
         UNCHANGED <<tx, mutex, workers, server, refused>>
  PROVE  IInv'
<1>1. /\ req' \in [Threads -> Request]
      /\ req'[t].pc = "use" /\ req'[t].kind = req[t].kind /\ req'[t].user = req[t].user
      /\ \A r \in Threads \ {t} : req'[r] = req[r]
  BY GoFields DEF IInv, Reuse, Steps
<1>2. PICK u \in entries : u = req[t].user
  BY DEF Reuse
<1>3. req[t].pc = "acquire" /\ req[t].kind # "delete" /\ server \notin {"closed", "down"}
  BY DEF At, IInv, KindsFit, RegistryClosed, TypeOK
<1>4. /\ \A v : v # u => Using(v)' = Using(v)
      /\ Cardinality(Using(u)') = Cardinality(Using(u)) + 1
  <2>1. ~At(t, "use") /\ At(t, "use")' /\ req'[t].user = u
    BY <1>1, <1>2, <1>3 DEF At
  <2> QED
    BY <1>1, <2>1, UseStarts
<1>5. /\ inUse' = [inUse EXCEPT ![u] = inUse[u] + 1] /\ older' = UsedLast(u, entries)
      /\ UNCHANGED <<tx, mutex, entries, open, busy, dir, workers, server, refused>>
  BY <1>2 DEF Reuse, disk
<1>6. StrictOrder(older', entries')
  BY <1>2, <1>5, OrderKnown, UsedLastOrdered
<1>7. /\ inUse' \in [Users -> Nat]
      /\ \A v \in entries' : inUse'[v] = Cardinality(Using(v)')
  BY <1>2, <1>4, <1>5 DEF IInv, TypeOK, UsesHeld
<1>8. TypeOK' /\ Ordered'
  BY <1>1, <1>5, <1>6, <1>7 DEF IInv, TypeOK, StrictOrder, Ordered
<1>9. KindsFit' /\ LocksHeld'
  BY <1>1, <1>3, GoLocks DEF IInv, KindsFit, Reuse, Steps, Outside
<1>10. MutexHeld' /\ EntriesOpen'
  BY <1>1, <1>3, <1>5 DEF IInv, MutexHeld, EntriesOpen, At, RegistryClosed
<1>11. UsesHeld'
  <2>1. open = entries
    BY <1>3 DEF IInv, EntriesOpen, RegistryClosed
  <2> QED
    BY <2>1, <1>1, <1>2, <1>5, <1>7 DEF IInv, UsesHeld, At, RegistryClosed
<1>12. Housed' /\ ShutDown' /\ NeverInUse'
  BY <1>1, <1>3, <1>5 DEF IInv, Housed, NeedsDirectory, ShutDown, NeverInUse
<1> QED
  BY <1>5, <1>8, <1>9, <1>10, <1>11, <1>12 DEF IInv

LEMMA OpenWorkspaceStep ==
  ASSUME IInv, NEW t \in Threads, At(t, "acquire"), mutex = None, ~RegistryClosed,
         req[t].user \notin entries, NEW kept,
         \/ Cardinality(entries) < MaxOpen /\ kept = entries
         \/ Evictable # {} /\ kept = entries \ {Oldest(Evictable)},
         OpenWorkspace(t, kept), UNCHANGED <<tx, mutex, workers, server, refused>>
  PROVE  IInv'
<1>1. PICK u \in Users : u = req[t].user
  BY DEF IInv, TypeOK, Request
<1>2. /\ kept \in SUBSET entries /\ IsFiniteSet(kept)
      /\ Cardinality(kept) \in Nat /\ Cardinality(kept) < MaxOpen
      /\ open = entries /\ open \ (entries \ kept) = kept
      /\ \A v \in entries \ kept : inUse[v] = 0 /\ v \notin busy
  BY KeptEntries
<1>3. req[t].pc = "acquire" /\ req[t].kind # "delete" /\ server \notin {"closed", "down"}
  BY DEF At, IInv, KindsFit, RegistryClosed, TypeOK
<1>4. busy \subseteq kept /\ u \notin entries /\ entries \subseteq Users
  BY <1>1, <1>2 DEF IInv, TypeOK
<1>5. \A r \in Threads : req[r].pc = "use" => req[r].user \in kept
  <2> SUFFICES ASSUME NEW r \in Threads, req[r].pc = "use" PROVE req[r].user \in kept
    OBVIOUS
  <2>1. PICK v \in entries : v = req[r].user
    BY DEF IInv, UsesHeld, At
  <2>2. r \in Using(v)
    BY <2>1 DEF Using, At
  <2> QED
    BY <2>1, <2>2, <1>2, Counted
<1>6. Using(u) = {}
  BY <1>4, <1>5, <1>2 DEF Using, At
<1>7. StrictOrder(older, entries)
  BY OrderKnown
<1>8. dir' = dir \cup {u} /\ dir' \in SUBSET Users
  BY <1>1 DEF IInv, TypeOK, OpenWorkspace
<1>9. CASE /\ open' = kept \cup {u} /\ entries' = kept \cup {u} /\ older' = UsedLast(u, kept)
           /\ inUse' = [inUse EXCEPT ![u] = 1] /\ busy' \in {busy, busy \cup {u}}
           /\ Go(t, "use")
  <2>1. /\ req' \in [Threads -> Request]
        /\ req'[t].pc = "use" /\ req'[t].kind = req[t].kind /\ req'[t].user = req[t].user
        /\ \A r \in Threads \ {t} : req'[r] = req[r]
    BY <1>9, GoFields DEF IInv, Steps
  <2>2. /\ \A v : v # u => Using(v)' = Using(v)
        /\ Cardinality(Using(u)') = Cardinality(Using(u)) + 1
    <3>1. ~At(t, "use") /\ At(t, "use")' /\ req'[t].user = u
      BY <1>1, <1>3, <2>1 DEF At
    <3> QED
      BY <2>1, <3>1, UseStarts
  <2>3. Cardinality(Using(u)') = 1
    BY <2>2, <1>6, FS_EmptySet
  <2>4. /\ inUse' \in [Users -> Nat]
        /\ \A v \in entries' : inUse'[v] = Cardinality(Using(v)')
    BY <1>2, <1>4, <1>9, <2>2, <2>3 DEF IInv, TypeOK, UsesHeld
  <2>5. StrictOrder(older', entries')
    BY <1>2, <1>7, <1>9, UsedLastOrdered
  <2>6. IsFiniteSet(entries') /\ Cardinality(entries') <= MaxOpen
    <3>1. u \notin kept /\ entries' = kept \cup {u}
      BY <1>2, <1>4, <1>9
    <3>2. IsFiniteSet(kept \cup {u}) /\ Cardinality(kept \cup {u}) = Cardinality(kept) + 1
      BY <3>1, <1>2, FS_AddElement
    <3> QED
      BY <1>2, <3>1, <3>2, OpenAssumption
  <2>7. TypeOK' /\ Ordered'
    BY <1>2, <1>4, <1>8, <1>9, <2>1, <2>4, <2>5, <2>6 DEF IInv, TypeOK, StrictOrder, Ordered
  <2>8. KindsFit' /\ LocksHeld'
    BY <1>3, <1>9, <2>1, GoLocks DEF IInv, KindsFit, Steps, Outside
  <2>9. MutexHeld' /\ EntriesOpen'
    <3>1. \A r \in Threads : req[r].pc \notin {"close", "remove"}
      BY ThreadsAssumption DEF IInv, MutexHeld
    <3>2. \A r \in Threads : req'[r].pc \notin {"close", "remove"} /\ mutex' # r
      BY <2>1, <3>1, ThreadsAssumption
    <3>3. /\ mutex' = None /\ mutex' \notin Threads /\ mutex' # Server
          /\ open' = entries' /\ server' # "closed"
      BY <1>3, <1>9, ThreadsAssumption, ServerAssumption
    <3> QED
      BY <3>2, <3>3 DEF MutexHeld, EntriesOpen, At
  <2>10. UsesHeld'
    <3>1. \A r \in Threads : req'[r].pc = "use" => req'[r].user \in kept \cup {u}
      BY <1>1, <1>5, <2>1
    <3> QED
      BY <1>9, <2>4, <3>1 DEF UsesHeld, At
  <2>11. Housed'
    BY <1>1, <1>2, <1>3, <1>8, <1>9, <2>1 DEF IInv, Housed, NeedsDirectory
  <2>12. ShutDown' /\ NeverInUse' /\ busy' \subseteq open'
    BY <1>3, <1>4, <1>9 DEF IInv, ShutDown, NeverInUse
  <2> QED
    BY <2>7, <2>8, <2>9, <2>10, <2>11, <2>12 DEF IInv
<1>10. CASE /\ open' = kept /\ entries' = kept /\ older' = Among(kept)
            /\ Go(t, "leave") /\ UNCHANGED <<inUse, busy>>
  <2>1. /\ req' \in [Threads -> Request]
        /\ req'[t].pc = "leave" /\ req'[t].kind = req[t].kind /\ req'[t].user = req[t].user
        /\ \A r \in Threads \ {t} : req'[r] = req[r]
    BY <1>10, GoFields DEF IInv, Steps
  <2>2. \A v : Using(v)' = Using(v)
    BY <1>3, <2>1 DEF Using, At
  <2>3. StrictOrder(older', entries')
    BY <1>2, <1>7, <1>10, AmongOrdered
  <2>4. TypeOK' /\ Ordered'
    BY <1>2, <1>4, <1>8, <1>10, <2>1, <2>3, OpenAssumption DEF IInv, TypeOK, StrictOrder, Ordered
  <2>5. KindsFit' /\ LocksHeld'
    BY <1>3, <1>10, <2>1, GoLocks DEF IInv, KindsFit, Steps, Outside
  <2>6. MutexHeld' /\ EntriesOpen'
    BY <1>3, <1>10, <2>1 DEF IInv, MutexHeld, EntriesOpen, At, RegistryClosed
  <2>7. UsesHeld'
    <3>1. \A r \in Threads : req'[r].pc = "use" => req'[r].user \in kept
      BY <1>5, <2>1
    <3>2. \A v \in entries' : inUse'[v] = Cardinality(Using(v)')
      BY <1>2, <1>10, <2>2 DEF IInv, UsesHeld
    <3> QED
      BY <1>10, <3>1, <3>2 DEF UsesHeld, At
  <2>8. Housed'
    BY <1>2, <1>8, <1>10, <2>1 DEF IInv, Housed, NeedsDirectory
  <2>9. ShutDown' /\ NeverInUse' /\ busy' \subseteq open'
    BY <1>3, <1>4, <1>10 DEF IInv, ShutDown, NeverInUse
  <2> QED
    BY <2>4, <2>5, <2>6, <2>7, <2>8, <2>9 DEF IInv
<1> QED
  BY <1>1, <1>2, <1>9, <1>10 DEF OpenWorkspace

(* A step inside the locks that leaves the registry and the disk as they    *)
(* are, and takes a request that is not at the registry away.               *)
LEMMA TurnedAway ==
  ASSUME IInv, NEW t \in Threads, req[t].pc \in {"acquire", "deregister"}, Go(t, "leave"),
         UNCHANGED <<tx, registry, disk, workers, server, refused>>
  PROVE  IInv'
<1>1. /\ req' \in [Threads -> Request]
      /\ req'[t].pc = "leave" /\ req'[t].kind = req[t].kind /\ req'[t].user = req[t].user
      /\ \A r \in Threads \ {t} : req'[r] = req[r]
  BY GoFields DEF IInv, Steps
<1>2. KindsFit' /\ LocksHeld'
  BY <1>1, GoLocks DEF IInv, KindsFit, Steps, Outside, Alone
<1>3. \A r \in Threads : Tame(r)
  BY <1>1 DEF IInv, Tame, Pinned, NeedsDirectory, Housed, disk
<1> QED
  BY <1>1, <1>2, <1>3, QuietStep DEF IInv, TypeOK, At, disk

LEMMA acquireStep ==
  ASSUME IInv, NEW t \in Threads, acquire(t)
  PROVE  IInv'
<1> DEFINE full == Cardinality(entries) >= MaxOpen
           new == req[t].user \notin entries
<1>1. /\ At(t, "acquire") /\ mutex = None /\ UNCHANGED <<tx, mutex, workers, server, refused>>
  BY DEF acquire
<1>2. CASE ~RegistryClosed /\ Reuse(t)
  BY <1>1, <1>2, ReuseStep
<1>3. CASE ~RegistryClosed /\ new /\ ~full /\ OpenWorkspace(t, entries)
  <2>1. PICK kept \in SUBSET Users : kept = entries
    BY DEF IInv, TypeOK
  <2>2. OpenWorkspace(t, kept)
    BY <1>3, <2>1 DEF OpenWorkspace
  <2>3. Cardinality(entries) < MaxOpen
    BY <1>3, OpenAssumption, OrderKnown, FS_CardinalityType
  <2> QED
    BY <1>1, <1>3, <2>1, <2>2, <2>3, OpenWorkspaceStep
<1>4. CASE ~RegistryClosed /\ new /\ full /\ Evictable # {} /\ OpenWorkspace(t, entries \ {Oldest(Evictable)})
  <2>1. PICK kept \in SUBSET Users : kept = entries \ {Oldest(Evictable)}
    BY DEF IInv, TypeOK
  <2>2. OpenWorkspace(t, kept)
    BY <1>4, <2>1 DEF OpenWorkspace
  <2> QED
    BY <1>1, <1>4, <2>1, <2>2, OpenWorkspaceStep
<1>5. CASE Go(t, "leave") /\ UNCHANGED <<entries, older, inUse, disk>>
  BY <1>1, <1>5, TurnedAway DEF At, registry
<1> QED
  BY <1>2, <1>3, <1>4, <1>5 DEF acquire

-----------------------------------------------------------------------------
(***************************************************************************)
(* The deletion of a user.                                                 *)
(***************************************************************************)
(* While a deletion is at its work, nobody uses the workspace or has an     *)
(* open store in the directory.                                             *)
LEMMA DeletionAlone ==
  ASSUME IInv, NEW t \in Threads, req[t].pc \in {"cancel", "deregister", "close", "remove"}
  PROVE  /\ req[t].kind = "delete"
         /\ \A r \in Threads : req[r].pc \notin Outside /\ Shard(r) = Shard(t) => r = t
         /\ \A r \in Threads : req[r].user = req[t].user =>
              req[r].pc # "use" /\ ~NeedsDirectory(req[r])
<1>1. req[t].kind = "delete" /\ req[t].pc \in Alone
  BY DEF IInv, KindsFit, Alone
<1>2. \A r \in Threads : req[r].pc \notin Outside /\ Shard(r) = Shard(t) => r = t
  BY <1>1 DEF IInv, LocksHeld, Outside, Alone
<1> QED
  BY <1>1, <1>2 DEF Shard, Outside, NeedsDirectory

LEMMA DeregisterStep ==
  ASSUME IInv, NEW t \in Threads, Deregister(t)
  PROVE  IInv'
<1>1. PICK u \in Users : u = req[t].user
  BY DEF IInv, TypeOK, Request
<1>2. /\ req[t].pc = "deregister" /\ mutex = None
      /\ UNCHANGED <<tx, inUse, open, busy, dir, workers, server>>
  BY DEF Deregister, At, disk
<1>3. Using(u) = {}
  BY <1>1, <1>2, DeletionAlone DEF Using, At
<1>4. u \in entries => inUse[u] = 0
  BY <1>3, Counted
<1>5. CASE RegistryClosed /\ Go(t, "leave") /\ UNCHANGED <<mutex, entries, older, refused>>
  BY <1>2, <1>5, TurnedAway DEF registry, disk
<1>6. ASSUME ~RegistryClosed,
             NEW pc \in {"close", "remove"}, Go(t, pc), mutex' = t, UNCHANGED refused,
             \/ /\ pc = "close" /\ u \in entries
                /\ entries' = entries \ {u} /\ older' = Among(entries \ {u})
             \/ pc = "remove" /\ u \notin entries /\ UNCHANGED <<entries, older>>
      PROVE  IInv'
  <2>1. /\ req' \in [Threads -> Request]
        /\ req'[t].pc = pc /\ req'[t].kind = req[t].kind /\ req'[t].user = req[t].user
        /\ \A r \in Threads \ {t} : req'[r] = req[r]
    BY <1>6, GoFields DEF IInv, Steps
  <2>2. open = entries /\ server \notin {"closed", "down"}
    BY <1>2, <1>6 DEF IInv, EntriesOpen, RegistryClosed
  <2>3. IsFiniteSet(entries) /\ StrictOrder(older, entries)
    BY OrderKnown
  <2>4. /\ entries' \subseteq entries /\ u \notin entries'
        /\ IsFiniteSet(entries') /\ StrictOrder(older', entries')
        /\ Cardinality(entries') \in Nat /\ Cardinality(entries') <= Cardinality(entries)
    BY <1>6, <2>3, AmongOrdered, FS_Subset, FS_CardinalityType
  <2>5. Cardinality(entries) \in Nat /\ Cardinality(entries) <= MaxOpen
    BY <2>3, FS_CardinalityType DEF IInv, TypeOK
  <2>6. TypeOK' /\ Ordered'
    <3>1. Cardinality(entries') <= MaxOpen
      BY <2>4, <2>5, OpenAssumption
    <3> QED
      BY <1>2, <1>6, <2>1, <2>4, <3>1 DEF IInv, TypeOK, StrictOrder, Ordered
  <2>7. KindsFit' /\ LocksHeld'
    BY <1>2, <1>6, <2>1, GoLocks DEF IInv, KindsFit, Steps, Outside, Alone
  <2>8. \A r \in Threads \ {t} : req[r].pc \notin {"close", "remove"}
    BY <1>2, ThreadsAssumption DEF IInv, MutexHeld
  <2>9. MutexHeld'
    BY <1>2, <1>6, <2>1, <2>2, <2>8, ThreadsAssumption DEF MutexHeld, RegistryClosed
  <2>10. EntriesOpen'
    <3>1. mutex' \notin {None, Server} /\ server' # "closed"
      BY <1>2, <1>6, <2>2, ThreadsAssumption
    <3>2. At(t, "close")' => req'[t].user \notin entries' /\ open' = entries' \cup {req'[t].user}
      BY <1>1, <1>2, <1>6, <2>1, <2>2 DEF At
    <3>3. At(t, "remove")' => req'[t].user \notin entries' /\ open' = entries'
      BY <1>1, <1>2, <1>6, <2>1, <2>2 DEF At
    <3> QED
      BY <2>1, <2>8, <3>1, <3>2, <3>3 DEF EntriesOpen, At
  <2>11. UsesHeld'
    <3>1. \A v : Using(v)' = Using(v)
      BY <1>2, <1>6, <2>1 DEF Using, At
    <3>2. \A r \in Threads : req'[r].pc = "use" =>
             req[r].pc = "use" /\ req'[r].user = req[r].user /\ req[r].user # u
      BY <1>1, <1>2, <1>6, <2>1, DeletionAlone
    <3>3. \A r \in Threads : req'[r].pc = "use" => req'[r].user \in entries'
      BY <1>6, <3>2 DEF IInv, UsesHeld, At
    <3> QED
      BY <1>2, <2>2, <2>4, <3>1, <3>3 DEF IInv, UsesHeld, At
  <2>12. Housed' /\ ShutDown' /\ NeverInUse' /\ busy' \subseteq open'
    BY <1>2, <1>6, <2>1, <2>2 DEF IInv, Housed, NeedsDirectory, ShutDown, NeverInUse
  <2> QED
    BY <2>6, <2>7, <2>9, <2>10, <2>11, <2>12 DEF IInv
<1>7. CASE /\ ~RegistryClosed /\ u \in entries /\ inUse[u] = 0
           /\ entries' = entries \ {u} /\ older' = Among(entries \ {u})
           /\ mutex' = t /\ Go(t, "close") /\ UNCHANGED refused
  BY <1>6, <1>7
<1>8. CASE /\ ~RegistryClosed /\ u \notin entries
           /\ mutex' = t /\ Go(t, "remove") /\ UNCHANGED <<entries, older, refused>>
  BY <1>6, <1>8
<1> QED
  BY <1>1, <1>4, <1>5, <1>7, <1>8 DEF Deregister

LEMMA CloseWorkspaceStep ==
  ASSUME IInv, NEW t \in Threads, CloseWorkspace(t)
  PROVE  IInv'
<1>1. PICK u \in Users : u = req[t].user
  BY DEF IInv, TypeOK, Request
<1>2. /\ req[t].pc = "close" /\ u \notin busy /\ open' = open \ {u}
      /\ UNCHANGED <<tx, entries, older, inUse, busy, workers, dir, server, refused>>
  BY <1>1 DEF CloseWorkspace, At
<1>3. PICK pc \in {"remove", "leave"} : Go(t, pc) /\ mutex' = IF pc = "remove" THEN mutex ELSE None
  BY DEF CloseWorkspace
<1>4. /\ req' \in [Threads -> Request]
      /\ req'[t].pc = pc /\ req'[t].kind = req[t].kind /\ req'[t].user = req[t].user
      /\ \A r \in Threads \ {t} : req'[r] = req[r]
  BY <1>3, GoFields DEF IInv, Steps
<1>5. /\ mutex = t /\ ~RegistryClosed /\ server \notin {"closed", "down"}
      /\ u \notin entries /\ open = entries \cup {u}
      /\ \A r \in Threads \ {t} : req[r].pc \notin {"close", "remove"}
  BY <1>1, <1>2 DEF IInv, MutexHeld, EntriesOpen, At, RegistryClosed
<1>6. open' = entries'
  BY <1>2, <1>5
<1>7. TypeOK'
  BY <1>2, <1>3, <1>4, <1>5 DEF IInv, TypeOK
<1>8. KindsFit' /\ LocksHeld'
  BY <1>2, <1>3, <1>4, GoLocks DEF IInv, KindsFit, Steps, Outside, Alone
<1>9. MutexHeld' /\ EntriesOpen'
  <2>1. mutex' # Server /\ server' # "closed" /\ ~RegistryClosed'
    BY <1>2, <1>3, <1>5, ThreadsAssumption, ServerAssumption DEF RegistryClosed
  <2>2. \A r \in Threads : req'[r].pc \in {"close", "remove"} <=> mutex' = r
    BY <1>3, <1>4, <1>5, ThreadsAssumption
  <2>3. MutexHeld'
    BY <2>1, <2>2 DEF MutexHeld
  <2>4. EntriesOpen'
    BY <1>1, <1>2, <1>3, <1>4, <1>5, <1>6, <2>1 DEF EntriesOpen, At
  <2> QED
    BY <2>3, <2>4
<1>10. UsesHeld'
  <2>1. \A v : Using(v)' = Using(v)
    BY <1>2, <1>3, <1>4 DEF Using, At
  <2>2. \A r \in Threads : req'[r].pc = "use" => req'[r].user \in entries
    BY <1>3, <1>4, <1>5 DEF IInv, UsesHeld, At
  <2> QED
    BY <1>2, <1>6, <2>1, <2>2 DEF IInv, UsesHeld, At
<1>11. Ordered' /\ Housed' /\ ShutDown' /\ NeverInUse' /\ busy' \subseteq open'
  BY <1>2, <1>3, <1>4, <1>5 DEF IInv, Ordered, Housed, NeedsDirectory, ShutDown, NeverInUse
<1> QED
  BY <1>7, <1>8, <1>9, <1>10, <1>11 DEF IInv

LEMMA RemoveDirectoryStep ==
  ASSUME IInv, NEW t \in Threads, RemoveDirectory(t)
  PROVE  IInv'
<1>1. PICK u \in Users : u = req[t].user
  BY DEF IInv, TypeOK, Request
<1>2. /\ req[t].pc = "remove" /\ dir' \in {dir, dir \ {u}} /\ mutex' = None
      /\ UNCHANGED <<tx, entries, older, inUse, open, busy, workers, server, refused>>
  BY <1>1 DEF RemoveDirectory, At
<1>3. /\ req' \in [Threads -> Request]
      /\ req'[t].pc = "leave" /\ req'[t].kind = req[t].kind /\ req'[t].user = req[t].user
      /\ \A r \in Threads \ {t} : req'[r] = req[r]
  BY GoFields DEF IInv, Steps, RemoveDirectory
<1>4. /\ mutex = t /\ ~RegistryClosed /\ server \notin {"closed", "down"}
      /\ u \notin entries /\ open = entries
      /\ \A r \in Threads \ {t} : req[r].pc \notin {"close", "remove"}
  BY <1>1, <1>2 DEF IInv, MutexHeld, EntriesOpen, At, RegistryClosed
<1>5. TypeOK'
  BY <1>2, <1>3 DEF IInv, TypeOK
<1>6. KindsFit' /\ LocksHeld'
  BY <1>2, <1>3, GoLocks DEF IInv, KindsFit, Steps, Outside, Alone, RemoveDirectory
<1>7. MutexHeld' /\ EntriesOpen'
  BY <1>2, <1>3, <1>4, ThreadsAssumption, ServerAssumption
     DEF MutexHeld, EntriesOpen, At, RegistryClosed
<1>8. UsesHeld'
  <2>1. \A v : Using(v)' = Using(v)
    BY <1>2, <1>3 DEF Using, At
  <2> QED
    BY <1>2, <1>3, <1>4, <2>1 DEF IInv, UsesHeld, At, RegistryClosed
<1>9. Housed'
  <2>1. \A r \in Threads : NeedsDirectory(req'[r]) => req[r] = req'[r] /\ req'[r].user # u
    BY <1>1, <1>2, <1>3, DeletionAlone DEF NeedsDirectory
  <2> QED
    BY <1>2, <1>4, <2>1 DEF IInv, Housed
<1>10. Ordered' /\ ShutDown' /\ NeverInUse' /\ busy' \subseteq open'
  BY <1>2, <1>4 DEF IInv, Ordered, ShutDown, NeverInUse
<1> QED
  BY <1>5, <1>6, <1>7, <1>8, <1>9, <1>10 DEF IInv

-----------------------------------------------------------------------------
(***************************************************************************)
(* Shutdown and restart.                                                   *)
(***************************************************************************)
LEMMA CloseRegistryStep ==
  ASSUME IInv, CloseRegistry
  PROVE  IInv'
<1>1. /\ server = "closing" /\ server' = "closed" /\ mutex = None /\ mutex' = Server
      /\ UNCHANGED <<req, tx, entries, older, inUse, open, busy, dir, workers, refused>>
  BY DEF CloseRegistry, disk
<1>2. open = entries /\ \A r \in Threads : req[r].pc \notin {"close", "remove"}
  BY <1>1, ThreadsAssumption DEF IInv, EntriesOpen, MutexHeld, RegistryClosed
<1>3. TypeOK' /\ KindsFit' /\ LocksHeld'
  BY <1>1 DEF IInv, TypeOK, KindsFit, LocksHeld, Shard
<1>4. MutexHeld' /\ EntriesOpen'
  BY <1>1, <1>2, ThreadsAssumption, ServerAssumption DEF MutexHeld, EntriesOpen, At, RegistryClosed
<1>5. UsesHeld'
  <2>1. \A v : Using(v)' = Using(v)
    BY <1>1 DEF Using, At
  <2> QED
    BY <1>1, <2>1 DEF IInv, UsesHeld, At, RegistryClosed
<1>6. Ordered' /\ Housed' /\ NeverInUse' /\ busy' \subseteq open'
  BY <1>1 DEF IInv, Ordered, Housed, NeverInUse
<1>7. ShutDown'
  BY <1>1 DEF IInv, ShutDown
<1> QED
  BY <1>3, <1>4, <1>5, <1>6, <1>7 DEF IInv

LEMMA CloseWorkspacesStep ==
  ASSUME IInv, CloseWorkspaces
  PROVE  IInv'
<1>1. /\ mutex = Server /\ mutex' = None /\ Unused \cap busy = {} /\ open' = open \ Unused
      /\ entries' = {} /\ older' = {} /\ inUse' = [u \in Users |-> 0]
      /\ UNCHANGED <<req, tx, busy, workers, dir, server, refused>>
  BY DEF CloseWorkspaces
<1>2. /\ server = "closed" /\ open = entries
      /\ \A r \in Threads : req[r].pc \notin {"close", "remove"}
  BY <1>1, ThreadsAssumption DEF IInv, EntriesOpen, MutexHeld
<1>3. TypeOK' /\ Ordered'
  BY <1>1, FS_EmptySet, OpenAssumption DEF IInv, TypeOK, Ordered
<1>4. KindsFit' /\ LocksHeld'
  BY <1>1 DEF IInv, KindsFit, LocksHeld, Shard
<1>5. MutexHeld' /\ EntriesOpen'
  BY <1>1, <1>2, ThreadsAssumption, ServerAssumption DEF MutexHeld, EntriesOpen, At, RegistryClosed
<1>6. UsesHeld'
  <2>1. \A r \in Threads : req[r].pc = "use" => req[r].user \in open'
    <3> SUFFICES ASSUME NEW r \in Threads, req[r].pc = "use" PROVE req[r].user \in open'
      OBVIOUS
    <3>1. PICK v \in entries : v = req[r].user
      BY <1>1 DEF IInv, UsesHeld, At
    <3>2. r \in Using(v)
      BY <3>1 DEF Using, At
    <3> QED
      BY <1>1, <1>2, <3>1, <3>2, Counted DEF Unused
  <2> QED
    BY <1>1, <1>2, <2>1, ServerAssumption DEF UsesHeld, At, RegistryClosed
<1>7. Housed' /\ NeverInUse' /\ busy' \subseteq open'
  BY <1>1 DEF IInv, Housed, NeverInUse
<1>8. ShutDown'
  BY <1>1, <1>2 DEF IInv, ShutDown
<1> QED
  BY <1>3, <1>4, <1>5, <1>6, <1>7, <1>8 DEF IInv

(* With every request at rest and nothing open, only the directories count. *)
LEMMA AtRest ==
  ASSUME req = AllIdle, tx = [s \in Shards |-> None], mutex = None,
         entries = {}, older = {}, inUse = [u \in Users |-> 0],
         open = {}, busy = {}, workers = {}, dir \in SUBSET Users,
         server \in {"serving", "down"}, refused = FALSE
  PROVE  IInv
<1>1. Idle \in Request /\ Idle.pc = "idle"
  BY UsersAssumption DEF Idle, Request, Steps, Kinds
<1>2. req \in [Threads -> Request] /\ \A r \in Threads : req[r].pc = "idle"
  BY <1>1 DEF AllIdle
<1>3. TypeOK /\ Ordered
  <2>1. IsFiniteSet(entries) /\ Cardinality(entries) <= MaxOpen
    BY FS_EmptySet, OpenAssumption
  <2>2. tx \in [Shards -> Threads \cup {None}] /\ inUse \in [Users -> Nat]
    OBVIOUS
  <2>3. entries \in SUBSET Users /\ older \in SUBSET (entries \X entries)
    OBVIOUS
  <2>4. TypeOK
    BY <1>2, <2>1, <2>2, <2>3 DEF TypeOK
  <2>5. Ordered
    BY <2>1 DEF Ordered
  <2> QED
    BY <2>4, <2>5
<1>4. KindsFit /\ LocksHeld /\ Housed
  BY <1>2 DEF KindsFit, LocksHeld, Housed, Alone, NeedsDirectory
<1>5. ShutDown /\ NeverInUse
  BY <1>2 DEF ShutDown, NeverInUse, At
<1>6. MutexHeld
  BY <1>2, ThreadsAssumption, ServerAssumption DEF MutexHeld
<1>7. EntriesOpen /\ UsesHeld
  BY <1>2, ServerAssumption DEF EntriesOpen, UsesHeld, At
<1> QED
  BY <1>3, <1>4, <1>5, <1>6, <1>7 DEF IInv

LEMMA ExitStep ==
  ASSUME IInv, Exit
  PROVE  IInv'
<1>1. Idle \in Request /\ Idle.pc = "idle"
  BY UsersAssumption DEF Idle, Request, Steps, Kinds
<1>2. req' \in [Threads -> Request] /\ \A r \in Threads : req'[r].pc = "idle"
  BY <1>1 DEF AllIdle, Exit
<1>3. TypeOK' /\ Ordered'
  BY <1>2, FS_EmptySet, OpenAssumption DEF IInv, TypeOK, Ordered, Exit
<1>4. KindsFit' /\ LocksHeld' /\ Housed' /\ ShutDown' /\ NeverInUse' /\ busy' \subseteq open'
  BY <1>2 DEF IInv, KindsFit, LocksHeld, Housed, ShutDown, NeverInUse, At, Alone,
              NeedsDirectory, Exit
<1>5. MutexHeld' /\ EntriesOpen' /\ UsesHeld'
  BY <1>2, ThreadsAssumption, ServerAssumption DEF MutexHeld, EntriesOpen, UsesHeld, At, Exit
<1> QED
  BY <1>3, <1>4, <1>5 DEF IInv

LEMMA RestartStep ==
  ASSUME IInv, Restart
  PROVE  IInv'
<1>1. /\ server = "down" /\ server' = "serving"
      /\ UNCHANGED <<req, tx, mutex, entries, older, inUse, open, busy, dir, workers, refused>>
  BY DEF Restart, registry, disk
<1>2. /\ \A r \in Threads : req[r].pc = "idle"
      /\ open = {} /\ entries = {} /\ busy = {}
  BY <1>1 DEF IInv, ShutDown, At
<1>3. mutex = None
  BY <1>1, <1>2, ThreadsAssumption DEF IInv, TypeOK, MutexHeld
<1>4. TypeOK' /\ KindsFit' /\ LocksHeld' /\ Ordered' /\ Housed' /\ NeverInUse'
  BY <1>1 DEF IInv, TypeOK, KindsFit, LocksHeld, Shard, Ordered, Housed, NeverInUse
<1>5. MutexHeld' /\ EntriesOpen' /\ UsesHeld'
  BY <1>1, <1>2, <1>3, ThreadsAssumption, ServerAssumption
     DEF MutexHeld, EntriesOpen, UsesHeld, At
<1>6. ShutDown' /\ busy' \subseteq open'
  BY <1>1, <1>2 DEF ShutDown
<1> QED
  BY <1>4, <1>5, <1>6 DEF IInv

-----------------------------------------------------------------------------
(***************************************************************************)
(* The theorems.                                                           *)
(***************************************************************************)
LEMMA InitHolds == Init => IInv
BY AtRest DEF Init

LEMMA NextStep ==
  ASSUME IInv, Next
  PROVE  IInv'
<1>1. ASSUME NEW t \in Threads, Serve(t)
      PROVE  IInv'
  BY <1>1, RLockStep, LockStep, DrainedStep, LeaveStep, TxLockStep, OpenStoreStep, TransactStep,
     acquireStep, releaseStep, CancelUserStep, DeregisterStep, CloseWorkspaceStep,
     RemoveDirectoryStep DEF Serve
<1>2. ASSUME NEW t \in Threads, NEW kind \in Served, NEW u \in Users, Arrive(t, kind, u)
      PROVE  IInv'
  BY <1>2, ServedAssumption, ArriveStep DEF Kinds
<1>3. CASE Stop
  BY <1>3, ShutdownStep, ClosePrimeStep, CloseRegistryStep, CloseWorkspacesStep, ExitStep,
     RestartStep DEF Stop
<1> QED
  BY <1>1, <1>2, <1>3, StartOperationStep, WorkerEndsStep, OperationEndsStep DEF Next

LEMMA StutterStep ==
  ASSUME IInv, UNCHANGED vars
  PROVE  IInv'
<1>1. \A u : Using(u)' = Using(u)
  BY DEF vars, Using, At
<1>2. UsesHeld'
  BY <1>1 DEF IInv, UsesHeld, vars, At, RegistryClosed
<1> QED
  BY <1>2 DEF IInv, vars, TypeOK, KindsFit, LocksHeld, MutexHeld, EntriesOpen, Ordered, Housed,
              ShutDown, NeverInUse, At, Shard, RegistryClosed

LEMMA Invariance == Spec => []IInv
<1>1. IInv /\ [Next]_vars => IInv'
  BY NextStep, StutterStep
<1> QED
  BY <1>1, InitHolds, PTL DEF Spec

(* Every variable keeps its type, the registry never holds more entries    *)
(* than MaxOpenUserNetflixWorkspaces, and lastUse orders them.             *)
THEOREM RegistryTyped == Spec => []TypeOK
<1>1. IInv => TypeOK
  BY DEF IInv
<1> QED
  BY <1>1, Invariance, PTL

(* Whatever acquire, releaseFunction, evictions, deletions and the shutdown *)
(* do, inUse of an entry is the number of requests that use its workspace,  *)
(* and no more than MaxOpenUserNetflixWorkspaces workspaces have an entry.  *)
THEOREM UsesAreCounted == Spec => []UsesCounted
<1>1. IInv => UsesCounted
  BY DEF IInv, TypeOK, UsesHeld, UsesCounted
<1> QED
  BY <1>1, Invariance, PTL

(* A workspace that a request uses or that has running operations is open,  *)
(* with its lease, whatever acquire evicts, deleteUser closes or the        *)
(* shutdown closes meanwhile.                                               *)
THEOREM UsedStaysOpen == Spec => []OpenWhileUsed
<1>1. IInv => OpenWhileUsed
  BY DEF IInv, UsesHeld, OpenWhileUsed, UsersAt, At
<1> QED
  BY <1>1, Invariance, PTL

(* While the server serves and nobody closes a workspace, the entries of    *)
(* the registry are exactly the open workspaces.                            *)
THEOREM EntriesAreOpen == Spec => []NoneForgotten
<1>1. IInv => NoneForgotten
  BY DEF IInv, EntriesOpen, NoneForgotten, RegistryClosed
<1> QED
  BY <1>1, Invariance, PTL

(* The deletion of a user takes the directory away only when no workspace   *)
(* is open in it and no request has a store open in it.                     *)
THEOREM DirectoryKept == Spec => []DirectoryStays
<1>1. IInv => DirectoryStays
  BY DEF IInv, Housed, NeedsDirectory, DirectoryStays, UsersAt
<1> QED
  BY <1>1, Invariance, PTL

(* deleteUser never meets a workspace in use: errWorkspaceInUse cannot be   *)
(* its answer, because the middleware has the deletion alone in its shard.  *)
THEOREM DeletionFindsNoUse == Spec => []NeverInUse
<1>1. IInv => NeverInUse
  BY DEF IInv
<1> QED
  BY <1>1, Invariance, PTL

(* From the cancellation of the workers on, the deletion of a user is the   *)
(* only request inside the lock of its shard.                               *)
THEOREM DeletionIsAlone ==
  Spec => [](\A t \in Threads :
               req[t].pc \in {"cancel", "deregister", "close", "remove"} =>
                 /\ req[t].kind = "delete"
                 /\ \A r \in Threads : req[r].pc \notin Outside /\ Shard(r) = Shard(t) => r = t)
<1>1. IInv => \A t \in Threads :
               req[t].pc \in {"cancel", "deregister", "close", "remove"} =>
                 /\ req[t].kind = "delete"
                 /\ \A r \in Threads : req[r].pc \notin Outside /\ Shard(r) = Shard(t) => r = t
  BY DeletionAlone
<1> QED
  BY <1>1, Invariance, PTL
===============================================================================
