--------------------------- MODULE WorkspaceRegistry ---------------------------
(***************************************************************************)
(* The locks and the registry between the requests of all users and the    *)
(* users' directories (src/internal/httpapi/workspaces.go, with the        *)
(* middleware and the deletion of a user in auth.go, the transactions of   *)
(* prime_operations.go, and the shutdown in server.go and main.go).        *)
(*                                                                         *)
(* A request holds a read-write lock of its user's shard; the deletion of  *)
(* the user holds it alone.  Under it, requests on Prime data take the     *)
(* transaction lock of the shard, and requests on Netflix data take a      *)
(* reference to the user's workspace from the registry.                    *)
(***************************************************************************)
EXTENDS FiniteSets, Naturals

CONSTANTS
  Threads,   \* goroutines that serve requests or run Prime transactions
  Users,     \* authenticated users
  Shards,    \* userRequestLockShardCount
  ShardOf,   \* the shard of a user's storage ID
  MaxOpen,   \* MaxOpenUserNetflixWorkspaces
  Served,    \* bound: the kinds of requests that arrive
  Server,    \* the goroutine that shuts the server down
  None       \* nobody

ASSUME ThreadsAssumption == IsFiniteSet(Threads) /\ None \notin Threads /\ Server \notin Threads
ASSUME ServerAssumption == Server # None
ASSUME UsersAssumption == Users # {} /\ ShardOf \in [Users -> Shards]
ASSUME OpenAssumption == MaxOpen \in Nat \ {0}
ASSUME ServedAssumption == Served \subseteq {"netflix", "prime", "history", "worker", "delete"}

VARIABLES
  req,      \* per thread, the request it serves
  tx,       \* per shard, the holder of primeOperations.transactions
  mutex,    \* the holder of registry.mutex while a workspace closes
  entries,  \* the users of registry.entries
  older,    \* the pairs of them whose first one has the smaller lastUse
  inUse,    \* entry.inUse
  open,     \* the users whose workspace is open: its lease is held
  busy,     \* the users whose open workspace has running operations
  workers,  \* the users with a Prime worker that is not cancelled
  dir,      \* the users whose directory exists
  server,   \* how far the shutdown has come
  refused   \* whether a deletion has met errWorkspaceInUse

registry == <<mutex, entries, older, inUse>>
disk == <<open, busy, dir>>
vars == <<req, tx, mutex, entries, older, inUse, open, busy, workers, dir, server, refused>>

-----------------------------------------------------------------------------
(***************************************************************************)
(* Requests: on Netflix data, on Prime data, on the history of both, the   *)
(* transaction of a Prime worker, and the deletion of the user.            *)
(***************************************************************************)
Kinds == {"netflix", "prime", "history", "worker", "delete"}

Steps == {"idle", "shard", "blocked", "drain", "tx", "store", "work", "acquire",
          "use", "cancel", "deregister", "close", "remove", "leave"}

Request == [pc : Steps, kind : Kinds, user : Users, cancelled : BOOLEAN]

TypeOK ==
  /\ req \in [Threads -> Request]
  /\ tx \in [Shards -> Threads \cup {None}]
  /\ mutex \in Threads \cup {Server, None}
  /\ entries \in SUBSET Users /\ Cardinality(entries) <= MaxOpen
  /\ older \in SUBSET (entries \X entries)
  /\ \A u, v \in entries : u # v => (<<u, v>> \in older <=> <<v, u>> \notin older)
  /\ inUse \in [Users -> Nat]
  /\ open \in SUBSET Users /\ busy \in SUBSET Users
  /\ workers \in SUBSET Users /\ dir \in SUBSET Users
  /\ server \in {"serving", "draining", "closing", "closed", "down"}
  /\ refused \in BOOLEAN

Idle == [pc |-> "idle", kind |-> "prime", user |-> CHOOSE u \in Users : TRUE, cancelled |-> FALSE]

AllIdle == [t \in Threads |-> Idle]

Init ==
  /\ req = AllIdle
  /\ tx = [s \in Shards |-> None] /\ mutex = None
  /\ entries = {} /\ older = {} /\ inUse = [u \in Users |-> 0]
  /\ open = {} /\ busy = {} /\ workers = {} /\ dir = {}
  /\ server = "serving" /\ refused = FALSE

At(t, pc) == req[t].pc = pc

Go(t, pc) == req' = [req EXCEPT ![t] = [req[t] EXCEPT !.pc = pc]]

(* A request comes in until the shutdown begins, a transaction of a worker  *)
(* as long as the worker is not cancelled.                                  *)
Arrive(t, kind, u) ==
  /\ At(t, "idle")
  /\ IF kind = "worker" THEN u \in workers ELSE server = "serving"
  /\ req' = [req EXCEPT ![t] = [pc |-> "shard", kind |-> kind, user |-> u, cancelled |-> FALSE]]
  /\ UNCHANGED <<tx, registry, disk, workers, server, refused>>

-----------------------------------------------------------------------------
(***************************************************************************)
(* The lock of a shard, a sync.RWMutex: a writer first keeps out other     *)
(* writers and new readers, and then waits for the readers that are in.    *)
(***************************************************************************)
Shard(t) == ShardOf[req[t].user]

Readers(s) ==
  {t \in Threads : /\ req[t].kind # "delete" /\ Shard(t) = s
                   /\ req[t].pc \notin {"idle", "shard", "blocked"}}

Writers(s) ==
  {t \in Threads : /\ req[t].kind = "delete" /\ Shard(t) = s
                   /\ req[t].pc \notin {"idle", "shard"}}

Entered(x) == [x EXCEPT !.pc = IF x.kind = "netflix" THEN "acquire" ELSE "tx"]

(* Mutant: the middleware takes the lock as a reader for a deletion, too. *)
RLockMutant(t) ==
  /\ At(t, "shard")
  /\ req' = [req EXCEPT ![t] = IF req[t].kind = "delete" THEN [req[t] EXCEPT !.pc = "cancel"]
                               ELSE IF Writers(Shard(t)) = {} THEN Entered(req[t])
                               ELSE [req[t] EXCEPT !.pc = "blocked"]]
  /\ UNCHANGED <<tx, registry, disk, workers, server, refused>>

(* Mutant: readers pass a writer that still waits. *)
RLockPassingMutant(t) ==
  /\ At(t, "shard") /\ req[t].kind # "delete"
  /\ req' = [req EXCEPT ![t] =
       IF \A r \in Writers(Shard(t)) : At(r, "drain") THEN Entered(req[t])
       ELSE [req[t] EXCEPT !.pc = "blocked"]]
  /\ UNCHANGED <<tx, registry, disk, workers, server, refused>>

RLock(t) ==
  /\ At(t, "shard") /\ req[t].kind # "delete"
  /\ req' = [req EXCEPT ![t] = IF Writers(Shard(t)) = {} THEN Entered(req[t])
                               ELSE [req[t] EXCEPT !.pc = "blocked"]]
  /\ UNCHANGED <<tx, registry, disk, workers, server, refused>>

Lock(t) ==
  /\ At(t, "shard") /\ req[t].kind = "delete" /\ Writers(Shard(t)) = {}
  /\ Go(t, "drain")
  /\ UNCHANGED <<tx, registry, disk, workers, server, refused>>

(* Mutant: the writer does not wait for the readers. *)
DrainedMutant(t) ==
  /\ At(t, "drain")
  /\ Go(t, "cancel")
  /\ UNCHANGED <<tx, registry, disk, workers, server, refused>>

Drained(t) ==
  /\ At(t, "drain") /\ Readers(Shard(t)) = {}
  /\ Go(t, "cancel")
  /\ UNCHANGED <<tx, registry, disk, workers, server, refused>>

(* The end of a request frees its locks; the unlock of a writer lets all    *)
(* readers in that have waited for it, before another writer can follow.    *)
Leave(t) ==
  /\ At(t, "leave")
  /\ req' = [r \in Threads |->
       IF r = t THEN Idle
       ELSE IF req[t].kind = "delete" /\ At(r, "blocked") /\ Shard(r) = Shard(t)
         THEN Entered(req[r])
         ELSE req[r]]
  /\ tx' = [s \in Shards |-> IF tx[s] = t THEN None ELSE tx[s]]
  /\ UNCHANGED <<registry, disk, workers, server, refused>>

-----------------------------------------------------------------------------
(***************************************************************************)
(* Transactions on Prime data, as PrimeLibrary details them.               *)
(***************************************************************************)
TxLock(t) ==
  /\ At(t, "tx") /\ tx[Shard(t)] = None
  /\ tx' = [tx EXCEPT ![Shard(t)] = t]
  /\ Go(t, "store")
  /\ UNCHANGED <<registry, disk, workers, server, refused>>

(* Opening the store makes the directory, unless the context is cancelled:  *)
(* that of a worker, or of a request whose client has gone.                 *)
OpenStore(t) ==
  /\ At(t, "store")
  /\ \/ /\ ~req[t].cancelled /\ dir' = dir \cup {req[t].user}
        /\ Go(t, IF req[t].kind = "history" THEN "acquire" ELSE "work")
     \/ /\ req[t].kind = "worker" => req[t].cancelled
        /\ Go(t, "leave") /\ UNCHANGED dir
  /\ UNCHANGED <<tx, registry, open, busy, workers, server, refused>>

(* A request may start a worker unless the operations are closed.           *)
Transact(t) ==
  /\ At(t, "work") /\ Go(t, "leave")
  /\ \/ UNCHANGED workers
     \/ /\ req[t].kind = "prime" /\ server \in {"serving", "draining"}
        /\ workers' = workers \cup {req[t].user}
  /\ UNCHANGED <<tx, registry, disk, server, refused>>

WorkerEnds(u) ==
  /\ u \in workers /\ workers' = workers \ {u}
  /\ UNCHANGED <<req, tx, registry, disk, server, refused>>

CancelWorkers(S) ==
  /\ workers' = workers \ S
  /\ req' = [t \in Threads |->
       IF req[t].kind = "worker" /\ req[t].user \in S
         THEN [req[t] EXCEPT !.cancelled = TRUE] ELSE req[t]]

-----------------------------------------------------------------------------
(***************************************************************************)
(* The registry.  registry.mutex is held through each of these operations. *)
(***************************************************************************)
RegistryClosed == server \in {"closed", "down"}

(* Mutant: running operations do not keep a workspace from eviction. *)
EvictableMutant == {u \in entries : inUse[u] = 0}

(* evictOneIdleLocked takes the least recently used of these.               *)
Evictable == {u \in entries : inUse[u] = 0 /\ u \notin busy}

Oldest(S) == CHOOSE u \in S : \A v \in S : <<v, u>> \notin older

(* The order when the entries S remain, or when u of them is used now.      *)
Among(S) == older \cap (S \X S)

UsedLast(u, S) == Among(S \ {u}) \cup ((S \ {u}) \X {u})

(* Mutant: a workspace found open is counted as one just opened. *)
ReuseMutant(t) ==
  LET u == req[t].user IN
  /\ u \in entries
  /\ inUse' = [inUse EXCEPT ![u] = 1] /\ older' = UsedLast(u, entries)
  /\ Go(t, "use") /\ UNCHANGED <<entries, disk>>

Reuse(t) ==
  LET u == req[t].user IN
  /\ u \in entries
  /\ inUse' = [inUse EXCEPT ![u] = inUse[u] + 1] /\ older' = UsedLast(u, entries)
  /\ Go(t, "use") /\ UNCHANGED <<entries, disk>>

(* Mutant: an evicted workspace is dropped and not closed. *)
OpenWorkspaceMutant(t, kept) ==
  LET u == req[t].user IN
  /\ dir' = dir \cup {u}
  /\ \/ /\ u \notin open /\ open' = open \cup {u}
        /\ entries' = kept \cup {u} /\ older' = UsedLast(u, kept)
        /\ inUse' = [inUse EXCEPT ![u] = 1]
        /\ busy' \in {busy, busy \cup {u}}
        /\ Go(t, "use")
     \/ /\ open' = open /\ entries' = kept /\ older' = Among(kept)
        /\ Go(t, "leave") /\ UNCHANGED <<inUse, busy>>

(* Open makes the directory and takes the lease, and may resume a build; it *)
(* fails while the lease is held, and may fail for other reasons.  kept are *)
(* the entries that an eviction has left.                                   *)
OpenWorkspace(t, kept) ==
  LET u == req[t].user
      left == open \ (entries \ kept) IN
  /\ dir' = dir \cup {u}
  /\ \/ /\ u \notin left /\ open' = left \cup {u}
        /\ entries' = kept \cup {u} /\ older' = UsedLast(u, kept)
        /\ inUse' = [inUse EXCEPT ![u] = 1]
        /\ busy' \in {busy, busy \cup {u}}
        /\ Go(t, "use")
     \/ /\ open' = left /\ entries' = kept /\ older' = Among(kept)
        /\ Go(t, "leave") /\ UNCHANGED <<inUse, busy>>

acquire(t) ==
  LET full == Cardinality(entries) >= MaxOpen
      new == req[t].user \notin entries IN
  /\ At(t, "acquire") /\ mutex = None
  /\ \/ ~RegistryClosed /\ Reuse(t)
     \/ ~RegistryClosed /\ new /\ ~full /\ OpenWorkspace(t, entries)
     \/ /\ ~RegistryClosed /\ new /\ full /\ Evictable # {}
        /\ OpenWorkspace(t, entries \ {Oldest(Evictable)})
     \/ /\ RegistryClosed \/ (new /\ full /\ Evictable = {})
        /\ Go(t, "leave") /\ UNCHANGED <<entries, older, inUse, disk>>
  /\ UNCHANGED <<tx, mutex, workers, server, refused>>

(* A request on Netflix data may start operations that outlast it.          *)
StartOperation(t) ==
  /\ At(t, "use") /\ req[t].kind = "netflix"
  /\ req[t].user \notin busy /\ busy' = busy \cup {req[t].user}
  /\ UNCHANGED <<req, tx, registry, open, workers, dir, server, refused>>

OperationEnds(u) ==
  /\ u \in busy /\ busy' = busy \ {u}
  /\ UNCHANGED <<req, tx, registry, open, workers, dir, server, refused>>

(* releaseFunction: nothing to count once the entry is gone.                *)
release(t) ==
  LET u == req[t].user IN
  /\ At(t, "use") /\ mutex = None
  /\ inUse' = IF u \in entries THEN [inUse EXCEPT ![u] = @ - 1] ELSE inUse
  /\ Go(t, "leave")
  /\ UNCHANGED <<tx, mutex, entries, older, disk, workers, server, refused>>

-----------------------------------------------------------------------------
(***************************************************************************)
(* The deletion of a user.                                                 *)
(***************************************************************************)
CancelUser(t) ==
  /\ At(t, "cancel")
  /\ workers' = workers \ {req[t].user}
  /\ req' = [r \in Threads |->
       IF r = t THEN [req[t] EXCEPT !.pc = "deregister"]
       ELSE IF req[r].kind = "worker" /\ req[r].user = req[t].user
         THEN [req[r] EXCEPT !.cancelled = TRUE] ELSE req[r]]
  /\ UNCHANGED <<tx, registry, disk, server, refused>>

(* deleteUser drops the entry of a workspace nobody uses and closes it.     *)
Deregister(t) ==
  LET u == req[t].user IN
  /\ At(t, "deregister") /\ mutex = None
  /\ \/ RegistryClosed /\ Go(t, "leave") /\ UNCHANGED <<mutex, entries, older, refused>>
     \/ /\ ~RegistryClosed /\ u \in entries /\ inUse[u] # 0
        /\ refused' = TRUE /\ Go(t, "leave") /\ UNCHANGED <<mutex, entries, older>>
     \/ /\ ~RegistryClosed /\ u \in entries /\ inUse[u] = 0
        /\ entries' = entries \ {u} /\ older' = Among(entries \ {u})
        /\ mutex' = t /\ Go(t, "close") /\ UNCHANGED refused
     \/ /\ ~RegistryClosed /\ u \notin entries
        /\ mutex' = t /\ Go(t, "remove") /\ UNCHANGED <<entries, older, refused>>
  /\ UNCHANGED <<tx, inUse, disk, workers, server>>

(* Workspace.Close waits for the operations it has cancelled.  When it      *)
(* reports an error the directory stays.                                    *)
CloseWorkspace(t) ==
  LET u == req[t].user IN
  /\ At(t, "close") /\ u \notin busy
  /\ open' = open \ {u}
  /\ \/ Go(t, "remove") /\ UNCHANGED mutex
     \/ Go(t, "leave") /\ mutex' = None
  /\ UNCHANGED <<tx, entries, older, inUse, busy, workers, dir, server, refused>>

RemoveDirectory(t) ==
  /\ At(t, "remove")
  /\ dir' \in {dir, dir \ {req[t].user}}
  /\ Go(t, "leave") /\ mutex' = None
  /\ UNCHANGED <<tx, entries, older, inUse, open, busy, workers, server, refused>>

-----------------------------------------------------------------------------
(***************************************************************************)
(* Shutdown: no new requests, then after the last of them or a timeout     *)
(* primeOperations.close and registry.close, and the process ends.         *)
(***************************************************************************)
Shutdown ==
  /\ server = "serving" /\ server' = "draining"
  /\ UNCHANGED <<req, tx, registry, disk, workers, refused>>

(* Mutant: the workers are waited for and not cancelled. *)
ClosePrimeMutant ==
  /\ server = "draining" /\ server' = "closing"
  /\ UNCHANGED <<req, tx, registry, disk, workers, refused>>

ClosePrime ==
  /\ server = "draining" /\ server' = "closing"
  /\ CancelWorkers(Users)
  /\ UNCHANGED <<tx, registry, disk, refused>>

PrimeClosed == \A t \in Threads : req[t].kind = "worker" => At(t, "idle")

CloseRegistry ==
  /\ server = "closing" /\ PrimeClosed /\ mutex = None
  /\ server' = "closed" /\ mutex' = Server
  /\ UNCHANGED <<req, tx, entries, older, inUse, disk, workers, refused>>

Unused == {u \in entries : inUse[u] = 0}

(* The workspaces in use are reported and stay open; all are forgotten.     *)
CloseWorkspaces ==
  /\ mutex = Server /\ Unused \cap busy = {}
  /\ open' = open \ Unused
  /\ entries' = {} /\ older' = {} /\ inUse' = [u \in Users |-> 0] /\ mutex' = None
  /\ UNCHANGED <<req, tx, busy, workers, dir, server, refused>>

Exit ==
  /\ server = "closed" /\ mutex # Server
  /\ server' = "down"
  /\ req' = AllIdle /\ tx' = [s \in Shards |-> None] /\ mutex' = None
  /\ open' = {} /\ busy' = {} /\ workers' = {}
  /\ entries' = {} /\ older' = {} /\ inUse' = [u \in Users |-> 0]
  /\ UNCHANGED <<dir, refused>>

Restart ==
  /\ server = "down" /\ server' = "serving"
  /\ UNCHANGED <<req, tx, registry, disk, workers, refused>>

Serve(t) ==
  \/ RLock(t) \/ Lock(t) \/ Drained(t) \/ Leave(t)
  \/ TxLock(t) \/ OpenStore(t) \/ Transact(t)
  \/ acquire(t) \/ release(t)
  \/ CancelUser(t) \/ Deregister(t) \/ CloseWorkspace(t) \/ RemoveDirectory(t)

Stop == Shutdown \/ ClosePrime \/ CloseRegistry \/ CloseWorkspaces \/ Exit \/ Restart

Next ==
  \/ \E t \in Threads : Serve(t) \/ StartOperation(t)
  \/ \E t \in Threads, kind \in Served, u \in Users : Arrive(t, kind, u)
  \/ \E u \in Users : WorkerEnds(u) \/ OperationEnds(u)
  \/ Stop

Spec == Init /\ [][Next]_vars

(* Handlers run and operations end; Go's mutexes serve whoever has waited   *)
(* longest, so that a lock that is freed again and again is got at last.    *)
Fairness ==
  /\ \A t \in Threads : SF_vars(Serve(t))
  /\ \A u \in Users : WF_vars(OperationEnds(u))
  /\ WF_vars(ClosePrime) /\ WF_vars(CloseRegistry) /\ WF_vars(CloseWorkspaces) /\ WF_vars(Exit)

FairSpec == Spec /\ Fairness

-----------------------------------------------------------------------------
(***************************************************************************)
(* Safety.                                                                 *)
(***************************************************************************)
UsersAt(pcs) == {req[t].user : t \in {t \in Threads : req[t].pc \in pcs}}

(* A workspace that a request uses or that has running operations is open,  *)
(* with its lease, whatever is evicted, deleted or shut down meanwhile.     *)
OpenWhileUsed == UsersAt({"use"}) \cup busy \subseteq open

(* An entry counts exactly the requests between acquire and release,        *)
(* whichever of them opened its workspace and whatever was evicted, deleted *)
(* or refused meanwhile: a count too low would let an eviction close what   *)
(* is in use, one too high would keep its place for ever.  And there are    *)
(* never more entries than places.                                          *)
Using(u) == {t \in Threads : At(t, "use") /\ req[t].user = u}

UsesCounted ==
  /\ Cardinality(entries) <= MaxOpen
  /\ \A u \in entries : inUse[u] = Cardinality(Using(u))

(* An open workspace is in the registry: otherwise its lease would refuse   *)
(* the user's next request.                                                 *)
NoneForgotten == server = "serving" /\ mutex = None => open = entries

(* The directory is there as long as anything works in it.                  *)
DirectoryStays ==
  open \cup UsersAt({"work"}) \cup {req[t].user : t \in {t \in Threads :
      req[t].kind = "history" /\ req[t].pc \in {"acquire", "use"}}} \subseteq dir

(* The deletion of a user never finds the workspace in use.                 *)
NeverInUse == ~refused

(* Every request is answered, in whatever order locks are waited for.       *)
RequestsEnd == \A t \in Threads : ~At(t, "idle") ~> At(t, "idle")

(* A shutdown comes to its end, although requests may outlast its timeout.  *)
ShutdownEnds == server = "draining" ~> server = "down"
=============================================================================
