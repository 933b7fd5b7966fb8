------------------------------ MODULE TitleCache ------------------------------
(***************************************************************************)
(* The private cache of TMDB outcomes, one SQLite table                    *)
(* (src/internal/providers/netflix/enrichment/cache.go).  A row holds the  *)
(* lookup it was written for next to its result, and is fresh for thirty   *)
(* days.  Every operation is one SQL transaction, so it is one step.       *)
(***************************************************************************)
EXTENDS TitleMatching

CONSTANTS
  Titles,     \* the keys of title identities
  Locales     \* the locales titles are looked up in

ASSUME FiniteAssumption == IsFiniteSet(Titles) /\ IsFiniteSet(Locales)

VARIABLE cache    \* the rows of cache_entries

(* A lookup, with the client's and the matcher's identities of this build.   *)
(* The query follows from the title.                                         *)
Lookup(t, l) == [title |-> t, locale |-> l]

(* deriveCacheKey *)
CacheKey(u) == u

Row == [key : [title : Titles, locale : Locales],
        lookup : [title : Titles, locale : Locales],
        status : Statuses, fresh : BOOLEAN]

CacheTypeOK == cache \in SUBSET Row

CacheInit == cache = {}

RowOf(u) == {r \in cache : r.key = CacheKey(u)}

(***************************************************************************)
(* Cache.lookup: a row of another lookup is an error; a row that is out of *)
(* date is deleted.                                                        *)
(***************************************************************************)
LookupFails(u) == \E r \in RowOf(u) : r.lookup # u

FoundMutant(u) == {r \in RowOf(u) : r.lookup = u /\ ~r.fresh}     \* mutant: the wrong way round
Found(u) == {r \in RowOf(u) : r.lookup = u /\ r.fresh}

LookUp(u) == cache' = IF LookupFails(u) THEN cache ELSE cache \ (RowOf(u) \ Found(u))

(* Cache.putAll, for one outcome: a row of the same key is replaced.        *)
PutAll(u, status) ==
  cache' = (cache \ RowOf(u))
             \cup {[key |-> CacheKey(u), lookup |-> u, status |-> status, fresh |-> TRUE]}

(* removeTMDBCacheFiles: the database, its WAL and its SHM file go.          *)
DeleteCache == cache' = {}

(* Thirty days pass.                                                        *)
Expire(r) ==
  /\ r \in cache /\ r.fresh
  /\ cache' = (cache \ {r}) \cup {[r EXCEPT !.fresh = FALSE]}
=============================================================================
