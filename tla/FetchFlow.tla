----------------------------- MODULE FetchFlow -----------------------------
(***************************************************************************)
(* One fetch request through FetchService (services/fetch_service.py): the *)
(* cache, the lock of the fetch key, the cache again, the HTTP or browser  *)
(* fetch, the artifact, and the cache once more.                           *)
(*                                                                         *)
(* The API and every worker run a FetchService of their own.  The locks    *)
(* live in one process; the cache is Redis, shared by all processes, or a  *)
(* MemoryCache in each (services/cache.py, main.py).  A coroutine gives    *)
(* way at each await, so each awaited call is a step.                      *)
(*                                                                         *)
(* A page stands for status, content type and body: what _perform tells    *)
(* apart.  url stands for everything the fetch key takes over unchanged,   *)
(* six of the headers included.  The other headers of a request are sent   *)
(* to the site and are not in the key: requests that differ in them only   *)
(* share a key (fetch_service.py:181-186), and are one request here.       *)
(***************************************************************************)
EXTENDS Integers, Sequences, FiniteSets

CONSTANTS Processes,      \* the API and the workers
          Callers,        \* calls of FetchService.fetch
          ProcOf,         \* the process a caller runs in
          Req,            \* the FetchRequest of a caller
          Urls,           \* values of url, profile, proxy policy and keyed headers
          Pages,          \* the kinds of pages the sites serve
          Stores,         \* caches
          StoreOf,        \* the cache a process uses
          Volatile,       \* the MemoryCaches: they die with their process
          SaveByDefault,  \* settings.storage.save_artifacts_by_default
          NULL

Modes      == {"http", "browser", "auto"}
Strategies == {"http", "browser"}
Tristate   == {"null", "false", "true"}

(* 2xx with all a caller wants; 2xx without the required selector; 2xx but *)
(* too short; 404; 429 or 503; an HTML page that asks for a human.         *)
PageKinds  == {"good", "bare", "thin", "missing", "refused", "challenge"}
Successful == {"good", "bare", "thin"}

Request == [url      : Urls,
            mode     : Modes,
            save     : Tristate,  \* save_artifact
            force    : BOOLEAN,   \* force_refresh
            caches   : BOOLEAN,   \* the effective cache_ttl is positive
            fallback : BOOLEAN,   \* http_fallback
            selector : BOOLEAN,   \* required_selector is set
            valid    : BOOLEAN]   \* no forbidden header

ASSUME ConstantsAssumption ==
  /\ ProcOf \in [Callers -> Processes]
  /\ Req \in [Callers -> Request]
  /\ Pages \subseteq PageKinds
  /\ StoreOf \in [Processes -> Stores]
  /\ Volatile \subseteq Stores
  /\ \A p, q \in Processes : StoreOf[p] = StoreOf[q] /\ StoreOf[p] \in Volatile => p = q
  /\ SaveByDefault \in BOOLEAN
  /\ NULL \notin [page : PageKinds, strategy : Strategies, artifact : BOOLEAN]

VARIABLES
  pc,      \* the await a caller has reached
  got,     \* what the caller fetched, or was answered
  cached,  \* FetchResponse.from_cache of its answer
  queue,   \* the asyncio.Lock of a key in a process: holder, then waiters
  cache,   \* the entries of a cache
  lost     \* history: how often a cache dropped the entry of a key

vars == <<pc, got, cached, queue, cache, lost>>

Results == [page : PageKinds, strategy : Strategies, artifact : BOOLEAN]

Upstream  == {"http", "browser"}
Inside    == Upstream \cup {"save", "store"}
Ended     == {"done", "failed", "lost"}
Locations == {"new", "look", "join", "wait"} \cup Inside \cup Ended

(* The key leaves out timeout_seconds, required_selector, http_fallback,   *)
(* force_refresh and cache_ttl.                                            *)
FetchKey(r) == [url |-> r.url, mode |-> r.mode, save |-> r.save]

Key(c) == FetchKey(Req[c])
Keys   == {Key(c) : c \in Callers}

Saves(save) == save = "true" \/ (save = "null" /\ SaveByDefault)

(* Whether the caller may be answered from the cache.                      *)
Reads(c) == Req[c].caches /\ ~Req[c].force

Entry(c) == cache[StoreOf[ProcOf[c]]][Key(c)]
Queue(c) == queue[ProcOf[c]][Key(c)]

(* The reason to fetch again with the browser, from the HTTP result.       *)
Upgrades(r, page) ==
  \/ page \in {"thin", "refused", "challenge"}
  \/ page = "bare" /\ r.selector

IsBlocked(page) == page = "challenge"

Init ==
  /\ pc = [c \in Callers |-> "new"]
  /\ got = [c \in Callers |-> NULL]
  /\ cached = [c \in Callers |-> FALSE]
  /\ queue = [p \in Processes |-> [k \in Keys |-> <<>>]]
  /\ cache = [s \in Stores |-> [k \in Keys |-> NULL]]
  /\ lost = [s \in Stores |-> [k \in Keys |-> 0]]

-----------------------------------------------------------------------------
(* Ways on and ways out.                                                   *)

Goto(c, l) == pc' = [pc EXCEPT ![c] = l]

(* Mutation: the lock is not released. *)
ReleaseNothing(c) == queue' = queue

Release(c) == queue' = [queue EXCEPT ![ProcOf[c]][Key(c)] = Tail(@)]

(* Mutation: what was fetched outlives the error. *)
RaiseKeepingResult(c) ==
  /\ Goto(c, "failed")
  /\ Release(c)
  /\ UNCHANGED <<got, cached, cache, lost>>

(* The body of the lock is left by an exception.                           *)
Raise(c) ==
  /\ Goto(c, "failed")
  /\ got' = [got EXCEPT ![c] = NULL]
  /\ Release(c)
  /\ UNCHANGED <<cached, cache, lost>>

(* _cached_response                                                        *)
AnswerFromCache(c) ==
  /\ Goto(c, "done")
  /\ got' = [got EXCEPT ![c] = Entry(c)]
  /\ cached' = [cached EXCEPT ![c] = TRUE]
  /\ UNCHANGED <<cache, lost>>

-----------------------------------------------------------------------------
(* The request comes in; a forbidden header ends it.                       *)
Arrive(c) ==
  /\ pc[c] = "new"
  /\ Goto(c, IF ~Req[c].valid THEN "failed" ELSE IF Reads(c) THEN "look" ELSE "join")
  /\ UNCHANGED <<got, cached, queue, cache, lost>>

(* cache.get before the lock.                                              *)
Look(c) ==
  /\ pc[c] = "look"
  /\ \/ /\ Entry(c) # NULL
        /\ AnswerFromCache(c)
     \/ /\ Entry(c) = NULL
        /\ Goto(c, "join")
        /\ UNCHANGED <<got, cached, cache, lost>>
  /\ UNCHANGED queue

(* Mutation: no lock. *)
TurnForAll(c) == TRUE

Turn(c) == Head(Queue(c)) = c

(* Redis cannot be read: the call raises.  Before the lock and after it.   *)
LookError(c) ==
  /\ StoreOf[ProcOf[c]] \notin Volatile
  /\ \/ /\ pc[c] = "look"
        /\ Goto(c, "failed")
        /\ UNCHANGED <<got, cached, queue, cache, lost>>
     \/ /\ pc[c] = "wait" /\ Turn(c) /\ Reads(c)
        /\ Raise(c)

(* _lock_for and lock.acquire(): asyncio.Lock is first come, first served. *)
Join(c) ==
  /\ pc[c] = "join"
  /\ queue' = [queue EXCEPT ![ProcOf[c]][Key(c)] = Append(@, c)]
  /\ Goto(c, "wait")
  /\ UNCHANGED <<got, cached, cache, lost>>

(* Mutation: no second look at the cache. *)
HitUnchecked(c) == FALSE

(* Mutation: the second look forgets force_refresh. *)
HitForced(c) == Req[c].caches /\ Entry(c) # NULL

(* cache.get under the lock.                                               *)
Hit(c) == Reads(c) /\ Entry(c) # NULL

EnterHit(c) ==
  /\ pc[c] = "wait" /\ Turn(c) /\ Hit(c)
  /\ AnswerFromCache(c)
  /\ Release(c)

(* The lock is held and nothing is cached: _perform starts.                *)
EnterMiss(c) ==
  /\ pc[c] = "wait" /\ Turn(c) /\ ~Hit(c)
  /\ Goto(c, IF Req[c].mode = "browser" THEN "browser" ELSE "http")
  /\ UNCHANGED <<got, cached, queue, cache, lost>>

-----------------------------------------------------------------------------
(* What _perform does with a page it keeps: a blocked one is refused.      *)
Keep(c, page, strategy) ==
  IF IsBlocked(page)
  THEN Raise(c)
  ELSE /\ Goto(c, "save")
       /\ got' = [got EXCEPT ![c] = [page |-> page, strategy |-> strategy, artifact |-> FALSE]]
       /\ UNCHANGED <<cached, queue, cache, lost>>

HttpPage(c) ==
  /\ pc[c] = "http"
  /\ \E page \in Pages :
       IF Req[c].mode = "auto" /\ Upgrades(Req[c], page)
       THEN /\ Goto(c, "browser")
            /\ UNCHANGED <<got, cached, queue, cache, lost>>
       ELSE Keep(c, page, "http")

BrowserPage(c) ==
  /\ pc[c] = "browser"
  /\ \E page \in Pages : Keep(c, page, "browser")

FallsBack(c) == Req[c].mode = "browser" /\ Req[c].fallback

BrowserFallback(c) ==
  /\ pc[c] = "browser" /\ FallsBack(c)
  /\ Goto(c, "http")
  /\ UNCHANGED <<got, cached, queue, cache, lost>>

(* A fetcher raises; after the browser only what is no WebFetchError       *)
(* passes a fallback.                                                      *)
FetchError(c) ==
  /\ pc[c] \in Upstream
  /\ Raise(c)

(* artifacts.save if the request, or the default, asks for it.             *)
Save(c) ==
  /\ pc[c] = "save"
  /\ got' = [got EXCEPT ![c].artifact = Saves(Req[c].save)]
  /\ Goto(c, "store")
  /\ UNCHANGED <<cached, queue, cache, lost>>

SaveError(c) ==
  /\ pc[c] = "save" /\ Saves(Req[c].save)
  /\ Raise(c)

(* Mutation: failures are cached. *)
CacheableAll(c) == Req[c].caches

Cacheable(c) == Req[c].caches /\ got[c].page \in Successful

(* cache.set for a success, and the answer.                                *)
Store(c) ==
  /\ pc[c] = "store"
  /\ cache' = IF Cacheable(c)
              THEN [cache EXCEPT ![StoreOf[ProcOf[c]]][Key(c)] = got[c]]
              ELSE cache
  /\ Goto(c, "done")
  /\ Release(c)
  /\ UNCHANGED <<got, cached, lost>>

(* Redis refuses the entry: the request fails although the page is there.  *)
StoreError(c) ==
  /\ pc[c] = "store" /\ Cacheable(c)
  /\ StoreOf[ProcOf[c]] \notin Volatile
  /\ Raise(c)

-----------------------------------------------------------------------------
(* The cache's own steps.                                                  *)

(* An entry reaches its deadline, or is the oldest of too many.            *)
Expire(s, k) ==
  /\ cache[s][k] # NULL
  /\ cache' = [cache EXCEPT ![s][k] = NULL]
  /\ lost' = [lost EXCEPT ![s][k] = @ + 1]
  /\ UNCHANGED <<pc, got, cached, queue>>

(* A process dies and is started again: its calls, its locks and its       *)
(* MemoryCache are gone, Redis is not.                                     *)
Crash(p) ==
  /\ pc' = [c \in Callers |->
              IF ProcOf[c] = p /\ pc[c] \notin {"new"} \cup Ended THEN "lost" ELSE pc[c]]
  /\ got' = [c \in Callers |-> IF pc'[c] = "lost" THEN NULL ELSE got[c]]
  /\ queue' = [queue EXCEPT ![p] = [k \in Keys |-> <<>>]]
  /\ LET dead == {StoreOf[p]} \cap Volatile IN
       /\ cache' = [s \in Stores |-> IF s \in dead THEN [k \in Keys |-> NULL] ELSE cache[s]]
       /\ lost' = [s \in Stores |-> [k \in Keys |->
                     IF s \in dead /\ cache[s][k] # NULL THEN lost[s][k] + 1 ELSE lost[s][k]]]
  /\ UNCHANGED cached

Step(c) ==
  \/ Look(c) \/ LookError(c) \/ Join(c) \/ EnterHit(c) \/ EnterMiss(c)
  \/ HttpPage(c) \/ BrowserPage(c) \/ BrowserFallback(c) \/ FetchError(c)
  \/ Save(c) \/ SaveError(c) \/ Store(c) \/ StoreError(c)

Next ==
  \/ \E c \in Callers : Arrive(c) \/ Step(c)
  \/ \E s \in Stores, k \in Keys : Expire(s, k)
  \/ \E p \in Processes : Crash(p)

Spec == Init /\ [][Next]_vars

(* The event loop runs every coroutine that can run, and the cache and the *)
(* disk answer.  The fetchers owe nothing: no deadline bounds them         *)
(* (http.py:115 passes timeout=None by default, and sync_timeout_seconds,  *)
(* config.py:14, is not used).                                             *)
Fairness == \A c \in Callers : WF_vars(pc[c] \notin Upstream /\ Step(c))

FairSpec == Spec /\ Fairness

-----------------------------------------------------------------------------
(* What the properties say.                                                *)

(* Callers, results, locks and entries keep their types, and a caller has  *)
(* a result exactly while _perform holds one for it.                       *)
TypeOK ==
  /\ pc \in [Callers -> Locations]
  /\ got \in [Callers -> {NULL} \cup Results]
  /\ cached \in [Callers -> BOOLEAN]
  /\ queue \in [Processes -> [Keys -> Seq(Callers)]]
  /\ cache \in [Stores -> [Keys -> {NULL} \cup Results]]
  /\ lost \in [Stores -> [Keys -> Nat]]
  /\ \A c \in Callers : got[c] # NULL <=> pc[c] \in {"save", "store", "done"}

(* Within a process the lock of a fetch key is held from the second look   *)
(* at the cache to the end of cache.set: two calls with one key are never  *)
(* both at the fetchers or on the way to artifact and cache.               *)
OneUpstream ==
  \A c, d \in Callers :
    pc[c] \in Inside /\ pc[d] \in Inside /\ ProcOf[c] = ProcOf[d] /\ Key(c) = Key(d) => c = d

(* What the cache holds may answer any request with its key: a success,    *)
(* never a challenge page, with an artifact iff such requests want one,    *)
(* and fetched by HTTP if they are for HTTP only.                          *)
CachedIsGood ==
  \A s \in Stores, k \in Keys : cache[s][k] # NULL =>
    /\ cache[s][k].page \in Successful
    /\ cache[s][k].artifact = Saves(k.save)
    /\ k.mode = "http" => cache[s][k].strategy = "http"

(* An answer, fetched or cached, fits the request it is given to: no       *)
(* challenge page, an artifact iff it asked for one, HTTP if it asked for  *)
(* that, nothing from the cache if it forced a refresh.                    *)
AnswersFit ==
  \A c \in Callers : pc[c] = "done" =>
    /\ ~IsBlocked(got[c].page)
    /\ got[c].artifact = Saves(Req[c].save)
    /\ Req[c].mode = "http" => got[c].strategy = "http"
    /\ cached[c] => Reads(c) /\ got[c].page \in Successful

(* Calls that may use the cache and meet in a process fetch a page once:   *)
(* one of them for each time the cache loses the entry, and the others,    *)
(* the ones that waited at the lock included, share its answer.            *)
Coalesced ==
  \A p \in Processes, k \in Keys :
    Cardinality({c \in Callers :
                   /\ ProcOf[c] = p /\ Key(c) = k /\ Reads(c)
                   /\ pc[c] = "done" /\ ~cached[c]
                   /\ got[c].page \in Successful})
      <= 1 + lost[StoreOf[p]][k]

(* c is inside a fetcher, or waits for a lock whose holder is.             *)
HeldUp(c) ==
  \/ pc[c] \in Upstream
  \/ /\ pc[c] = "wait"
     /\ \E d \in Callers : ProcOf[d] = ProcOf[c] /\ Key(d) = Key(c) /\ pc[d] \in Upstream

(* Every call that came in ends (answered, failed, or dead with its        *)
(* process), unless its own fetch, or that of the holder of its lock,      *)
(* never returns.  No error path leaves a lock held, and a fetch that      *)
(* hangs holds up no call of another key or process                        *)
(* (fetch_service.py:66-73).                                               *)
Answered == <>[](\A c \in Callers : pc[c] \in {"new"} \cup Ended \/ HeldUp(c))

(* An answer is one a fetch for this very request could have given: from   *)
(* the browser if the request allows nothing else, and with the required   *)
(* selector if it is an HTTP page for an auto request.                     *)
AsIfFetched ==
  \A c \in Callers : pc[c] = "done" =>
    /\ Req[c].mode = "browser" /\ ~Req[c].fallback => got[c].strategy = "browser"
    /\ Req[c].mode = "auto" /\ got[c].strategy = "http" => ~Upgrades(Req[c], got[c].page)
=============================================================================
