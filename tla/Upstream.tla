------------------------------ MODULE Upstream ------------------------------
(***************************************************************************)
(* FetchService._perform of one process towards the sites                  *)
(* (services/fetch_service.py): every fetch runs inside the slot of its    *)
(* domain, the pauses before its next tries and its redirects included.    *)
(* A fetch may also leave the slot without the HttpFetcher: the browser    *)
(* answered or failed.                                                     *)
(***************************************************************************)
EXTENDS RateLimiter, HttpFetcher, FiniteSets

ASSUME UpstreamAssumption == Fetches = Callers

vars == <<limiter, fetcher>>

(* The stages at which the fetch is with the HttpFetcher.                  *)
Fetching == {"guard", "response", "pause"}

Init == LimiterInit /\ FetcherInit

Enter(c) == (Ask(c) \/ Granted(c) \/ WakeUp(c)) /\ UNCHANGED fetcher

FetchInside(c) ==
  /\ place[c] = "inside"
  /\ Start(c) \/ FetchStep(c)
  /\ UNCHANGED limiter

(* Mutation: the slot ends before the fetch does. *)
ExitEarly(c) == Leave(c) /\ UNCHANGED fetcher

Exit(c) == stage[c] \notin Fetching /\ Leave(c) /\ UNCHANGED fetcher

PassTime == Tick /\ UNCHANGED fetcher

Next ==
  \/ PassTime
  \/ \E c \in Callers : Enter(c) \/ FetchInside(c) \/ Exit(c)

(* The event loop runs every task that can go on, a host name is resolved  *)
(* or not, and every pause ends.  A request owes nothing: httpx waits for  *)
(* the answer as long as the site likes, for http.py:115 passes            *)
(* timeout=None unless the caller sets timeout_seconds.                    *)
Fairness ==
  /\ WF_vars(PassTime)
  /\ \A c \in Callers :
       /\ WF_vars((Granted(c) \/ WakeUp(c)) /\ UNCHANGED fetcher)
       /\ WF_vars(stage[c] # "response" /\ FetchInside(c))
       /\ WF_vars(Exit(c))

Spec == Init /\ [][Next]_vars /\ Fairness

-----------------------------------------------------------------------------
TypeOK == LimiterTypeOK /\ FetcherTypeOK

(* At no time are more fetches of a domain under way, resting before their *)
(* next try or following a redirect than its slot admits, and a fetch runs *)
(* only while it holds its permit.                                         *)
Admitted ==
  /\ \A c \in Callers : stage[c] \in Fetching => place[c] = "inside"
  /\ \A d \in Domains :
       Cardinality({c \in Callers : DomainOf[c] = d /\ place[c] \in {"asleep", "inside"}})
         = Concurrency - permits[d]

(* The site has not answered c, or any of those whose slots c waits for.   *)
HeldUp(c) ==
  \/ stage[c] = "response"
  \/ /\ place[c] = "queued"
     /\ Cardinality({e \in Callers : DomainOf[e] = DomainOf[c] /\ stage[e] = "response"})
          = Concurrency

=============================================================================
