---------------------------- MODULE HttpFetcher ----------------------------
(***************************************************************************)
(* HttpFetcher.fetch (fetch/http.py): the tries of a fetch, the redirects  *)
(* of a try, and the guard before every request.                           *)
(*                                                                         *)
(* The sites answer as they like, and differently each time.  A URL stands *)
(* for its normalised form; Allowed are those UrlGuard lets through.  The  *)
(* headers, the proxy and the lengths of the pauses are left out.          *)
(***************************************************************************)
EXTENDS Integers, Sequences

CONSTANTS Fetches,       \* calls of fetch
          Urls,
          Allowed,       \* the URLs validate accepts
          UrlOf,         \* the URL a call is given
          MaxAttempts,   \* settings.max_attempts
          MaxRedirects   \* settings.max_redirects

ASSUME FetcherAssumption ==
  /\ Allowed \subseteq Urls
  /\ UrlOf \in [Fetches -> Urls]
  /\ MaxAttempts \in Nat \ {0}
  /\ MaxRedirects \in Nat

(* How a try can end: a status in RETRYABLE_STATUS or another one, or no   *)
(* answer (READ_TIMEOUT or CONNECT_FAILED).                                *)
Answers   == {"FINAL_STATUS", "RETRYABLE_STATUS"}
Retryable == {"RETRYABLE_STATUS", "NO_ANSWER"}
Ends      == Answers \cup Retryable

(* OTHER: all that ends the fetch at once, be it an error of the guard     *)
(* (INVALID_REQUEST, DOMAIN_NOT_ALLOWED, DNS_FAILED), RESPONSE_TOO_LARGE,  *)
(* or an exception nobody expects: a breach of the protocol, a Location    *)
(* that is not a URL.                                                      *)
Errors == {"NO_ANSWER", "OTHER", "REDIRECT_LOOP", "TOO_MANY_REDIRECTS"}

VARIABLES
  stage,     \* what the call awaits
  outcome,   \* the status it returned with, or its error
  attempt,   \* the number of the try
  attempts,  \* the AttemptInfos: how each try ended
  current,   \* the URL of the next or present request
  hop,       \* redirects followed in this try
  visited,   \* URLs requested in this try
  asked      \* history: the requests sent in each try

fetcher == <<stage, outcome, attempt, attempts, current, hop, visited, asked>>

Stages == {"idle", "guard", "response", "pause", "done", "failed"}
Tries  == 1..MaxAttempts

FetcherInit ==
  /\ stage = [f \in Fetches |-> "idle"]
  /\ outcome = [f \in Fetches |-> "none"]
  /\ attempt = [f \in Fetches |-> 1]
  /\ attempts = [f \in Fetches |-> <<>>]
  /\ current = UrlOf
  /\ hop = [f \in Fetches |-> 0]
  /\ visited = [f \in Fetches |-> {}]
  /\ asked = [f \in Fetches |-> [k \in Tries |-> <<>>]]

Finish(f, s, o) ==
  /\ stage' = [stage EXCEPT ![f] = s]
  /\ outcome' = [outcome EXCEPT ![f] = o]

Raise(f, error) ==
  /\ Finish(f, "failed", error)
  /\ UNCHANGED <<attempt, attempts, current, hop, visited, asked>>

(* fetch is called; its first request waits for the guard.                 *)
Start(f) ==
  /\ stage[f] = "idle"
  /\ stage' = [stage EXCEPT ![f] = "guard"]
  /\ UNCHANGED <<outcome, attempt, attempts, current, hop, visited, asked>>

(* Mutation: the URL is not remembered. *)
VisitNothing(f) == visited' = visited

Visit(f) == visited' = [visited EXCEPT ![f] = @ \cup {current[f]}]

(* The guard lets the URL through, and the request is sent.                *)
Send(f) ==
  /\ stage[f] = "guard"
  /\ current[f] \in Allowed
  /\ current[f] \notin visited[f]
  /\ Visit(f)
  /\ asked' = [asked EXCEPT ![f][attempt[f]] = Append(@, current[f])]
  /\ stage' = [stage EXCEPT ![f] = "response"]
  /\ UNCHANGED <<outcome, attempt, attempts, current, hop>>

(* The guard refuses the URL or cannot resolve its host today; or the try  *)
(* has requested it before.                                                *)
Refuse(f) ==
  /\ stage[f] = "guard"
  /\ \/ Raise(f, "OTHER")
     \/ /\ current[f] \in Allowed /\ current[f] \in visited[f]
        /\ Raise(f, "REDIRECT_LOOP")

(* A redirect with a Location; the loop over the redirects may be over.    *)
Redirect(f, url) ==
  /\ stage[f] = "response"
  /\ \/ /\ hop[f] < MaxRedirects
        /\ current' = [current EXCEPT ![f] = url]
        /\ hop' = [hop EXCEPT ![f] = @ + 1]
        /\ stage' = [stage EXCEPT ![f] = "guard"]
        /\ UNCHANGED <<outcome, attempt, attempts, visited, asked>>
     \/ hop[f] = MaxRedirects /\ Raise(f, "TOO_MANY_REDIRECTS")

(* Mutation: off by one. *)
MayTryAgainOnceLess(f, how) == how \in Retryable /\ attempt[f] < MaxAttempts - 1

MayTryAgain(f, how) == how \in Retryable /\ attempt[f] # MaxAttempts

(* The try ends with a response or an error of the network.                *)
EndTry(f, how) ==
  /\ stage[f] = "response"
  /\ attempts' = [attempts EXCEPT ![f] = Append(@, how)]
  /\ IF MayTryAgain(f, how)
     THEN /\ stage' = [stage EXCEPT ![f] = "pause"]
          /\ UNCHANGED outcome
     ELSE Finish(f, IF how \in Answers THEN "done" ELSE "failed", how)
  /\ UNCHANGED <<attempt, current, hop, visited, asked>>

(* The body is too large, or the response cannot be understood.            *)
Break(f) == stage[f] = "response" /\ Raise(f, "OTHER")

(* Mutation: one set of visited URLs for all tries. *)
ForgetNothing(f) == visited' = visited

Forget(f) == visited' = [visited EXCEPT ![f] = {}]

(* The pause is over: the next try starts from the URL of the call.        *)
Again(f) ==
  /\ stage[f] = "pause"
  /\ attempt' = [attempt EXCEPT ![f] = @ + 1]
  /\ current' = [current EXCEPT ![f] = UrlOf[f]]
  /\ hop' = [hop EXCEPT ![f] = 0]
  /\ Forget(f)
  /\ stage' = [stage EXCEPT ![f] = "guard"]
  /\ UNCHANGED <<outcome, attempts, asked>>

FetchStep(f) ==
  \/ Send(f) \/ Refuse(f) \/ Break(f) \/ Again(f)
  \/ \E url \in Urls : Redirect(f, url)
  \/ \E how \in Ends : EndTry(f, how)

FetcherNext == \E f \in Fetches : Start(f) \/ FetchStep(f)

FetcherSpec == FetcherInit /\ [][FetcherNext]_fetcher

-----------------------------------------------------------------------------
FetcherTypeOK ==
  /\ stage \in [Fetches -> Stages]
  /\ outcome \in [Fetches -> {"none"} \cup Answers \cup Errors]
  /\ attempt \in [Fetches -> Tries]
  /\ attempts \in [Fetches -> Seq(Ends)]
  /\ current \in [Fetches -> Urls]
  /\ hop \in [Fetches -> 0..MaxRedirects]
  /\ visited \in [Fetches -> SUBSET Urls]
  /\ asked \in [Fetches -> [Tries -> Seq(Urls)]]

(* No try asks for the same URL twice or for more than MaxRedirects + 1,   *)
(* and none asks for a URL the guard refuses, whatever the sites answer.   *)
NoUrlTwice ==
  \A f \in Fetches, k \in Tries :
    /\ Len(asked[f][k]) <= MaxRedirects + 1
    /\ \A i, j \in 1..Len(asked[f][k]) : asked[f][k][i] = asked[f][k][j] => i = j
    /\ \A i \in 1..Len(asked[f][k]) : asked[f][k][i] \in Allowed

(* An error that blames the redirects is right: the last try did come back *)
(* to a URL, or did use up its requests.                                   *)
RedirectsBlamedRightly ==
  \A f \in Fetches :
    LET try == asked[f][attempt[f]]
    IN /\ outcome[f] = "REDIRECT_LOOP" => \E i \in 1..Len(try) : try[i] = current[f]
       /\ outcome[f] = "TOO_MANY_REDIRECTS" => Len(try) = MaxRedirects + 1

(* A fetch tries again only after a retryable failure, gives up on one     *)
(* only when its tries are used up, and tells of each try in order.        *)
AttemptsTell ==
  \A f \in Fetches :
    LET n == Len(attempts[f])
    IN /\ \A k \in 1..n : k < attempt[f] => attempts[f][k] \in Retryable
       /\ n = attempt[f] \/ n = attempt[f] - 1
       /\ outcome[f] \in Ends =>
            n = attempt[f] /\ attempts[f][n] = outcome[f]
       /\ outcome[f] \in Retryable => attempt[f] = MaxAttempts
=============================================================================
