--------------------------- MODULE BrowserFetcher ---------------------------
(***************************************************************************)
(* The life of the browser in one process (fetch/browser.py): it is        *)
(* started on demand under a lock, shared by all calls, each with a        *)
(* context of its own and a permit of the semaphore, and started again by  *)
(* the next call when it has gone.                                         *)
(*                                                                         *)
(* A coroutine gives way at each await, so each awaited call is a step; a  *)
(* lock or permit that is free is taken without giving way.  Playwright,   *)
(* its driver and Chromium are external: any of their calls may raise, and *)
(* Chromium may die at any time.  Browsers are numbered as they are        *)
(* launched; 0 is None.  The browser is enabled.                           *)
(***************************************************************************)
EXTENDS Integers, Sequences, FiniteSets

CONSTANTS Calls,        \* calls of fetch and of is_ready
          Checks,       \* the calls of is_ready, by /health/ready
          Lifespan,     \* the process itself, which closes the fetcher in the end
          Concurrency,  \* settings.concurrency
          MaxCrashes    \* bound on the deaths of browsers

ASSUME BrowserAssumption ==
  /\ IsFiniteSet(Calls)
  /\ Checks \subseteq Calls
  /\ Lifespan \notin Calls
  /\ Concurrency \in Nat \ {0}
  /\ MaxCrashes \in Nat

VARIABLES
  at,          \* the await a call, or the lifespan, has reached
  outcome,     \* what a call returns or raises
  starters,    \* _lock: its holder, then the waiters
  waiting,     \* the waiters of _semaphore
  permits,     \* the free permits of _semaphore
  playwright,  \* whether _playwright is set
  browser,     \* _browser
  context,     \* the browser a call's context belongs to
  running,     \* the browsers that are connected
  launched,    \* history: browsers launched so far
  crashed      \* history: browsers that died by themselves

vars == <<at, outcome, starters, waiting, permits, playwright, browser, context,
          running, launched, crashed>>

handles   == <<playwright, browser>>
processes == <<running, launched, crashed>>

(* The awaits of start, which holds the lock, and of a fetch that holds a  *)
(* permit.                                                                 *)
Starting  == {"closing", "stopping", "starting", "launching", "undoing"}
Holding   == {"opening", "browsing", "leaving"}
Locations == {"away", "guard", "lock", "queue", "ended"} \cup Starting \cup Holding

(* refused, failed and unavailable are WebFetchErrors (of the guard,       *)
(* BROWSER_FAILED, BROWSER_UNAVAILABLE); untyped is any other exception.   *)
Outcomes == {"none", "page", "refused", "failed", "unavailable", "untyped", "ready", "not_ready"}

Holders == {c \in Calls : at[c] \in Holding}

Init ==
  /\ at = [a \in Calls \cup {Lifespan} |-> "away"]
  /\ outcome = [c \in Calls |-> "none"]
  /\ starters = <<>>
  /\ waiting = <<>>
  /\ permits = Concurrency
  /\ playwright = FALSE
  /\ browser = 0
  /\ context = [c \in Calls |-> 0]
  /\ running = {}
  /\ launched = 0
  /\ crashed = {}

Goto(a, l) == at' = [at EXCEPT ![a] = l]

End(c, o) ==
  /\ Goto(c, "ended")
  /\ outcome' = [outcome EXCEPT ![c] = o]

-----------------------------------------------------------------------------
(* fetch asks the guard first, is_ready goes to the lock at once.  New     *)
(* calls come until the process is shut down.                              *)
AskLock(c) ==
  /\ Goto(c, "lock")
  /\ starters' = Append(starters, c)

Begin(c) ==
  /\ at[c] = "away" /\ at[Lifespan] = "away"
  /\ IF c \in Checks THEN AskLock(c) ELSE Goto(c, "guard") /\ UNCHANGED starters
  /\ UNCHANGED <<outcome, waiting, permits, handles, context, processes>>

Refuse(c) ==
  /\ at[c] = "guard"
  /\ End(c, "refused")
  /\ UNCHANGED <<starters, waiting, permits, handles, context, processes>>

Join(c) ==
  /\ at[c] = "guard"
  /\ AskLock(c)
  /\ UNCHANGED <<outcome, waiting, permits, handles, context, processes>>

-----------------------------------------------------------------------------
(* start                                                                   *)

(* Mutation: no lock. *)
TurnForAll(c) == TRUE

Turn(c) == Head(starters) = c

(* Mutation: start always starts a browser. *)
ConnectedNever == FALSE

Connected == browser # 0 /\ browser \in running

(* Mutation: the lock is kept when start raises. *)
FreeLockNever == starters' = starters

FreeLock == starters' = Tail(starters)

(* Mutation: no semaphore. *)
MayOpenAlways == TRUE

(* A permit is free and nobody waits for one: new_context is asked for     *)
(* before any other coroutine runs.                                        *)
MayOpen == permits > 0 /\ waiting = <<>>

OpenOn(c, b) ==
  /\ Goto(c, "opening")
  /\ permits' = permits - 1
  /\ context' = [context EXCEPT ![c] = b]

(* start returns with browser b: is_ready reports, fetch enters the        *)
(* semaphore.                                                              *)
Passed(c, b) ==
  /\ starters' = Tail(starters)
  /\ \/ /\ c \in Checks
        /\ End(c, "ready")
        /\ UNCHANGED <<waiting, permits, context>>
     \/ /\ c \notin Checks /\ MayOpen
        /\ OpenOn(c, b)
        /\ UNCHANGED <<outcome, waiting>>
     \/ /\ c \notin Checks /\ ~MayOpen
        /\ Goto(c, "queue")
        /\ waiting' = Append(waiting, c)
        /\ UNCHANGED <<outcome, permits, context>>

(* start raises, and frees the lock.                                       *)
StartRaises(c, error) ==
  /\ End(c, IF c \in Checks /\ error # "untyped" THEN "not_ready" ELSE error)
  /\ FreeLock
  /\ UNCHANGED <<waiting, permits, context>>

(* Where close begins, and where it goes on when there is no browser.      *)
CloseFrom(after) == IF browser # 0 THEN "closing" ELSE IF playwright THEN "stopping" ELSE after

Enter(c) ==
  /\ at[c] = "lock" /\ Turn(c)
  /\ \/ /\ Connected
        /\ Passed(c, browser)
     \/ /\ ~Connected
        /\ Goto(c, CloseFrom("starting"))
        /\ UNCHANGED <<outcome, starters, waiting, permits, context>>
  /\ UNCHANGED <<handles, processes>>

(* close, by a call in start or by the lifespan: _browser.close() ...      *)
CloseBrowser(a) ==
  /\ at[a] = "closing"
  /\ Goto(a, IF playwright THEN "stopping" ELSE IF a = Lifespan THEN "ended" ELSE "starting")
  /\ browser' = 0
  /\ running' = running \ {browser}
  /\ UNCHANGED <<outcome, starters, waiting, permits, playwright, context, launched, crashed>>

(* ... and _playwright.stop(), which ends the driver and its browsers.     *)
StopPlaywright(a) ==
  /\ at[a] = "stopping"
  /\ Goto(a, IF a = Lifespan THEN "ended" ELSE "starting")
  /\ playwright' = FALSE
  /\ running' = {}
  /\ UNCHANGED <<outcome, starters, waiting, permits, browser, context, launched, crashed>>

(* Either of them raises what start does not expect.                       *)
CloseRaises(c) ==
  /\ at[c] \in {"closing", "stopping", "undoing"}
  /\ StartRaises(c, "untyped")
  /\ UNCHANGED <<handles, processes>>

StartPlaywright(c) ==
  /\ at[c] = "starting"
  /\ Goto(c, "launching")
  /\ playwright' = TRUE
  /\ UNCHANGED <<outcome, starters, waiting, permits, browser, context, processes>>

(* Playwright is not installed or does not start: close has nothing to do. *)
StartFails(c) ==
  /\ at[c] = "starting"
  /\ StartRaises(c, "unavailable")
  /\ UNCHANGED <<handles, processes>>

Launch(c) ==
  /\ at[c] = "launching"
  /\ browser' = launched + 1
  /\ launched' = launched + 1
  /\ running' = running \cup {launched + 1}
  /\ Passed(c, launched + 1)
  /\ UNCHANGED <<playwright, crashed>>

LaunchFails(c) ==
  /\ at[c] = "launching"
  /\ Goto(c, "undoing")
  /\ UNCHANGED <<outcome, starters, waiting, permits, handles, context, processes>>

Undo(c) ==
  /\ at[c] = "undoing"
  /\ StartRaises(c, "unavailable")
  /\ playwright' = FALSE
  /\ running' = {}
  /\ UNCHANGED <<browser, launched, crashed>>

StartStep(c) ==
  \/ Enter(c) \/ CloseBrowser(c) \/ StopPlaywright(c) \/ CloseRaises(c)
  \/ StartPlaywright(c) \/ StartFails(c) \/ Launch(c) \/ LaunchFails(c) \/ Undo(c)

-----------------------------------------------------------------------------
(* The rest of fetch, with a permit.                                       *)

(* The first waiter is given a permit; _browser may be another one than    *)
(* start left, or None.                                                    *)
Admit(c) ==
  /\ at[c] = "queue" /\ Head(waiting) = c /\ permits > 0
  /\ waiting' = Tail(waiting)
  /\ \/ /\ browser # 0
        /\ OpenOn(c, browser)
        /\ UNCHANGED outcome
     \/ /\ browser = 0
        /\ End(c, "failed")
        /\ UNCHANGED <<permits, context>>
  /\ UNCHANGED <<starters, handles, processes>>

(* Mutation: the permit is given back only by what has a page to close.    *)
VacateLate(c) == permits' = IF at[c] = "leaving" THEN permits + 1 ELSE permits

(* The body of the semaphore is left.                                      *)
Vacate(c) == permits' = permits + 1

LeaveWith(c, o) ==
  /\ End(c, o)
  /\ Vacate(c)
  /\ context' = [context EXCEPT ![c] = 0]
  /\ UNCHANGED <<starters, waiting, handles, processes>>

OpenContext(c) ==
  /\ at[c] = "opening" /\ context[c] \in running
  /\ Goto(c, "browsing")
  /\ UNCHANGED <<outcome, starters, waiting, permits, handles, context, processes>>

OpenFails(c) ==
  /\ at[c] = "opening"
  /\ LeaveWith(c, "failed")

(* The page, guarded as it loads and once more where it ended up.          *)
BrowsePage(c) ==
  /\ at[c] = "browsing"
  /\ \E o \in {"page", "refused", "failed"} :
       /\ context[c] \in running \/ o = "failed"
       /\ outcome' = [outcome EXCEPT ![c] = o]
  /\ Goto(c, "leaving")
  /\ UNCHANGED <<starters, waiting, permits, handles, context, processes>>

(* context.close() in the finally clause.                                  *)
CloseContext(c) ==
  /\ at[c] = "leaving"
  /\ LeaveWith(c, outcome[c])

(* It raises, in place of whatever the call had for an answer.             *)
CloseContextRaises(c) ==
  /\ at[c] = "leaving"
  /\ LeaveWith(c, "untyped")

PageStep(c) ==
  \/ Admit(c) \/ OpenContext(c) \/ OpenFails(c) \/ BrowsePage(c)
  \/ CloseContext(c) \/ CloseContextRaises(c)

-----------------------------------------------------------------------------
(* Chromium dies: its connection is lost.                                  *)
Die(b) ==
  /\ b \in running
  /\ Cardinality(crashed) < MaxCrashes
  /\ running' = running \ {b}
  /\ crashed' = crashed \cup {b}
  /\ UNCHANGED <<at, outcome, starters, waiting, permits, handles, context, launched>>

(* The server or worker stops: its calls have ended, and close runs        *)
(* without the lock.                                                       *)
Shutdown ==
  /\ at[Lifespan] = "away"
  /\ \A c \in Calls : at[c] \in {"away", "ended"}
  /\ Goto(Lifespan, CloseFrom("ended"))
  /\ UNCHANGED <<outcome, starters, waiting, permits, handles, context, processes>>

(* What close raises ends the lifespan.                                    *)
ShutdownRaises ==
  /\ at[Lifespan] \in {"closing", "stopping"}
  /\ Goto(Lifespan, "ended")
  /\ UNCHANGED <<outcome, starters, waiting, permits, handles, context, processes>>

CallStep(c) == Refuse(c) \/ Join(c) \/ StartStep(c) \/ PageStep(c)

Next ==
  \/ \E c \in Calls : Begin(c) \/ CallStep(c)
  \/ \E b \in running : Die(b)
  \/ Shutdown \/ CloseBrowser(Lifespan) \/ StopPlaywright(Lifespan) \/ ShutdownRaises

Spec == Init /\ [][Next]_vars

(* The event loop runs every coroutine that can run: one whose guard has   *)
(* an answer, whose turn it is at the lock, who is given a permit.         *)
(* Playwright owes nothing: of all its calls only page.goto is given a     *)
(* timeout (browser.py:94-95).                                             *)
Fairness == \A c \in Calls : WF_vars(Refuse(c) \/ Join(c) \/ Enter(c) \/ Admit(c))

FairSpec == Spec /\ Fairness

-----------------------------------------------------------------------------
(* Locations, handles and queues keep their types.  A call has a context   *)
(* exactly while it holds a permit.                                        *)
TypeOK ==
  /\ at \in [Calls \cup {Lifespan} -> Locations]
  /\ outcome \in [Calls -> Outcomes]
  /\ starters \in Seq(Calls)
  /\ waiting \in Seq(Calls)
  /\ permits \in Nat
  /\ playwright \in BOOLEAN
  /\ browser \in 0..launched
  /\ context \in [Calls -> 0..launched]
  /\ running \subseteq 1..launched
  /\ launched \in Nat
  /\ crashed \subseteq 1..launched
  /\ \A c \in Calls : context[c] # 0 <=> c \in Holders

(* There is never a Chromium besides the one _browser names, however many  *)
(* calls find it missing at once and however a start or close fails        *)
(* (docs/webfetch-service-srs.md:632): none is left behind running.        *)
OneBrowser == running \subseteq {browser}

(* A browser in which a call has a context, or is opening one, goes only   *)
(* by its own death: no other call's start, undoing or shutdown ends it    *)
(* under the call.                                                         *)
NeverPulled == \A c \in Holders : context[c] \in running \cup crashed

(* At most settings.concurrency calls have a context, and every other      *)
(* permit is free: whatever opening, loading or closing a page raises, no  *)
(* permit is lost or given back twice.                                     *)
PermitsKept == permits + Cardinality(Holders) = Concurrency

(* c awaits Playwright, or waits for the lock of a start that does, or for *)
(* a permit while fetches that do hold them all.                           *)
HeldUp(c) ==
  \/ at[c] \in Starting \cup Holding
  \/ at[c] = "lock" /\ at[Head(starters)] \in Starting
  \/ at[c] = "queue" /\ Cardinality(Holders) = Concurrency

(* Every call comes to its end, unless Playwright never answers it, or     *)
(* never answers the start or the fetches it waits for: no failure of a    *)
(* start leaves the lock held, no failure of a page its permit, and no     *)
(* waiter is passed over (browser.py:31, 73, 115-116).                     *)
CallsEnd == <>[](\A c \in Calls : at[c] \in {"away", "ended"} \/ HeldUp(c))
=============================================================================
